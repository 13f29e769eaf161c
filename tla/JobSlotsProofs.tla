--------------------------- MODULE JobSlotsProofs ---------------------------
(***************************************************************************)
(* For every set of jobs, callers and bounds: the types of JobSlots, the    *)
(* exact count of its slots, that no live process group is without a slot,  *)
(* that kill_confirmed is never true of one, and what a step never does;    *)
(* the positions of the queue, the shutdown that starts nothing, the one    *)
(* reap that may signal, and that JobSlots implements SlotSemaphore.        *)
(*                                                                          *)
(* The inductive invariant has a half about the store and a half about the  *)
(* suspended calls.  A step is first reduced to one of a few store steps    *)
(* (the records change, a slot is freed and the queue drained, ...), each   *)
(* of which keeps the store's half; the calls' half follows from what a     *)
(* store step guarantees (StoreStep).                                       *)
(***************************************************************************)
EXTENDS JobSlots, FiniteSetTheorems, SequenceTheorems, TLAPS

States        == Live \cup Terminal \cup {"none", "purged"}
Confirmations == {"unset", "yes", "no"}
Leaders       == {"none", "doomed", "alive", "dead"}

StoreTypes ==
  /\ state \in [Jobs -> States]
  /\ killConfirmed \in [Jobs -> Confirmations]
  /\ deadlineTimer \subseteq Jobs /\ children \subseteq Jobs
  /\ leader \in [Jobs -> Leaders]
  /\ orphan \in [Jobs -> BOOLEAN]
  /\ queue \in Seq(Jobs)
  /\ queuePosition \in [Jobs -> Nat]
  /\ activeSlots \in Nat /\ cap \in Caps
  /\ slotReserved \subseteq Jobs /\ slotReleased \subseteq Jobs /\ lostSlots \subseteq Jobs

CallTypes ==
  /\ exitSeen \subseteq Jobs
  /\ strandedSlots \subseteq Jobs /\ retryTimer \subseteq Jobs
  /\ attempts \in [Jobs -> 0 .. MaxStrandedSlotAttempts]
  /\ awaitingRelease \subseteq Jobs
  /\ reapAttempted \subseteq Jobs /\ reapEntered \subseteq Jobs
  /\ phase \in [Jobs -> [Kinds -> Phases]]
  /\ shuttingDown \in BOOLEAN

InQueue(j) == \E i \in 1 .. Len(queue) : queue[i] = j

(* A job run() has not seen, or that waits for its slot.                    *)
Waiting(j) == state[j] = "none" \/ InQueue(j)

QueueDistinct ==
  \A i, k \in 1 .. Len(queue) : queue[i] = queue[k] => i = k

(* Nothing was ever done to a waiting job.                                  *)
WaitingUntouched ==
  \A j \in Jobs : Waiting(j) =>
    /\ killConfirmed[j] = "unset" /\ leader[j] = "none"
    /\ InQueue(j) => state[j] = "starting"
    /\ j \notin children /\ j \notin deadlineTimer
    /\ j \notin slotReserved /\ j \notin lostSlots

(* The slot of a purged record is lost or was given back, never still held. *)
SlotsSound ==
  \A j \in Jobs :
    /\ j \in slotReleased => j \in slotReserved
    /\ j \in lostSlots => state[j] = "purged"
    /\ state[j] = "purged" => j \notin slotReserved

GroupsSound ==
  \A j \in Jobs :
    /\ orphan[j] => leader[j] \in {"alive", "dead"}
    /\ GroupAlive(j) => j \in children \/ state[j] = "purged"
    /\ GroupAlive(j) => j \in Held \cup lostSlots
    /\ killConfirmed[j] = "yes" => ~GroupAlive(j)

StoreInv ==
  /\ StoreTypes /\ QueueDistinct /\ WaitingUntouched /\ SlotsSound /\ GroupsSound
  /\ SlotAccounting /\ WorkConserving

(* A call in progress, an armed timer or a delivered exit is of a job that  *)
(* was started; a retry means that retries are allowed and not used up; and *)
(* releaseSlot awaits only on behalf of a job that took a slot.             *)
CallsSound ==
  \A j \in Jobs :
    /\ Waiting(j) => /\ j \notin exitSeen /\ j \notin retryTimer
                     /\ \A k \in Kinds : phase[j][k] = "idle"
    /\ j \in retryTimer => attempts[j] < MaxStrandedSlotAttempts
    /\ j \in retryTimer \/ phase[j]["retry"] # "idle" => 1 < MaxStrandedSlotAttempts
    /\ j \in awaitingRelease => j \in slotReserved \/ state[j] = "purged"

CallInv == CallTypes /\ CallsSound

IInv == StoreInv /\ CallInv

-----------------------------------------------------------------------------
(* What a step that keeps StoreInv guarantees to the suspended calls, and   *)
(* to the action properties.                                                *)
StoreStep ==
  /\ \A j \in Jobs :
       /\ Waiting(j)' => Waiting(j)
       /\ state[j] = "purged" => state'[j] = "purged"
       /\ state[j] \in Terminal => state'[j] \in {state[j], "purged"}
       /\ j \in slotReserved => j \in slotReserved' \/ state'[j] = "purged"
  /\ activeSlots' > activeSlots => activeSlots' <= cap'

(* st, kc: records a handler may leave of jobs that do not wait.            *)
GoodRecords(st, kc) ==
  /\ st \in [Jobs -> States] /\ kc \in [Jobs -> Confirmations]
  /\ \A i \in Jobs :
       /\ st[i] # state[i] => /\ state[i] \in Live /\ ~Waiting(i)
                             /\ st[i] \in Terminal \cup {"running"}
       /\ kc[i] # killConfirmed[i] => ~Waiting(i)
       /\ kc[i] = "yes" => ~GroupAlive(i)

(* Every set of jobs is finite.                                             *)
LEMMA JobSetsFinite ==
  ASSUME NEW S, S \subseteq Jobs
  PROVE  IsFiniteSet(S) /\ Cardinality(S) \in Nat
BY JobsAssumption, FS_Subset, FS_CardinalityType

(* Adding an element makes a set larger by one at most.                     *)
LEMMA AddAtMostOne ==
  ASSUME NEW S, NEW x, IsFiniteSet(S)
  PROVE  IsFiniteSet(S \cup {x}) /\ Cardinality(S \cup {x}) <= Cardinality(S) + 1
<1>1. Cardinality(S) \in Nat
  BY FS_CardinalityType
<1>2. IsFiniteSet(S \cup {x})
  BY FS_AddElement
<1>3. Cardinality(S \cup {x}) = IF x \in S THEN Cardinality(S) ELSE Cardinality(S) + 1
  BY FS_AddElement
<1> QED  BY <1>1, <1>2, <1>3

(* Disjoint sets of jobs add up.                                            *)
LEMMA DisjointUnion ==
  ASSUME NEW S, NEW T, S \subseteq Jobs, T \subseteq Jobs, S \cap T = {}
  PROVE  Cardinality(S \cup T) = Cardinality(S) + Cardinality(T)
<1>1. IsFiniteSet(S) /\ IsFiniteSet(T) /\ Cardinality(S) \in Nat /\ Cardinality(T) \in Nat
  BY JobSetsFinite
<1>2. Cardinality(S \cup T) = Cardinality(S) + Cardinality(T) - Cardinality(S \cap T)
  BY <1>1, FS_Union
<1>3. Cardinality(S \cap T) = 0
  BY FS_EmptySet
<1> QED  BY <1>1, <1>2, <1>3

(* A queue drained from within the cap ends within the cap: only the last   *)
(* job dequeued can have brought the count up to it.                        *)
LEMMA DrainCount ==
  ASSUME queue \in Seq(Jobs), NEW n \in 0 .. Len(queue), NEW active \in Nat,
         NEW c \in Nat, NEW throwing, DrainStops(n, active, c, throwing)
  PROVE  \/ Cardinality(Front(queue, n) \ throwing) = 0
         \/ active + Cardinality(Front(queue, n) \ throwing) <= c
<1>1. CASE n = 0
  <2>1. Front(queue, n) \ throwing = {}
    BY <1>1 DEF Front
  <2> QED  BY <2>1, FS_EmptySet
<1>2. CASE n > 0
  <2> DEFINE before == Front(queue, n - 1) \ throwing
             after  == Front(queue, n) \ throwing
  <2>1. n - 1 \in 0 .. n - 1 /\ n \in 1 .. Len(queue) /\ 1 .. n = (1 .. n - 1) \cup {n}
    BY <1>2
  <2>2. before \subseteq Jobs /\ after \subseteq Jobs
    BY <2>1, ElementOfSeq DEF Front
  <2>3. after \subseteq before \cup {queue[n]}
    BY <2>1 DEF Front
  <2>4. active + Cardinality(before) < c
    BY <2>1 DEF DrainStops
  <2> HIDE DEF before, after
  <2>5. IsFiniteSet(before) /\ Cardinality(before) \in Nat /\ Cardinality(after) \in Nat
    BY <2>2, JobSetsFinite
  <2>6. /\ IsFiniteSet(before \cup {queue[n]})
        /\ Cardinality(before \cup {queue[n]}) <= Cardinality(before) + 1
    BY <2>5, AddAtMostOne
  <2>7. Cardinality(after) <= Cardinality(before \cup {queue[n]})
    BY <2>3, <2>6, FS_Subset
  <2>8. Cardinality(before \cup {queue[n]}) \in Nat
    BY <2>6, FS_CardinalityType
  <2> QED  BY <2>4, <2>5, <2>6, <2>7, <2>8 DEF after
<1> QED  BY <1>1, <1>2

(* A step that changes records and disarms deadlines, no more.              *)
Rewrites(st, kc) ==
  state' = st /\ killConfirmed' = kc /\ deadlineTimer' \subseteq deadlineTimer

(* A step that only writes GoodRecords keeps the store's half.              *)
LEMMA RewritesKeep ==
  ASSUME StoreInv, NEW st, NEW kc, GoodRecords(st, kc), Rewrites(st, kc),
         UNCHANGED <<procVars, queueVars, slotVars, cap>>
  PROVE  StoreInv' /\ StoreStep
<1> USE DEF procVars, queueVars, slotVars, Rewrites
<1>1. StoreTypes'
  BY DEF StoreInv, StoreTypes, GoodRecords
<1>2. \A j \in Jobs : Waiting(j)' <=> Waiting(j)
  BY DEF GoodRecords, Waiting, InQueue, Terminal, Live
<1>3. QueueDistinct' /\ SlotAccounting' /\ WorkConserving'
  BY DEF StoreInv, QueueDistinct, SlotAccounting, WorkConserving, Held
<1>4. WaitingUntouched'
  BY <1>2 DEF StoreInv, WaitingUntouched, GoodRecords, InQueue, Waiting
<1>5. SlotsSound'
  BY DEF StoreInv, SlotsSound, GoodRecords, Terminal, Live
<1>6. GroupsSound'
  BY DEF StoreInv, GroupsSound, GoodRecords, GroupAlive, Held, Terminal, Live
<1>7. StoreStep
  <2>1. ~(activeSlots' > activeSlots)
    BY DEF StoreInv, StoreTypes
  <2>2. \A j \in Jobs : /\ state[j] = "purged" => state'[j] = "purged"
                        /\ state[j] \in Terminal => state'[j] = state[j]
    BY DEF GoodRecords, Terminal, Live
  <2> QED  BY <1>2, <2>1, <2>2 DEF StoreStep
<1> QED  BY <1>1, <1>3, <1>4, <1>5, <1>6, <1>7 DEF StoreInv

(* The same for the records as the handlers write them.                     *)
LEMMA RecordsKeep ==
  ASSUME StoreInv, NEW st, NEW kc, GoodRecords(st, kc), Records(st, kc),
         UNCHANGED <<procVars, queueVars, slotVars, cap>>
  PROVE  StoreInv' /\ StoreStep
BY RewritesKeep DEF Records, Rewrites

(* drainQueue, called with the slots released and the count its caller      *)
(* left: the store as it is, or with the slot of the dead group freed given *)
(* back.                                                                    *)
LEMMA DrainKeeps ==
  ASSUME StoreInv, NEW st, NEW kc, GoodRecords(st, kc),
         NEW freed, freed \subseteq Held, \A j \in freed : ~GroupAlive(j),
         NEW active \in Nat,
         active = Cardinality(Held \ freed) + Cardinality(lostSlots),
         cap' \in Caps, lostSlots' = lostSlots,
         DrainQueue(st, kc, slotReleased \cup freed, active, cap'),
         active <= activeSlots
  PROVE  StoreInv' /\ StoreStep
<1> PICK outcome \in [Front(queue, Len(queue)) -> SpawnOutcomes \ {"preflight"}],
         n \in 0 .. Len(queue) :
           LET throwing == {j \in DOMAIN outcome : outcome[j] = "throws"}
               started  == Front(queue, n)
           IN  /\ DrainStops(n, active, cap', throwing)
               /\ queue' = SubSeq(queue, n + 1, Len(queue))
               /\ queuePosition' = Renumbered(started, queue')
               /\ activeSlots' = active + Cardinality(started \ throwing)
               /\ slotReserved' = slotReserved \cup started
               /\ slotReleased' = slotReleased \cup freed \cup (started \cap throwing)
               /\ BeginSpawn(started, outcome, st, kc)
  BY DEF DrainQueue
<1> DEFINE throwing == {j \in DOMAIN outcome : outcome[j] = "throws"}
           started  == Front(queue, n)
           spawned  == {j \in started : outcome[j] = "spawns"}
           failed   == {j \in started : outcome[j] = "throws"}
<1>1. /\ queue \in Seq(Jobs) /\ Len(queue) \in Nat /\ n \in Nat
      /\ \A i \in 1 .. Len(queue) : queue[i] \in Jobs
  BY ElementOfSeq DEF StoreInv, StoreTypes
<1>2. /\ queue' \in Seq(Jobs)
      /\ Len(queue') = Len(queue) - n
      /\ \A i \in 1 .. Len(queue') : queue'[i] = queue[n + i]
  <2>1. \A i \in n + 1 .. Len(queue) : queue[i] \in Jobs
    BY <1>1
  <2>2. n + 1 \in Int /\ Len(queue) \in Int
    BY <1>1
  <2> DEFINE rest == SubSeq(queue, n + 1, Len(queue))
  <2>3. /\ rest \in Seq(Jobs)
        /\ Len(rest) = IF n + 1 <= Len(queue) THEN Len(queue) - (n + 1) + 1 ELSE 0
        /\ \A i \in 1 .. Len(queue) - (n + 1) + 1 : rest[i] = queue[(n + 1) + i - 1]
    BY <2>1, <2>2, SubSeqProperties
  <2>4. queue' = rest
    OBVIOUS
  <2> HIDE DEF rest
  <2>5. Len(rest) = Len(queue) - n
    BY <2>3, <1>1
  <2> QED  BY <2>3, <2>4, <2>5, <1>1
<1>3. \A j \in started : j \in Jobs /\ InQueue(j)
  BY <1>1 DEF InQueue, Front
<1>4. \A j \in Jobs : InQueue(j)' => InQueue(j) /\ j \notin started
  BY <1>1, <1>2 DEF InQueue, Front, StoreInv, QueueDistinct
<1>5. started \cap throwing = failed /\ \A j \in started : j \in DOMAIN outcome
  BY <1>1 DEF Front
<1>6. \A j \in started : /\ ~GroupAlive(j) /\ st[j] = "starting" /\ kc[j] = "unset"
                         /\ j \notin slotReserved /\ j \notin slotReleased
                         /\ j \notin lostSlots /\ j \notin freed
  BY <1>3 DEF StoreInv, WaitingUntouched, Waiting, GoodRecords, SlotsSound, GroupsSound,
              Held, GroupAlive
<1>7. /\ activeSlots' = active + Cardinality(started \ throwing)
      /\ slotReserved' = slotReserved \cup started
      /\ slotReleased' = slotReleased \cup freed \cup failed
      /\ deadlineTimer' = {j \in deadlineTimer : st[j] \in Live}
                            \cup (spawned \cap DeadlineJobs)
      /\ children' = children \cup spawned
      /\ leader' = [j \in Jobs |-> IF j \in started THEN LeaderAfter(outcome[j])
                                   ELSE leader[j]]
      /\ state' = [j \in Jobs |-> IF j \in failed THEN "failed" ELSE st[j]]
      /\ killConfirmed' = [j \in Jobs |-> IF j \in failed THEN "yes" ELSE kc[j]]
      /\ orphan' = orphan
      /\ queuePosition' = Renumbered(started, queue')
      /\ DrainStops(n, active, cap', throwing)
  BY <1>5 DEF BeginSpawn
<1>8. /\ spawned \subseteq started /\ failed \subseteq started
      /\ \A j \in started \ failed : LeaderAfter(outcome[j]) \in Leaders
      /\ \A j \in failed : LeaderAfter(outcome[j]) = "none"
      /\ \A j \in started : LeaderAfter(outcome[j]) = "alive" <=> j \in spawned
  BY DEF LeaderAfter, Leaders
<1>9. Cardinality(started \ throwing) \in Nat
  BY <1>3, JobSetsFinite
<1>10. queuePosition' \in [Jobs -> Nat]
  <2>1. DOMAIN queue' = 1 .. Len(queue') /\ 1 .. Len(queue') \subseteq Nat
    BY <1>2, LenProperties
  <2>2. \A j : (\E i \in DOMAIN queue' : queue'[i] = j) =>
          (CHOOSE i \in DOMAIN queue' : queue'[i] = j) \in DOMAIN queue'
    OBVIOUS
  <2>3. \A j \in Jobs : Renumbered(started, queue')[j] \in Nat
    BY <2>1, <2>2 DEF Renumbered, StoreInv, StoreTypes
  <2> QED  BY <1>7, <2>3 DEF Renumbered
<1> HIDE DEF throwing, started, spawned, failed
<1>11. StoreTypes'
  <2>1. /\ state' \in [Jobs -> States] /\ killConfirmed' \in [Jobs -> Confirmations]
        /\ leader' \in [Jobs -> Leaders] /\ orphan' \in [Jobs -> BOOLEAN]
    BY <1>7, <1>8
       DEF StoreInv, StoreTypes, GoodRecords, States, Terminal, Confirmations, Leaders
  <2>2. deadlineTimer' \subseteq Jobs /\ children' \subseteq Jobs
    BY <1>3, <1>7, <1>8 DEF StoreInv, StoreTypes
  <2>3. /\ slotReserved' \subseteq Jobs /\ slotReleased' \subseteq Jobs
        /\ lostSlots' \subseteq Jobs
    BY <1>3, <1>7, <1>8 DEF StoreInv, StoreTypes, Held
  <2>4. activeSlots' \in Nat
    BY <1>7, <1>9
  <2> QED  BY <1>2, <1>10, <2>1, <2>2, <2>3, <2>4 DEF StoreTypes
<1>12. QueueDistinct'
  BY <1>1, <1>2 DEF StoreInv, QueueDistinct
<1>13. \A j \in Jobs : Waiting(j)' => Waiting(j) /\ j \notin started
  BY <1>3, <1>4, <1>6, <1>7, <1>8 DEF Waiting, GoodRecords, Terminal, Live
<1>14. WaitingUntouched'
  BY <1>4, <1>7, <1>8, <1>13
     DEF StoreInv, WaitingUntouched, GoodRecords, Waiting
<1>15. SlotsSound'
  <2> SUFFICES ASSUME NEW j \in Jobs
               PROVE  /\ j \in slotReleased' => j \in slotReserved'
                      /\ j \in lostSlots => state'[j] = "purged"
                      /\ state'[j] = "purged" => j \notin slotReserved'
    BY DEF SlotsSound
  <2>1. j \in slotReleased' => j \in slotReserved'
    BY <1>7, <1>8 DEF StoreInv, SlotsSound, Held
  <2>2. state'[j] = "purged" <=> state[j] = "purged"
    BY <1>6, <1>7, <1>8 DEF GoodRecords, Live, Terminal
  <2>3. j \in started => j \notin lostSlots /\ state[j] # "purged"
    BY <1>6 DEF GoodRecords, Live
  <2> QED  BY <1>7, <2>1, <2>2, <2>3 DEF StoreInv, SlotsSound
<1>16. GroupsSound'
  BY <1>3, <1>5, <1>6, <1>7, <1>8
     DEF StoreInv, GroupsSound, GoodRecords, GroupAlive, Held, Live, Terminal, SlotsSound
<1>17. Held' = (Held \ freed) \cup (started \ throwing)
  BY <1>5, <1>6, <1>7 DEF Held
<1>18. SlotAccounting'
  <2>1. /\ Held \ freed \subseteq Jobs /\ started \ throwing \subseteq Jobs
        /\ (Held \ freed) \cap (started \ throwing) = {}
    BY <1>3, <1>6 DEF StoreInv, StoreTypes, Held
  <2>2. Cardinality(Held') = Cardinality(Held \ freed) + Cardinality(started \ throwing)
    BY <1>17, <2>1, DisjointUnion
  <2>3. activeSlots' = Cardinality(Held') + Cardinality(lostSlots)
    <3>1. Cardinality(Held \ freed) \in Nat /\ Cardinality(lostSlots) \in Nat
      BY <2>1, JobSetsFinite DEF StoreInv, StoreTypes
    <3> QED  BY <1>7, <1>9, <2>2, <3>1
  <2> QED  BY <2>3 DEF SlotAccounting
<1>19. cap' \in Nat
  BY CapsAssumption
<1>20. WorkConserving' /\ (activeSlots' > activeSlots => activeSlots' <= cap')
  <2>1. n = Len(queue) \/ activeSlots' >= cap'
    BY <1>7 DEF DrainStops, started
  <2>2. n = Len(queue) => queue' = <<>>
    BY <1>1, <1>2
  <2>3. activeSlots' = active \/ activeSlots' <= cap'
    <3>1. \/ Cardinality(started \ throwing) = 0
          \/ active + Cardinality(started \ throwing) <= cap'
      BY <1>1, <1>7, <1>19, DrainCount DEF started
    <3> QED  BY <1>7, <3>1
  <2> QED  BY <2>1, <2>2, <2>3, <1>11 DEF WorkConserving, StoreInv, StoreTypes
<1>21. StoreStep
  <2>1. \A j \in Jobs : /\ state[j] = "purged" => state'[j] = "purged"
                        /\ state[j] \in Terminal => state'[j] \in {state[j], "purged"}
    BY <1>6, <1>7, <1>8 DEF GoodRecords, Live, Terminal
  <2> QED  BY <1>7, <1>13, <1>20, <2>1 DEF StoreStep
<1> QED  BY <1>11, <1>12, <1>14, <1>15, <1>16, <1>18, <1>20, <1>21 DEF StoreInv

-----------------------------------------------------------------------------
(* What a step leaves of the stranded slots, and of the suspended calls.    *)
StrandStep(j) ==
  /\ strandedSlots' \subseteq Jobs /\ retryTimer' \subseteq retryTimer \cup {j}
  /\ attempts' \in [Jobs -> 0 .. MaxStrandedSlotAttempts]
  /\ \A i \in Jobs : i \in retryTimer' => /\ attempts'[i] < MaxStrandedSlotAttempts
                                          /\ 1 < MaxStrandedSlotAttempts

CallStep ==
  \A i \in Jobs :
    /\ Waiting(i) => /\ phase'[i] = phase[i]
                     /\ i \in exitSeen' => i \in exitSeen
                     /\ i \in retryTimer' => i \in retryTimer
    /\ i \in retryTimer' => /\ attempts'[i] < MaxStrandedSlotAttempts
                            /\ 1 < MaxStrandedSlotAttempts
    /\ phase'[i]["retry"] # "idle" => 1 < MaxStrandedSlotAttempts
    /\ i \in awaitingRelease' => i \in awaitingRelease \/ i \in slotReserved

(* The calls' half of any step follows from its store and its call step.   *)
LEMMA CallsKeep ==
  ASSUME IInv, StoreStep, CallStep
  PROVE  CallsSound'
BY DEF IInv, CallInv, CallsSound, StoreStep, CallStep

(* A step that leaves the stranded slots alone is a StrandStep.             *)
LEMMA StrandIdle ==
  ASSUME IInv, NEW j \in Jobs, UNCHANGED strandVars
  PROVE  StrandStep(j)
BY DEF IInv, CallInv, CallTypes, CallsSound, StrandStep, strandVars

(* The paths that give no slot back.                                        *)
LEMMA KeepSlotsKeeps ==
  ASSUME IInv, NEW j \in Jobs, NEW st, NEW kc, GoodRecords(st, kc), cap' = cap,
         KeepSlots(st, kc)
  PROVE  StoreInv' /\ StoreStep /\ StrandStep(j)
<1>1. StoreInv' /\ StoreStep
  BY RecordsKeep DEF IInv, KeepSlots, slotVars
<1>2. StrandStep(j)
  BY StrandIdle DEF KeepSlots
<1> QED  BY <1>1, <1>2

(* The paths that free a slot whose process group is empty.                 *)
LEMMA FreeSlotKeeps ==
  ASSUME IInv, NEW j \in Jobs, NEW st, NEW kc, GoodRecords(st, kc), cap' = cap,
         FreeSlot(j, st, kc), j \in Held, ~GroupAlive(j)
  PROVE  StoreInv' /\ StoreStep /\ StrandStep(j)
<1> DEFINE active == IF activeSlots > 0 THEN activeSlots - 1 ELSE 0
<1>1. StrandStep(j)
  BY BoundsAssumption DEF IInv, CallInv, CallTypes, CallsSound, StrandStep, FreeSlot
<1>2. Held \subseteq Jobs /\ lostSlots \subseteq Jobs /\ activeSlots \in Nat /\ cap \in Caps
  BY DEF IInv, StoreInv, StoreTypes, Held
<1>3. Cardinality(Held \ {j}) = Cardinality(Held) - 1
  <2>1. IsFiniteSet(Held)
    BY <1>2, JobSetsFinite
  <2>2. Cardinality(Held \ {j}) = IF j \in Held THEN Cardinality(Held) - 1
                                  ELSE Cardinality(Held)
    BY <2>1, FS_RemoveElement
  <2> QED  BY <2>2
<1>4. /\ Cardinality(Held \ {j}) \in Nat /\ Cardinality(Held) \in Nat
      /\ Cardinality(lostSlots) \in Nat
  BY <1>2, JobSetsFinite
<1>5. activeSlots = Cardinality(Held) + Cardinality(lostSlots)
  BY DEF IInv, StoreInv, SlotAccounting
<1>6. /\ active = Cardinality(Held \ {j}) + Cardinality(lostSlots)
      /\ active \in Nat /\ active <= activeSlots
  BY <1>2, <1>3, <1>4, <1>5
<1>7. DrainQueue(st, kc, slotReleased \cup {j}, active, cap') /\ lostSlots' = lostSlots
  BY DEF FreeSlot
<1> HIDE DEF active
<1>8. StoreInv' /\ StoreStep
  BY <1>2, <1>6, <1>7, DrainKeeps DEF IInv
<1> QED  BY <1>1, <1>8

(* An unconfirmed release strands the slot and leaves the count alone.      *)
LEMMA MarkSlotStrandedKeeps ==
  ASSUME IInv, NEW j \in Jobs, NEW st, NEW kc, GoodRecords(st, kc), cap' = cap,
         MarkSlotStranded(j, st, kc)
  PROVE  StoreInv' /\ StoreStep /\ StrandStep(j)
<1>1. StoreInv' /\ StoreStep
  BY RecordsKeep DEF IInv, MarkSlotStranded
<1>2. StrandStep(j)
  BY BoundsAssumption
     DEF IInv, CallInv, CallTypes, CallsSound, StrandStep, strandVars, MarkSlotStranded
<1> QED  BY <1>1, <1>2

(* releaseSlot on a confirmed reap of a slot still held, or an unconfirmed. *)
LEMMA CommitReleaseKeeps ==
  ASSUME IInv, NEW j \in Jobs, NEW decision, NEW st, NEW kc, GoodRecords(st, kc),
         cap' = cap, CommitRelease(j, decision, st, kc),
         decision = "yes" => j \in slotReserved /\ ~GroupAlive(j)
  PROVE  StoreInv' /\ StoreStep /\ StrandStep(j)
<1>1. CASE j \in slotReleased
  BY <1>1, KeepSlotsKeeps DEF CommitRelease
<1>2. CASE j \notin slotReleased /\ decision = "yes"
  BY <1>2, FreeSlotKeeps DEF CommitRelease, Held
<1>3. CASE j \notin slotReleased /\ decision # "yes"
  BY <1>3, MarkSlotStrandedKeeps DEF CommitRelease
<1> QED  BY <1>1, <1>2, <1>3

-----------------------------------------------------------------------------
(* Records the handlers leave, and what a reap decides without awaiting.    *)
LEMMA GoodConfirmation ==
  ASSUME IInv, NEW j \in Jobs, ~Waiting(j), NEW v \in {"yes", "no"},
         v = "yes" => ~GroupAlive(j)
  PROVE  GoodRecords(state, SetKillConfirmation(j, v))
BY DEF IInv, StoreInv, StoreTypes, GroupsSound, GoodRecords, SetKillConfirmation, Confirmations

(* What reapProcessGroupOnce writes before its await.                       *)
LEMMA GoodAtOnce ==
  ASSUME IInv, NEW j \in Jobs, ~Waiting(j)
  PROVE  GoodRecords(state, ConfirmedAtOnce({j}))
BY DEF IInv, StoreInv, StoreTypes, GroupsSound, GoodRecords, ConfirmedAtOnce, NoChild,
       HasRecord, Live, Terminal, Confirmations

(* Records left as they are.                                                *)
LEMMA GoodSame ==
  ASSUME IInv
  PROVE  GoodRecords(state, killConfirmed)
BY DEF IInv, StoreInv, StoreTypes, GroupsSound, GoodRecords

(* A terminal transition of a job that was started.                         *)
LEMMA GoodMarked ==
  ASSUME IInv, NEW j \in Jobs, ~Waiting(j), NEW s \in Terminal, NEW kc,
         GoodRecords(state, kc)
  PROVE  GoodRecords(Marked(j, s), kc)
BY DEF IInv, StoreInv, StoreTypes, GoodRecords, Marked, States, Live

(* A reap that allows a release at once has an empty group.                 *)
LEMMA AtOnceIsEmpty ==
  ASSUME IInv, NEW j \in Jobs, ReapPhase(j) = "yes", MayRelease(j)
  PROVE  j \in Held /\ ~GroupAlive(j)
BY DEF IInv, StoreInv, GroupsSound, SlotsSound, ReapPhase, NoChild, MayRelease, Held

(* What a reap comes to before its await.                                   *)
LEMMA ReapPhaseType ==
  ASSUME NEW j \in Jobs
  PROVE  ReapPhase(j) \in {"yes", "no", "reaper", "existence"}
BY DEF ReapPhase

(* A step that leaves the suspended calls alone is a CallStep.              *)
LEMMA QuietCalls ==
  ASSUME IInv,
         UNCHANGED <<strandVars, reapVars, exitSeen, awaitingRelease, shuttingDown, phase>>
  PROVE  CallTypes' /\ CallStep
BY DEF IInv, CallInv, CallTypes, CallsSound, CallStep, strandVars, reapVars

(* reapProcessGroupOnce after its await, for each of its callers.           *)
LEMMA ReapSettlesKeeps ==
  ASSUME IInv, NEW j \in Jobs, NEW k \in Kinds, ReapSettles(j, k)
  PROVE  StoreInv' /\ StoreStep /\ CallTypes' /\ CallStep
<1> PICK confirmed \in BOOLEAN :
      LET landed == confirmed /\ HasRecord(j)
      IN  /\ MayConfirm(j, confirmed)
          /\ reapAttempted' = IF landed THEN reapAttempted \cup {j} ELSE reapAttempted
          /\ ReapDecided(j, k, IF landed THEN "yes" ELSE "no", state,
                         SetKillConfirmation(j, IF confirmed THEN "yes" ELSE "no"))
  BY DEF ReapSettles
<1> DEFINE decision == IF confirmed /\ HasRecord(j) THEN "yes" ELSE "no"
           kc == SetKillConfirmation(j, IF confirmed THEN "yes" ELSE "no")
<1>1. ~Waiting(j)
  BY DEF IInv, CallInv, CallsSound, ReapSettles, Pending
<1>2. GoodRecords(state, kc)
  BY <1>1, GoodConfirmation DEF MayConfirm
<1>3. decision = "yes" => ~GroupAlive(j) /\ HasRecord(j)
  BY DEF MayConfirm
<1>4. cap' = cap /\ ReapDecided(j, k, decision, state, kc)
  BY DEF ReapSettles
<1> HIDE DEF decision, kc
<1>5. k = "retry" => 1 < MaxStrandedSlotAttempts
  BY DEF IInv, CallInv, CallsSound, ReapSettles, Pending
<1>6. StoreInv' /\ StoreStep /\ StrandStep(j)
  <2>1. CASE KeepSlots(state, kc)
    BY <1>2, <1>4, <2>1, KeepSlotsKeeps
  <2>2. CASE k = "exit" /\ j \in awaitingRelease /\ CommitRelease(j, decision, state, kc)
    <3>1. decision = "yes" => j \in slotReserved
      BY <1>3, <2>2 DEF IInv, CallInv, CallsSound, HasRecord, Live, Terminal
    <3> QED  BY <1>2, <1>3, <1>4, <2>2, <3>1, CommitReleaseKeeps
  <2>3. CASE k = "retry" /\ decision = "no" /\ ReapDecided(j, k, decision, state, kc)
    <3>1. Records(state, kc) /\ UNCHANGED <<procVars, queueVars, slotVars>>
      BY <2>3 DEF ReapDecided
    <3>2. StoreInv' /\ StoreStep
      BY <1>2, <1>4, <3>1, RecordsKeep DEF IInv
    <3>3. StrandStep(j)
      BY <1>5, <2>3
         DEF ReapDecided, RetryAgain, IInv, CallInv, CallTypes, CallsSound, StrandStep
    <3> QED  BY <3>2, <3>3
  <2>4. CASE decision = "yes" /\ MayRelease(j) /\ FreeSlot(j, state, kc)
    BY <1>2, <1>3, <1>4, <2>4, FreeSlotKeeps DEF MayRelease, Held
  <2> QED  BY <1>4, <2>1, <2>2, <2>3, <2>4 DEF ReapDecided
<1>7. CallTypes'
  BY <1>6 DEF ReapSettles, StrandStep, IInv, CallInv, CallTypes, Phases
<1>8. CallStep
  BY <1>1, <1>6 DEF ReapSettles, StrandStep, IInv, CallInv, CallTypes, CallsSound, CallStep
<1> QED  BY <1>6, <1>7, <1>8

-----------------------------------------------------------------------------
(* run(): the refusals, the queue and the admission.                        *)
LEMMA QueuedAppend ==
  ASSUME queue \in Seq(Jobs), NEW j \in Jobs, queue' = Append(queue, j)
  PROVE  /\ queue' \in Seq(Jobs) /\ Len(queue') = Len(queue) + 1
         /\ queue'[Len(queue) + 1] = j
         /\ \A i \in 1 .. Len(queue) : queue'[i] = queue[i]
         /\ \A i \in Jobs : InQueue(i)' <=> InQueue(i) \/ i = j
<1>1. /\ queue' \in Seq(Jobs) /\ Len(queue') = Len(queue) + 1
      /\ queue'[Len(queue) + 1] = j
      /\ \A i \in 1 .. Len(queue) : queue'[i] = queue[i]
  OBVIOUS
<1>2. Len(queue) \in Nat /\ 1 .. Len(queue) + 1 = (1 .. Len(queue)) \cup {Len(queue) + 1}
  BY LenProperties
<1> QED  BY <1>1, <1>2 DEF InQueue

(* run() that joins the queue: the new job is behind the others.            *)
LEMMA RunQueuedKeeps ==
  ASSUME IInv, NEW j \in Jobs, RunQueued(j)
  PROVE  StoreInv' /\ StoreStep
<1> USE DEF procVars, slotVars, queueVars
<1>1. /\ state[j] = "none" /\ state' = [state EXCEPT ![j] = "starting"]
      /\ killConfirmed' = killConfirmed /\ queue' = Append(queue, j)
      /\ cap' = cap /\ UNCHANGED <<procVars, slotVars>>
      /\ deadlineTimer' \subseteq deadlineTimer
      /\ queuePosition' = [queuePosition EXCEPT ![j] = Len(queue')]
      /\ activeSlots >= cap \/ queue # <<>>
  BY DEF RunQueued, Records, Queues, restVars
<1>2. queue \in Seq(Jobs) /\ ~InQueue(j) /\ Waiting(j) /\ Len(queue) \in Nat
  BY <1>1 DEF IInv, StoreInv, StoreTypes, WaitingUntouched, Waiting
<1>3. /\ queue' \in Seq(Jobs) /\ Len(queue') = Len(queue) + 1
      /\ queue'[Len(queue) + 1] = j
      /\ \A i \in 1 .. Len(queue) : queue'[i] = queue[i]
      /\ \A i \in Jobs : InQueue(i)' <=> InQueue(i) \/ i = j
  BY <1>1, <1>2, QueuedAppend
<1>4. StoreTypes'
  BY <1>1, <1>2, <1>3 DEF IInv, StoreInv, StoreTypes, States, Live
<1>5. QueueDistinct'
  BY <1>2, <1>3 DEF IInv, StoreInv, QueueDistinct, InQueue
<1>6. \A i \in Jobs : Waiting(i)' => Waiting(i)
  BY <1>1, <1>2, <1>3 DEF Waiting, IInv, StoreInv, StoreTypes
<1>7. WaitingUntouched'
  BY <1>1, <1>2, <1>3, <1>6 DEF WaitingUntouched, IInv, StoreInv, StoreTypes
<1>8. SlotsSound' /\ GroupsSound'
  BY <1>1, <1>2 DEF SlotsSound, GroupsSound, GroupAlive, Held, IInv, StoreInv, StoreTypes,
     WaitingUntouched
<1>9. SlotAccounting' /\ WorkConserving'
  BY <1>1 DEF SlotAccounting, WorkConserving, Held, IInv, StoreInv
<1>10. StoreStep
  BY <1>1, <1>6 DEF StoreStep, IInv, StoreInv, StoreTypes, Terminal
<1> QED  BY <1>4, <1>5, <1>7, <1>8, <1>9, <1>10 DEF StoreInv

(* run() that fails before it asks for a slot.                              *)
LEMMA RunPreflightFailsKeeps ==
  ASSUME IInv, NEW j \in Jobs, RunPreflightFails(j)
  PROVE  StoreInv' /\ StoreStep
<1> USE DEF procVars, slotVars, queueVars
<1>1. /\ state[j] = "none" /\ state' = [state EXCEPT ![j] = "failed"]
      /\ killConfirmed' = [killConfirmed EXCEPT ![j] = "yes"]
      /\ cap' = cap /\ UNCHANGED <<procVars, slotVars, queueVars>>
      /\ deadlineTimer' \subseteq deadlineTimer
  BY DEF RunPreflightFails, Records, restVars
<1>2. /\ ~InQueue(j) /\ Waiting(j) /\ ~GroupAlive(j)
      /\ \A i \in Jobs : InQueue(i)' <=> InQueue(i)
  BY <1>1 DEF IInv, StoreInv, StoreTypes, WaitingUntouched, Waiting, InQueue, GroupsSound,
              GroupAlive, Held
<1>3. StoreTypes'
  BY <1>1 DEF IInv, StoreInv, StoreTypes, States, Terminal, Confirmations
<1>4. WaitingUntouched'
  BY <1>1, <1>2 DEF WaitingUntouched, Waiting, IInv, StoreInv, StoreTypes
<1>5. SlotsSound' /\ GroupsSound'
  BY <1>1, <1>2 DEF SlotsSound, GroupsSound, GroupAlive, Held, IInv, StoreInv, StoreTypes,
     WaitingUntouched
<1>6. QueueDistinct' /\ SlotAccounting' /\ WorkConserving'
  BY <1>1 DEF QueueDistinct, SlotAccounting, WorkConserving, Held, IInv, StoreInv
<1>7. StoreStep
  BY <1>1, <1>2 DEF StoreStep, Waiting, IInv, StoreInv, StoreTypes, Terminal
<1> QED  BY <1>3, <1>4, <1>5, <1>6, <1>7 DEF StoreInv

(* run() that takes a slot, its spawn succeeding, doomed or throwing.       *)
LEMMA RunAdmittedKeeps ==
  ASSUME IInv, NEW j \in Jobs, RunAdmitted(j)
  PROVE  StoreInv' /\ StoreStep
<1> USE DEF queueVars
<1> PICK outcome \in [{j} -> SpawnOutcomes \ {"preflight"}] :
      /\ BeginSpawn({j}, outcome, [state EXCEPT ![j] = "starting"], killConfirmed)
      /\ slotReserved' = slotReserved \cup {j}
      /\ IF outcome[j] = "throws"
           THEN slotReleased' = slotReleased \cup {j} /\ activeSlots' = activeSlots
           ELSE slotReleased' = slotReleased /\ activeSlots' = activeSlots + 1
  BY DEF RunAdmitted
<1> DEFINE fails == outcome[j] = "throws"
<1>1. /\ state[j] = "none" /\ Waiting(j) /\ ~GroupAlive(j) /\ ~InQueue(j)
      /\ j \notin slotReserved /\ j \notin slotReleased /\ j \notin lostSlots
      /\ killConfirmed[j] = "unset"
  BY DEF RunAdmitted, IInv, StoreInv, WaitingUntouched, Waiting, SlotsSound, GroupsSound,
         GroupAlive, Held
<1>2. /\ state' = [state EXCEPT ![j] = IF fails THEN "failed" ELSE "starting"]
      /\ killConfirmed' = [killConfirmed EXCEPT ![j] = IF fails THEN "yes" ELSE @]
      /\ leader' = [leader EXCEPT ![j] = LeaderAfter(outcome[j])]
      /\ orphan' = orphan
      /\ children' = IF outcome[j] = "spawns" THEN children \cup {j} ELSE children
      /\ \A i \in deadlineTimer' : i \in deadlineTimer \/ i = j
  BY <1>1 DEF BeginSpawn, IInv, StoreInv, StoreTypes
<1>3. /\ LeaderAfter(outcome[j]) \in Leaders
      /\ fails => LeaderAfter(outcome[j]) = "none"
      /\ LeaderAfter(outcome[j]) = "alive" <=> outcome[j] = "spawns"
  BY DEF LeaderAfter, Leaders
<1>4. cap' = cap /\ queue = <<>> /\ UNCHANGED <<queueVars, lostSlots>> /\ activeSlots < cap
      /\ cap \in Nat /\ activeSlots \in Nat
  BY CapsAssumption DEF RunAdmitted, Admits, restVars, IInv, StoreInv, StoreTypes
<1>5. /\ slotReserved' = slotReserved \cup {j}
      /\ slotReleased' = IF fails THEN slotReleased \cup {j} ELSE slotReleased
      /\ activeSlots' = IF fails THEN activeSlots ELSE activeSlots + 1
  OBVIOUS
<1> HIDE DEF fails
<1>6. StoreTypes'
  BY <1>2, <1>3, <1>4, <1>5
     DEF IInv, StoreInv, StoreTypes, States, Live, Terminal, Confirmations
<1>7. \A i \in Jobs : /\ InQueue(i)' <=> InQueue(i)
                      /\ Waiting(i)' <=> Waiting(i) /\ i # j
  BY <1>1, <1>2, <1>4 DEF InQueue, Waiting, IInv, StoreInv, StoreTypes
<1>8. WaitingUntouched'
  BY <1>2, <1>4, <1>5, <1>7 DEF WaitingUntouched, IInv, StoreInv, StoreTypes
<1>9. SlotsSound'
  BY <1>1, <1>2, <1>4, <1>5 DEF SlotsSound, IInv, StoreInv, StoreTypes
<1>10. GroupsSound'
  BY <1>1, <1>2, <1>3, <1>4, <1>5
     DEF SlotsSound, GroupsSound, GroupAlive, Held, IInv, StoreInv, StoreTypes
<1>11. SlotAccounting'
  <2>1. Held' = IF fails THEN Held ELSE Held \cup {j}
    BY <1>1, <1>5 DEF Held
  <2>2. Held \subseteq Jobs /\ lostSlots \subseteq Jobs /\ j \notin Held
    BY <1>1 DEF IInv, StoreInv, StoreTypes, Held
  <2>3. /\ Cardinality(Held \cup {j}) = Cardinality(Held) + 1
        /\ Cardinality(Held) \in Nat /\ Cardinality(lostSlots) \in Nat
    BY <2>2, JobSetsFinite, FS_AddElement
  <2> QED  BY <1>4, <1>5, <2>1, <2>3 DEF SlotAccounting, IInv, StoreInv
<1>12. QueueDistinct' /\ WorkConserving'
  BY <1>4 DEF QueueDistinct, WorkConserving, IInv, StoreInv
<1>13. StoreStep
  BY <1>1, <1>2, <1>4, <1>5, <1>7 DEF StoreStep, IInv, StoreInv, StoreTypes, Terminal
<1> QED  BY <1>6, <1>8, <1>9, <1>10, <1>11, <1>12, <1>13 DEF StoreInv

-----------------------------------------------------------------------------
(* A step in which only the processes of one started job change.            *)
LEMMA ProcessesKeep ==
  ASSUME IInv, NEW j \in Jobs,
         UNCHANGED <<recordVars, children, queueVars, slotVars, cap>>,
         leader' \in [Jobs -> Leaders], orphan' \in [Jobs -> BOOLEAN],
         leader[j] \in {"alive", "dead"}, leader'[j] \in {"alive", "dead"},
         GroupAlive(j)' => GroupAlive(j),
         \A i \in Jobs \ {j} : leader'[i] = leader[i] /\ orphan'[i] = orphan[i]
  PROVE  StoreInv' /\ StoreStep
<1> USE DEF recordVars, queueVars, slotVars
<1>1. StoreTypes' /\ QueueDistinct' /\ SlotsSound' /\ SlotAccounting' /\ WorkConserving'
  BY DEF IInv, StoreInv, StoreTypes, QueueDistinct, SlotsSound, SlotAccounting, WorkConserving,
         Held
<1>2. \A i \in Jobs : Waiting(i)' <=> Waiting(i)
  BY DEF Waiting, InQueue
<1>3. WaitingUntouched'
  BY <1>2 DEF IInv, StoreInv, WaitingUntouched, InQueue
<1>4. GroupsSound'
  BY DEF IInv, StoreInv, GroupsSound, GroupAlive, Held
<1>5. StoreStep
  BY <1>2 DEF StoreStep, IInv, StoreInv, StoreTypes
<1> QED  BY <1>1, <1>3, <1>4, <1>5 DEF StoreInv

(* What happens to the processes of a started job.                          *)
LEMMA ProcessActionsKeep ==
  ASSUME IInv, NEW j \in Jobs, LeaderDies(j) \/ OrphanStarts(j) \/ OrphanDies(j)
  PROVE  StoreInv' /\ StoreStep /\ CallTypes' /\ CallStep
<1> USE DEF restVars
<1>1. CallTypes' /\ CallStep
  BY QuietCalls DEF LeaderDies, OrphanStarts, OrphanDies
<1>2. leader \in [Jobs -> Leaders] /\ orphan \in [Jobs -> BOOLEAN]
  BY DEF IInv, StoreInv, StoreTypes
<1>3. CASE LeaderDies(j)
  <2>1. GroupAlive(j)' => GroupAlive(j)
    BY <1>2, <1>3 DEF LeaderDies, GroupAlive
  <2> QED  BY <1>1, <1>2, <1>3, <2>1, ProcessesKeep DEF LeaderDies, Leaders
<1>4. CASE OrphanStarts(j)
  BY <1>1, <1>2, <1>4, ProcessesKeep DEF OrphanStarts, GroupAlive
<1>5. CASE OrphanDies(j)
  <2>1. leader[j] \in {"alive", "dead"}
    BY <1>5 DEF OrphanDies, IInv, StoreInv, GroupsSound
  <2> QED  BY <1>1, <1>2, <1>5, <2>1, ProcessesKeep DEF OrphanDies, GroupAlive
<1> QED  BY <1>3, <1>4, <1>5

(* A step that leaves the stranded slots and the calls alone and changes    *)
(* records only.                                                            *)
LEMMA QuietRecordsKeep ==
  ASSUME IInv, NEW st, NEW kc, GoodRecords(st, kc), Records(st, kc),
         UNCHANGED <<procVars, queueVars, slotVars, strandVars, reapVars, restVars, phase>>
  PROVE  StoreInv' /\ StoreStep /\ CallTypes' /\ CallStep
<1> USE DEF restVars
<1>1. StoreInv' /\ StoreStep
  BY RecordsKeep DEF IInv
<1> QED  BY <1>1, QuietCalls

(* The 'spawn' event and the late firing of the terminal-mark gate.         *)
LEMMA EventsKeep ==
  ASSUME IInv, NEW j \in Jobs, OnSpawn(j) \/ GateFires(j)
  PROVE  StoreInv' /\ StoreStep /\ CallTypes' /\ CallStep
<1>1. CASE OnSpawn(j)
  <2>1. GoodRecords([state EXCEPT ![j] = "running"], killConfirmed)
    BY <1>1, GoodSame
       DEF OnSpawn, GoodRecords, IInv, StoreInv, StoreTypes, WaitingUntouched, States, Live
  <2> QED  BY <1>1, <2>1, QuietRecordsKeep DEF OnSpawn
<1>2. CASE GateFires(j)
  <2>1. ~Waiting(j)
    BY <1>2 DEF GateFires, IInv, CallInv, CallsSound
  <2>2. PICK s \in {"exited", "killed"} : Records(Marked(j, s), killConfirmed)
    BY <1>2 DEF GateFires
  <2>3. GoodRecords(Marked(j, s), killConfirmed)
    BY <2>1, GoodSame, GoodMarked DEF Terminal
  <2> QED  BY <1>2, <2>2, <2>3, QuietRecordsKeep DEF GateFires
<1> QED  BY <1>1, <1>2

(* The 'error' event: the record fails and its slot is freed.               *)
LEMMA OnErrorKeeps ==
  ASSUME IInv, NEW j \in Jobs, OnError(j)
  PROVE  StoreInv' /\ StoreStep /\ CallTypes' /\ CallStep
<1> DEFINE st == Marked(j, "failed")
           kc == SetKillConfirmation(j, "yes")
<1>1. ~Waiting(j) /\ ~GroupAlive(j)
  BY DEF OnError, IInv, StoreInv, WaitingUntouched, GroupsSound, GroupAlive
<1>2. GoodRecords(st, kc)
  BY <1>1, GoodConfirmation, GoodMarked DEF Terminal
<1>3. cap' = cap /\ IF MayRelease(j) THEN FreeSlot(j, st, kc) ELSE KeepSlots(st, kc)
  BY DEF OnError, restVars
<1> HIDE DEF st, kc
<1>4. StoreInv' /\ StoreStep /\ StrandStep(j)
  BY <1>1, <1>2, <1>3, FreeSlotKeeps, KeepSlotsKeeps DEF MayRelease, Held
<1>5. CallTypes'
  BY <1>4 DEF OnError, StrandStep, IInv, CallInv, CallTypes, reapVars, restVars
<1>6. CallStep
  BY <1>1, <1>4 DEF OnError, StrandStep, IInv, CallInv, CallsSound, CallStep, restVars
<1> QED  BY <1>4, <1>5, <1>6

-----------------------------------------------------------------------------
(* The reaps that enter: the leader's exit, the retry, kill() on a record   *)
(* that is terminal.                                                        *)
LEMMA OnExitKeeps ==
  ASSUME IInv, NEW j \in Jobs, OnExit(j)
  PROVE  StoreInv' /\ StoreStep /\ CallTypes' /\ CallStep
<1> DEFINE p == ReapPhase(j)
           kc == ConfirmedAtOnce({j})
<1> PICK st \in {state, Marked(j, "exited"), Marked(j, "killed")} :
      IF Pending(p) \/ ~MayRelease(j) THEN KeepSlots(st, kc) ELSE CommitRelease(j, p, st, kc)
  BY DEF OnExit
<1>1. ~Waiting(j)
  BY DEF OnExit, IInv, StoreInv, WaitingUntouched
<1>2. GoodRecords(st, kc)
  BY <1>1, GoodAtOnce, GoodMarked DEF Terminal
<1>3. p = "yes" /\ MayRelease(j) => j \in slotReserved /\ ~GroupAlive(j)
  BY AtOnceIsEmpty DEF MayRelease
<1>4. cap' = cap /\ p \in {"yes", "no", "reaper", "existence"}
  BY ReapPhaseType DEF OnExit
<1>5. /\ phase' = IF Pending(p) THEN [phase EXCEPT ![j]["exit"] = p] ELSE phase
      /\ awaitingRelease' \subseteq awaitingRelease \cup {j}
      /\ exitSeen' = exitSeen \cup {j} /\ shuttingDown' = shuttingDown /\ EnterReaps({j})
  BY DEF OnExit
<1> HIDE DEF p, kc
<1>6. StoreInv' /\ StoreStep /\ StrandStep(j)
  BY <1>2, <1>3, <1>4, KeepSlotsKeeps, CommitReleaseKeeps
<1>7. CallTypes'
  BY <1>4, <1>6, <1>5
     DEF EnterReaps, StrandStep, IInv, CallInv, CallTypes, Phases, Pending, Kinds
<1>8. CallStep
  BY <1>1, <1>6 DEF OnExit, StrandStep, IInv, CallInv, CallTypes, CallsSound, CallStep,
                    MayRelease, Kinds
<1> QED  BY <1>6, <1>7, <1>8

(* The retry of a stranded slot up to its await.                            *)
LEMMA RetryTimerFiresKeeps ==
  ASSUME IInv, NEW j \in Jobs, RetryTimerFires(j)
  PROVE  StoreInv' /\ StoreStep /\ CallTypes' /\ CallStep
<1> USE BoundsAssumption DEF restVars
<1> DEFINE p == ReapPhase(j)
           kc == ConfirmedAtOnce({j})
           tried == attempts[j] + 1
<1>1. /\ ~Waiting(j) /\ attempts[j] < MaxStrandedSlotAttempts /\ 1 < MaxStrandedSlotAttempts
  BY DEF RetryTimerFires, IInv, CallInv, CallsSound
<1>2. GoodRecords(state, kc)
  BY <1>1, GoodAtOnce
<1>3. StoreInv' /\ StoreStep /\ StrandStep(j)
  <2>1. CASE p = "yes" /\ MayRelease(j)
    <3>1. FreeSlot(j, state, kc) /\ cap' = cap
      BY <2>1 DEF RetryTimerFires
    <3>2. j \in Held /\ ~GroupAlive(j)
      BY <2>1, AtOnceIsEmpty
    <3> HIDE DEF p, kc
    <3> QED  BY <1>2, <3>1, <3>2, FreeSlotKeeps
  <2>2. CASE ~(p = "yes" /\ MayRelease(j))
    <3>1. /\ Records(state, kc) /\ cap' = cap
          /\ attempts' = [attempts EXCEPT ![j] = tried]
          /\ retryTimer' = IF p = "no" /\ tried < MaxStrandedSlotAttempts
                           THEN retryTimer ELSE retryTimer \ {j}
          /\ UNCHANGED <<procVars, queueVars, slotVars, strandedSlots>>
      BY <2>2 DEF RetryTimerFires
    <3> HIDE DEF kc
    <3>2. StoreInv' /\ StoreStep
      BY <1>2, <3>1, RecordsKeep DEF IInv
    <3>3. tried \in 0 .. MaxStrandedSlotAttempts
      BY <1>1 DEF IInv, CallInv, CallTypes
    <3> HIDE DEF tried
    <3>4. StrandStep(j)
      BY <1>1, <3>1, <3>3 DEF StrandStep, IInv, CallInv, CallTypes, CallsSound
    <3> QED  BY <3>2, <3>4
  <2> QED  BY <2>1, <2>2
<1>4. p \in {"yes", "no", "reaper", "existence"}
  BY ReapPhaseType
<1>5. /\ phase' = [phase EXCEPT ![j]["retry"] = IF Pending(p) THEN p ELSE "idle"]
      /\ EnterReaps({j}) /\ UNCHANGED restVars
  BY DEF RetryTimerFires
<1> HIDE DEF p
<1>6. CallTypes'
  BY <1>3, <1>4, <1>5
     DEF EnterReaps, StrandStep, IInv, CallInv, CallTypes, Phases, Pending, Kinds
<1>7. CallStep
  BY <1>1, <1>3, <1>5 DEF StrandStep, IInv, CallInv, CallTypes, CallsSound, CallStep, Kinds
<1> QED  BY <1>3, <1>6, <1>7

(* A retry timer whose slot is no longer stranded does nothing.             *)
LEMMA StaleRetryFiresKeeps ==
  ASSUME IInv, NEW j \in Jobs, StaleRetryFires(j)
  PROVE  StoreInv' /\ StoreStep /\ CallTypes' /\ CallStep
<1>1. StoreInv' /\ StoreStep
  BY GoodSame, RewritesKeep DEF StaleRetryFires, Rewrites, recordVars, restVars, IInv
<1>2. CallTypes' /\ CallStep
  BY DEF StaleRetryFires, IInv, CallInv, CallTypes, CallsSound, CallStep, reapVars, restVars
<1> QED  BY <1>1, <1>2

(* kill() on a terminal record.                                             *)
LEMMA KillTerminalKeeps ==
  ASSUME IInv, NEW j \in Jobs, NEW k \in Kinds, KillTerminal(j, k)
  PROVE  StoreInv' /\ StoreStep /\ CallTypes' /\ CallStep
<1> USE DEF restVars
<1> DEFINE p == ReapPhase(j)
           kc == ConfirmedAtOnce({j})
<1>1. ~Waiting(j) /\ k # "retry" /\ cap' = cap
  BY KillAssumption
     DEF KillTerminal, IInv, StoreInv, WaitingUntouched, Waiting, Terminal
<1>2. GoodRecords(state, kc)
  BY <1>1, GoodAtOnce
<1>3. p = "yes" /\ MayRelease(j) => j \in Held /\ ~GroupAlive(j)
  BY AtOnceIsEmpty
<1>4. p \in {"yes", "no", "reaper", "existence"}
  BY ReapPhaseType
<1>5. /\ phase' = [phase EXCEPT ![j][k] = IF Pending(p) THEN p ELSE "idle"]
      /\ IF p = "yes" /\ MayRelease(j) THEN FreeSlot(j, state, kc) ELSE KeepSlots(state, kc)
      /\ EnterReaps({j}) /\ UNCHANGED restVars
  BY DEF KillTerminal
<1> HIDE DEF p, kc
<1>6. StoreInv' /\ StoreStep /\ StrandStep(j)
  BY <1>1, <1>2, <1>3, <1>5, FreeSlotKeeps, KeepSlotsKeeps
<1>7. CallTypes'
  BY <1>4, <1>5, <1>6
     DEF EnterReaps, StrandStep, IInv, CallInv, CallTypes, Phases, Pending
<1>8. CallStep
  BY <1>1, <1>5, <1>6 DEF StrandStep, IInv, CallInv, CallTypes, CallsSound, CallStep, Kinds
<1> QED  BY <1>6, <1>7, <1>8

-----------------------------------------------------------------------------
(* Signalling: a call about a started job takes its next step.              *)
LEMMA CallAdvances ==
  ASSUME IInv, NEW j \in Jobs, NEW k \in Kinds, NEW p \in Phases, ~Waiting(j),
         NEW st, NEW kc, GoodRecords(st, kc), Rewrites(st, kc),
         phase' = [phase EXCEPT ![j][k] = p],
         k = "retry" => phase[j][k] # "idle",
         reapAttempted' \subseteq reapAttempted \cup {j},
         UNCHANGED <<procVars, queueVars, slotVars, strandVars, reapEntered, restVars>>
  PROVE  StoreInv' /\ StoreStep /\ CallTypes' /\ CallStep
<1> USE DEF restVars, strandVars
<1>1. StoreInv' /\ StoreStep
  BY RewritesKeep DEF IInv
<1>2. CallTypes'
  BY DEF IInv, CallInv, CallTypes
<1>3. CallStep
  BY DEF IInv, CallInv, CallTypes, CallsSound, CallStep, Kinds
<1> QED  BY <1>1, <1>2, <1>3

(* A step that leaves the records alone.                                    *)
LEMMA UntouchedRecords ==
  ASSUME IInv, UNCHANGED recordVars
  PROVE  GoodRecords(state, killConfirmed) /\ Rewrites(state, killConfirmed)
BY GoodSame DEF Rewrites, recordVars

(* kill() and the deadline begin, on a started job only.                    *)
LEMMA CallsStartKeep ==
  ASSUME IInv, NEW j \in Jobs, NEW k \in Kinds,
         KillLive(j, k) \/ (k = "deadline" /\ DeadlineFires(j))
  PROVE  StoreInv' /\ StoreStep /\ CallTypes' /\ CallStep
<1> USE DEF storeVars, reapVars, Phases
<1>1. ~Waiting(j)
  BY DEF IInv, StoreInv, WaitingUntouched, KillLive, DeadlineFires
<1>2. CASE KillLive(j, k)
  <2>1. k # "retry"
    BY <1>2, KillAssumption DEF KillLive
  <2> QED  BY <1>1, <1>2, <2>1, UntouchedRecords, CallAdvances DEF KillLive
<1>3. CASE k = "deadline" /\ DeadlineFires(j)
  <2>1. Rewrites(state, killConfirmed)
    BY <1>3 DEF DeadlineFires, Rewrites
  <2> QED  BY <1>1, <1>3, <2>1, GoodSame, CallAdvances DEF DeadlineFires
<1> QED  BY <1>2, <1>3

(* The identity gate, and a signal the caller chose: no record changes.     *)
LEMMA GateKeeps ==
  ASSUME IInv, NEW j \in Jobs, NEW k \in Kinds,
         \/ GateStops(j, k) \/ GateProceeds(j, k)
         \/ \E signal \in CustomSignals : KillSends(j, k, signal)
  PROVE  StoreInv' /\ StoreStep /\ CallTypes' /\ CallStep
<1> USE DEF storeVars, reapVars, Phases
<1>1. phase[j][k] = "identity" /\ ~Waiting(j)
  BY DEF IInv, CallInv, CallsSound, GateStops, GateProceeds, KillSends
<1>2. /\ UNCHANGED <<recordVars, procVars, queueVars, slotVars, strandVars, reapEntered, restVars>>
      /\ reapAttempted' \subseteq reapAttempted \cup {j}
      /\ \E p \in Phases : phase' = [phase EXCEPT ![j][k] = p]
  BY DEF GateStops, GateProceeds, KillSends
<1> QED  BY <1>1, <1>2, UntouchedRecords, CallAdvances

(* The outcome of a kill sequence, written only when the group allows it.   *)
LEMMA GoodOutcome ==
  ASSUME IInv, NEW j \in Jobs, NEW k \in Kinds, NEW confirmed \in BOOLEAN, ~Waiting(j),
         MayConfirm(j, confirmed), RecordOutcome(j, k, confirmed)
  PROVE  /\ reapAttempted' \subseteq reapAttempted \cup {j}
         /\ LET kc == SetKillConfirmation(j, IF confirmed THEN "yes" ELSE "no")
            IN  GoodRecords(state, kc) /\ Rewrites(state, kc)
<1>1. GoodRecords(state, SetKillConfirmation(j, IF confirmed THEN "yes" ELSE "no"))
  BY GoodConfirmation DEF MayConfirm
<1> QED  BY <1>1 DEF RecordOutcome, Records, Rewrites

(* SIGTERM and the mark that comes with it.                                 *)
LEMMA SendTermKeeps ==
  ASSUME IInv, NEW j \in Jobs, NEW k \in Kinds, SendTerm(j, k)
  PROVE  StoreInv' /\ StoreStep /\ CallTypes' /\ CallStep
<1> USE DEF reapVars, Phases
<1>1. phase[j][k] = "snapshot" /\ ~Waiting(j)
  BY DEF IInv, CallInv, CallsSound, SendTerm
<1>2. GoodRecords(KillMark(j, k), killConfirmed)
  BY <1>1, GoodSame, GoodMarked DEF KillMark, Terminal
<1>3. \E p \in Phases : phase' = [phase EXCEPT ![j][k] = p]
  BY DEF SendTerm
<1>4. CASE Records(KillMark(j, k), killConfirmed)
  BY <1>1, <1>2, <1>3, <1>4, CallAdvances DEF SendTerm, Records, Rewrites
<1>5. CASE UNCHANGED recordVars
  BY <1>1, <1>3, <1>5, UntouchedRecords, CallAdvances DEF SendTerm
<1> QED  BY <1>4, <1>5 DEF SendTerm

(* The two ends of the default kill sequence.                               *)
LEMMA ConfirmsKeep ==
  ASSUME IInv, NEW j \in Jobs, NEW k \in Kinds,
         GateFindsGroupGone(j, k) \/ KillConfirms(j, k)
  PROVE  StoreInv' /\ StoreStep /\ CallTypes' /\ CallStep
<1> USE DEF Phases
<1>1. phase[j][k] # "idle" /\ ~Waiting(j)
  BY DEF IInv, CallInv, CallsSound, GateFindsGroupGone, KillConfirms
<1>2. /\ phase' = [phase EXCEPT ![j][k] = "idle"]
      /\ UNCHANGED <<procVars, queueVars, slotVars, strandVars, reapEntered, restVars>>
  BY DEF GateFindsGroupGone, KillConfirms
<1>3. CASE \E confirmed \in BOOLEAN : MayConfirm(j, confirmed) /\ RecordOutcome(j, k, confirmed)
  <2> PICK confirmed \in BOOLEAN : MayConfirm(j, confirmed) /\ RecordOutcome(j, k, confirmed)
    BY <1>3
  <2> DEFINE kc == SetKillConfirmation(j, IF confirmed THEN "yes" ELSE "no")
  <2>1. /\ reapAttempted' \subseteq reapAttempted \cup {j}
        /\ GoodRecords(state, kc) /\ Rewrites(state, kc)
    BY <1>1, GoodOutcome
  <2> HIDE DEF kc
  <2> QED  BY <1>1, <1>2, <2>1, CallAdvances
<1>4. CASE UNCHANGED <<recordVars, reapAttempted>>
  BY <1>1, <1>2, <1>4, UntouchedRecords, CallAdvances
<1> QED  BY <1>3, <1>4 DEF GateFindsGroupGone, KillConfirms, MayConfirm

(* The end of a kill() with a signal of the caller's choice.                *)
LEMMA KillSentConfirmsKeeps ==
  ASSUME IInv, NEW j \in Jobs, NEW k \in Kinds, KillSentConfirms(j, k)
  PROVE  StoreInv' /\ StoreStep /\ CallTypes' /\ CallStep
<1> USE DEF reapVars, Phases
<1> DEFINE st == IF phase[j][k] = "sent" THEN Marked(j, "killed") ELSE state
           kc == SetKillConfirmation(j, "yes")
<1>1. phase[j][k] # "idle" /\ ~Waiting(j)
  BY DEF IInv, CallInv, CallsSound, KillSentConfirms
<1>2. CASE UNCHANGED recordVars
  BY <1>1, <1>2, UntouchedRecords, CallAdvances DEF KillSentConfirms
<1>3. CASE MayConfirm(j, TRUE) /\ Records(st, kc)
  <2>1. GoodRecords(st, kc)
    BY <1>1, <1>3, GoodConfirmation, GoodMarked DEF MayConfirm, Terminal
  <2>2. Rewrites(st, kc)
    BY <1>3 DEF Records, Rewrites
  <2> HIDE DEF st, kc
  <2> QED  BY <1>1, <2>1, <2>2, CallAdvances DEF KillSentConfirms
<1> QED  BY <1>2, <1>3 DEF KillSentConfirms

-----------------------------------------------------------------------------
(* The steps about waiting jobs, the purge, and the shutdown.               *)
LEMMA SetConcurrencyConfigKeeps ==
  ASSUME IInv, NEW c \in Caps, SetConcurrencyConfig(c)
  PROVE  StoreInv' /\ StoreStep /\ CallTypes' /\ CallStep
<1>1. slotReleased \cup {} = slotReleased /\ Held \ {} = Held
  OBVIOUS
<1>2. /\ cap' = c /\ lostSlots' = lostSlots
      /\ DrainQueue(state, killConfirmed, slotReleased \cup {}, activeSlots, cap')
  BY <1>1 DEF SetConcurrencyConfig
<1>3. /\ activeSlots = Cardinality(Held \ {}) + Cardinality(lostSlots)
      /\ activeSlots \in Nat /\ activeSlots <= activeSlots
  BY <1>1 DEF IInv, StoreInv, StoreTypes, SlotAccounting
<1>4. StoreInv' /\ StoreStep
  BY <1>2, <1>3, GoodSame, DrainKeeps DEF IInv
<1>5. CallTypes' /\ CallStep
  BY QuietCalls DEF SetConcurrencyConfig
<1> QED  BY <1>4, <1>5

(* A sequence without its element i.                                        *)
LEMMA RemoveElement ==
  ASSUME NEW q \in Seq(Jobs), NEW i \in 1 .. Len(q)
  PROVE  LET r == SubSeq(q, 1, i - 1) \o SubSeq(q, i + 1, Len(q))
         IN  /\ r \in Seq(Jobs) /\ Len(r) = Len(q) - 1
             /\ \A x \in 1 .. Len(q) - 1 : r[x] = q[IF x < i THEN x ELSE x + 1]
<1> DEFINE left  == SubSeq(q, 1, i - 1)
           right == SubSeq(q, i + 1, Len(q))
           r     == left \o right
<1>1. /\ Len(q) \in Nat /\ i \in Nat /\ i >= 1 /\ i <= Len(q)
      /\ \A x \in 1 .. Len(q) : q[x] \in Jobs
  BY ElementOfSeq, LenProperties
<1>2. /\ left \in Seq(Jobs) /\ Len(left) = i - 1
      /\ \A x \in 1 .. i - 1 : left[x] = q[x]
  <2>1. 1 \in Int /\ i - 1 \in Int /\ \A x \in 1 .. i - 1 : q[x] \in Jobs
    BY <1>1
  <2>2. /\ left \in Seq(Jobs) /\ Len(left) = IF 1 <= i - 1 THEN (i - 1) - 1 + 1 ELSE 0
        /\ \A x \in 1 .. (i - 1) - 1 + 1 : left[x] = q[1 + x - 1]
    BY <2>1, SubSeqProperties
  <2> HIDE DEF left
  <2> QED  BY <1>1, <2>2
<1>3. /\ right \in Seq(Jobs) /\ Len(right) = Len(q) - i
      /\ \A x \in 1 .. Len(q) - i : right[x] = q[i + x]
  <2>1. i + 1 \in Int /\ Len(q) \in Int /\ \A x \in i + 1 .. Len(q) : q[x] \in Jobs
    BY <1>1
  <2>2. /\ right \in Seq(Jobs)
        /\ Len(right) = IF i + 1 <= Len(q) THEN Len(q) - (i + 1) + 1 ELSE 0
        /\ \A x \in 1 .. Len(q) - (i + 1) + 1 : right[x] = q[(i + 1) + x - 1]
    BY <2>1, SubSeqProperties
  <2> HIDE DEF right
  <2>3. Len(right) = Len(q) - i
    BY <1>1, <2>2
  <2> QED  BY <1>1, <2>2, <2>3
<1> HIDE DEF left, right
<1>4. /\ r \in Seq(Jobs) /\ Len(r) = Len(left) + Len(right)
      /\ \A x \in 1 .. Len(left) + Len(right) :
           r[x] = IF x <= Len(left) THEN left[x] ELSE right[x - Len(left)]
  BY <1>2, <1>3, ConcatProperties
<1> HIDE DEF r
<1>5. Len(r) = Len(q) - 1
  BY <1>1, <1>2, <1>3, <1>4
<1>6. ASSUME NEW x \in 1 .. Len(q) - 1
      PROVE  r[x] = q[IF x < i THEN x ELSE x + 1]
  <2>1. /\ x \in 1 .. Len(left) + Len(right) /\ x \in Nat /\ x >= 1 /\ x <= Len(q) - 1
        /\ r[x] = IF x <= Len(left) THEN left[x] ELSE right[x - Len(left)]
    <3>1. Len(left) + Len(right) = Len(q) - 1
      BY <1>4, <1>5
    <3>2. x \in 1 .. Len(left) + Len(right)
      BY <3>1
    <3> QED  BY <1>1, <1>4, <3>2
  <2>2. CASE x < i
    <3>1. x \in 1 .. i - 1 /\ x <= Len(left)
      BY <1>1, <1>2, <2>1, <2>2
    <3>2. r[x] = left[x] /\ left[x] = q[x]
      BY <1>2, <2>1, <3>1
    <3> QED  BY <2>2, <3>2
  <2>3. CASE x >= i
    <3>1. r[x] = right[x - (i - 1)]
      <4>1. ~(x <= Len(left))
        BY <1>1, <1>2, <2>1, <2>3
      <4> QED  BY <1>2, <2>1, <4>1
    <3>2. x - (i - 1) \in 1 .. Len(q) - i /\ i + (x - (i - 1)) = x + 1
      BY <1>1, <2>3
    <3> QED  BY <1>1, <1>3, <2>3, <3>1, <3>2
  <2> QED  BY <1>1, <2>2, <2>3
<1> QED  BY <1>4, <1>5, <1>6 DEF r, left, right

(* Removing one element of a queue without repetitions.                     *)
LEMMA QueueRemove ==
  ASSUME queue \in Seq(Jobs), QueueDistinct, NEW i \in 1 .. Len(queue),
         queue' \in Seq(Jobs), Len(queue') = Len(queue) - 1,
         \A x \in 1 .. Len(queue) - 1 : queue'[x] = queue[IF x < i THEN x ELSE x + 1]
  PROVE  /\ QueueDistinct'
         /\ \A j \in Jobs : InQueue(j)' => InQueue(j) /\ j # queue[i]
<1>1. Len(queue) \in Nat
  BY LenProperties
<1>2. QueueDistinct'
  BY <1>1 DEF QueueDistinct
<1>3. \A j \in Jobs : InQueue(j)' => InQueue(j) /\ j # queue[i]
  BY <1>1 DEF InQueue, QueueDistinct
<1> QED  BY <1>2, <1>3

(* Renumbered positions are numbers.                                        *)
LEMMA PositionsType ==
  ASSUME IInv, NEW gone, queue' \in Seq(Jobs), queuePosition' = Renumbered(gone, queue')
  PROVE  queuePosition' \in [Jobs -> Nat]
<1>1. DOMAIN queue' = 1 .. Len(queue') /\ 1 .. Len(queue') \subseteq Nat
  BY LenProperties
<1>2. \A j : (\E i \in DOMAIN queue' : queue'[i] = j) =>
        (CHOOSE i \in DOMAIN queue' : queue'[i] = j) \in DOMAIN queue'
  OBVIOUS
<1>3. \A j \in Jobs : Renumbered(gone, queue')[j] \in Nat
  BY <1>1, <1>2 DEF Renumbered, IInv, StoreInv, StoreTypes
<1> QED  BY <1>3 DEF Renumbered

(* kill() of a queued job: it leaves the queue and never held a slot.       *)
LEMMA KillQueuedKeeps ==
  ASSUME IInv, NEW j \in Jobs, KillQueued(j)
  PROVE  StoreInv' /\ StoreStep /\ CallTypes' /\ CallStep
<1> USE DEF procVars, slotVars, restVars
<1> PICK i \in DOMAIN queue :
      /\ queue[i] = j
      /\ queue' = SubSeq(queue, 1, i - 1) \o SubSeq(queue, i + 1, Len(queue))
  BY DEF KillQueued
<1>1. queue \in Seq(Jobs) /\ QueueDistinct /\ i \in 1 .. Len(queue)
  BY LenProperties DEF IInv, StoreInv, StoreTypes
<1>2. /\ queue' \in Seq(Jobs) /\ QueueDistinct'
      /\ \A x \in Jobs : InQueue(x)' => InQueue(x) /\ x # j
  BY <1>1, RemoveElement, QueueRemove
<1>3. InQueue(j) /\ Waiting(j) /\ state[j] = "starting" /\ ~GroupAlive(j)
  BY <1>1 DEF InQueue, Waiting, IInv, StoreInv, WaitingUntouched, GroupsSound, GroupAlive
<1>4. /\ state' = [state EXCEPT ![j] = "killed"]
      /\ killConfirmed' = [killConfirmed EXCEPT ![j] = "yes"]
      /\ deadlineTimer' \subseteq deadlineTimer
      /\ cap' = cap /\ UNCHANGED <<procVars, slotVars>>
  BY <1>3 DEF KillQueued, Records, Marked, SetKillConfirmation, HasRecord, Live
<1>5. queuePosition' \in [Jobs -> Nat]
  BY <1>2, PositionsType DEF KillQueued
<1>6. StoreTypes'
  BY <1>2, <1>4, <1>5 DEF IInv, StoreInv, StoreTypes, States, Terminal, Confirmations
<1>7. \A x \in Jobs : Waiting(x)' => Waiting(x) /\ x # j
  BY <1>2, <1>4 DEF Waiting, IInv, StoreInv, StoreTypes
<1>8. WaitingUntouched'
  BY <1>2, <1>4, <1>7 DEF WaitingUntouched, IInv, StoreInv, StoreTypes
<1>9. SlotsSound' /\ GroupsSound'
  BY <1>3, <1>4 DEF SlotsSound, GroupsSound, GroupAlive, Held, IInv, StoreInv, StoreTypes,
     WaitingUntouched
<1>10. SlotAccounting' /\ WorkConserving'
  <2>1. queue # <<>>
    BY <1>1, EmptySeq
  <2> QED  BY <1>4, <2>1 DEF SlotAccounting, WorkConserving, Held, IInv, StoreInv
<1>11. StoreStep
  BY <1>3, <1>4, <1>7 DEF StoreStep, IInv, StoreInv, StoreTypes, Terminal
<1>12. CallTypes' /\ CallStep
  BY QuietCalls DEF KillQueued
<1> QED  BY <1>2, <1>6, <1>8, <1>9, <1>10, <1>11, <1>12 DEF StoreInv

(* deleteJob: a slot still held moves from Held to lostSlots.               *)
LEMMA PurgeKeeps ==
  ASSUME IInv, NEW j \in Jobs, Purge(j)
  PROVE  StoreInv' /\ StoreStep /\ CallTypes' /\ CallStep
<1> USE DEF queueVars, restVars
<1>1. state[j] \in Terminal /\ ~Waiting(j) /\ j \notin lostSlots
  BY DEF Purge, Expired, Terminal, IInv, StoreInv, WaitingUntouched, Waiting, SlotsSound
<1>2. /\ state' = [state EXCEPT ![j] = "purged"]
      /\ killConfirmed' = [killConfirmed EXCEPT ![j] = "unset"]
      /\ deadlineTimer' \subseteq deadlineTimer /\ children' = children \ {j}
      /\ slotReleased' = slotReleased \ {j} /\ slotReserved' = slotReserved \ {j}
      /\ lostSlots' = lostSlots \cup ({j} \cap Held)
      /\ UNCHANGED <<leader, orphan, queue, queuePosition, activeSlots, cap>>
  BY DEF Purge, Unreserved, Records
<1>3. StoreTypes'
  BY <1>2 DEF IInv, StoreInv, StoreTypes, States, Confirmations
<1>4. \A i \in Jobs : /\ InQueue(i)' <=> InQueue(i)
                      /\ Waiting(i)' <=> Waiting(i)
  BY <1>1, <1>2 DEF InQueue, Waiting, IInv, StoreInv, StoreTypes, Terminal
<1>5. WaitingUntouched'
  BY <1>1, <1>2, <1>4 DEF WaitingUntouched, IInv, StoreInv, StoreTypes
<1>6. SlotsSound' /\ GroupsSound'
  BY <1>1, <1>2 DEF SlotsSound, GroupsSound, GroupAlive, Held, IInv, StoreInv, StoreTypes
<1>7. SlotAccounting'
  <2>1. Held \subseteq Jobs /\ lostSlots \subseteq Jobs /\ Held' = Held \ {j}
    BY <1>2 DEF Held, IInv, StoreInv, StoreTypes
  <2>2. IsFiniteSet(Held) /\ IsFiniteSet(lostSlots)
    BY <2>1, JobSetsFinite
  <2>3. Cardinality(Held) \in Nat /\ Cardinality(lostSlots) \in Nat
    BY <2>1, JobSetsFinite
  <2>4. CASE j \in Held
    <3>1. Cardinality(Held \ {j}) = IF j \in Held THEN Cardinality(Held) - 1
                                    ELSE Cardinality(Held)
      BY <2>2, FS_RemoveElement
    <3>2. Cardinality(lostSlots \cup {j}) = IF j \in lostSlots THEN Cardinality(lostSlots)
                                            ELSE Cardinality(lostSlots) + 1
      BY <2>2, FS_AddElement
    <3>3. lostSlots' = lostSlots \cup {j}
      BY <1>2, <2>4
    <3>4. activeSlots = Cardinality(Held) + Cardinality(lostSlots)
      BY DEF SlotAccounting, IInv, StoreInv
    <3>5. /\ Cardinality(Held') = Cardinality(Held) - 1
          /\ Cardinality(lostSlots') = Cardinality(lostSlots) + 1
      BY <1>1, <2>1, <2>4, <3>1, <3>2, <3>3
    <3>6. activeSlots' = Cardinality(Held') + Cardinality(lostSlots')
      BY <1>2, <2>3, <3>4, <3>5
    <3> QED  BY <3>6 DEF SlotAccounting
  <2>5. CASE j \notin Held
    <3>1. Held' = Held /\ lostSlots' = lostSlots
      BY <1>2, <2>1, <2>5
    <3> QED  BY <1>2, <3>1 DEF SlotAccounting, IInv, StoreInv
  <2> QED  BY <2>4, <2>5
<1>8. QueueDistinct' /\ WorkConserving'
  BY <1>2 DEF QueueDistinct, WorkConserving, IInv, StoreInv
<1>9. StoreStep
  BY <1>1, <1>2, <1>4 DEF StoreStep, IInv, StoreInv, StoreTypes
<1>10. CallTypes' /\ CallStep
  BY <1>1 DEF Purge, IInv, CallInv, CallTypes, CallsSound, CallStep
<1> QED  BY <1>3, <1>5, <1>6, <1>7, <1>8, <1>9, <1>10 DEF StoreInv

(* The shutdown empties the queue and starts the reaps.                     *)
LEMMA BeginShutdownKeeps ==
  ASSUME IInv, BeginShutdown
  PROVE  StoreInv' /\ StoreStep /\ CallTypes' /\ CallStep
<1> USE DEF procVars, slotVars
<1> DEFINE queued == Front(queue, Len(queue))
           ended  == {j \in children : state[j] \in Terminal}
<1>1. /\ state' = [j \in Jobs |-> IF j \in queued THEN "killed" ELSE state[j]]
      /\ killConfirmed' = [j \in Jobs |-> IF j \in queued THEN "yes" ELSE killConfirmed[j]]
      /\ deadlineTimer' \subseteq deadlineTimer /\ cap' = cap
      /\ queue' = <<>> /\ queuePosition' = Renumbered(queued, queue')
      /\ UNCHANGED <<procVars, slotVars>>
  BY DEF BeginShutdown, Records
<1>2. /\ EnterReaps(ended) /\ shuttingDown' = TRUE
      /\ phase' = [j \in Jobs |->
           IF j \in children /\ (j \in ended => Pending(ReapPhase(j)))
           THEN [phase[j] EXCEPT !["shutdown"] = IF j \in ended THEN ReapPhase(j) ELSE "identity"]
           ELSE phase[j]]
      /\ UNCHANGED <<strandVars, exitSeen, awaitingRelease>>
  BY DEF BeginShutdown
<1>3. \A j \in Jobs : j \in queued <=> InQueue(j)
  BY DEF Front, InQueue
<1>4. \A j \in children : ~Waiting(j)
  BY DEF IInv, StoreInv, StoreTypes, WaitingUntouched
<1>5. ended \subseteq children
  OBVIOUS
<1> HIDE DEF queued, ended
<1>6. queue' \in Seq(Jobs) /\ Len(queue') = 0
  BY <1>1, EmptySeq
<1>7. StoreTypes'
  BY <1>1, <1>6, PositionsType
     DEF IInv, StoreInv, StoreTypes, States, Terminal, Confirmations
<1>8. \A j \in Jobs : /\ ~InQueue(j)'
                      /\ Waiting(j)' => Waiting(j) /\ ~InQueue(j)
  BY <1>1, <1>3, <1>6 DEF InQueue, Waiting
<1>9. WaitingUntouched'
  BY <1>1, <1>3, <1>8 DEF WaitingUntouched, IInv, StoreInv, StoreTypes
<1>10. \A j \in Jobs : InQueue(j) => /\ state[j] = "starting" /\ ~GroupAlive(j)
                                     /\ j \notin slotReserved /\ j \notin lostSlots
  BY DEF Waiting, IInv, StoreInv, WaitingUntouched, GroupsSound, GroupAlive
<1>11. SlotsSound' /\ GroupsSound'
  BY <1>1, <1>3, <1>10 DEF SlotsSound, GroupsSound, GroupAlive, Held, IInv, StoreInv, StoreTypes
<1>12. QueueDistinct' /\ SlotAccounting' /\ WorkConserving'
  BY <1>1, <1>6 DEF QueueDistinct, SlotAccounting, WorkConserving, Held, IInv, StoreInv
<1>13. StoreStep
  <2>1. ~(activeSlots' > activeSlots)
    BY <1>1 DEF IInv, StoreInv, StoreTypes
  <2> QED  BY <1>1, <1>3, <1>8, <1>10, <2>1 DEF StoreStep, Terminal
<1>14. CallTypes'
  <2>1. phase' \in [Jobs -> [Kinds -> Phases]]
    BY <1>2, ReapPhaseType DEF IInv, CallInv, CallTypes, Phases, Pending
  <2>2. reapEntered' \subseteq Jobs
    BY <1>2, <1>5 DEF EnterReaps, IInv, CallInv, CallTypes, StoreInv, StoreTypes
  <2> QED  BY <1>2, <2>1, <2>2 DEF EnterReaps, IInv, CallInv, CallTypes, strandVars
<1>15. CallStep
  BY <1>2, <1>4 DEF IInv, CallInv, CallTypes, CallsSound, CallStep, strandVars, Kinds
<1> QED  BY <1>7, <1>9, <1>11, <1>12, <1>13, <1>14, <1>15 DEF StoreInv

-----------------------------------------------------------------------------
(* The inductive invariant holds at the start, and every step keeps it.     *)
LEMMA InvInit ==
  ASSUME Init
  PROVE  IInv
<1> USE DEF Init
<1>1. StoreTypes
  BY EmptySeq DEF StoreTypes, States, Confirmations, Leaders
<1>2. Len(queue) = 0
  BY EmptySeq
<1>3. QueueDistinct /\ WaitingUntouched /\ SlotsSound /\ GroupsSound
  BY <1>2 DEF QueueDistinct, WaitingUntouched, SlotsSound, GroupsSound, Waiting, InQueue,
     GroupAlive
<1>4. SlotAccounting
  <2>1. Held = {} /\ lostSlots = {}
    BY DEF Held
  <2> QED  BY <2>1, FS_EmptySet DEF SlotAccounting
<1>5. WorkConserving
  BY DEF WorkConserving
<1>6. CallTypes
  <2>1. attempts \in [Jobs -> 0 .. MaxStrandedSlotAttempts]
    BY BoundsAssumption
  <2>2. phase \in [Jobs -> [Kinds -> Phases]]
    BY DEF Phases
  <2> QED  BY <2>1, <2>2 DEF CallTypes
<1>7. CallsSound
  BY DEF CallsSound, Kinds
<1> QED  BY <1>1, <1>3, <1>4, <1>5, <1>6, <1>7 DEF IInv, StoreInv, CallInv

(* IInv is inductive, and every step of the store is a StoreStep.           *)
LEMMA InvNext ==
  ASSUME IInv, Next
  PROVE  IInv' /\ StoreStep
<1>1. StoreInv' /\ StoreStep /\ CallTypes' /\ CallStep
  <2>1. ASSUME NEW j \in Jobs, Job(j)
        PROVE  StoreInv' /\ StoreStep /\ CallTypes' /\ CallStep
    <3>1. CASE RunPreflightFails(j) \/ RunAdmitted(j) \/ RunQueued(j)
      <4>1. CallTypes' /\ CallStep
        BY <3>1, QuietCalls DEF RunPreflightFails, RunAdmitted, RunQueued, restVars
      <4> QED  BY <3>1, <4>1, RunPreflightFailsKeeps, RunAdmittedKeeps, RunQueuedKeeps
    <3>2. CASE OnSpawn(j) \/ OnError(j) \/ OnExit(j) \/ GateFires(j)
      BY <3>2, EventsKeep, OnErrorKeeps, OnExitKeeps
    <3>3. CASE LeaderDies(j) \/ OrphanStarts(j) \/ OrphanDies(j)
      BY <3>3, ProcessActionsKeep
    <3>4. CASE RetryTimerFires(j) \/ StaleRetryFires(j) \/ KillQueued(j) \/ Purge(j)
      BY <3>4, RetryTimerFiresKeeps, StaleRetryFiresKeeps, KillQueuedKeeps, PurgeKeeps
    <3>5. CASE DeadlineFires(j)
      BY <3>5, CallsStartKeep DEF Kinds
    <3> QED  BY <2>1, <3>1, <3>2, <3>3, <3>4, <3>5 DEF Job
  <2>2. ASSUME NEW j \in Jobs, NEW k \in Kinds, Call(j, k)
        PROVE  StoreInv' /\ StoreStep /\ CallTypes' /\ CallStep
    BY <2>2, ReapSettlesKeeps, KillTerminalKeeps, CallsStartKeep, GateKeeps, SendTermKeeps,
       ConfirmsKeep, KillSentConfirmsKeeps DEF Call
  <2> QED  BY <2>1, <2>2, SetConcurrencyConfigKeeps, BeginShutdownKeeps DEF Next
<1> QED  BY <1>1, CallsKeep DEF IInv, CallInv

(* IInv survives stuttering.                                                *)
LEMMA InvStutter ==
  ASSUME IInv, UNCHANGED vars
  PROVE  IInv'
BY DEF vars, storeVars, recordVars, procVars, queueVars, slotVars, strandVars, reapVars,
       restVars, IInv, StoreInv, StoreTypes, QueueDistinct, WaitingUntouched, Waiting, InQueue,
       SlotsSound, GroupsSound, GroupAlive, Held, SlotAccounting, WorkConserving, CallInv,
       CallTypes, CallsSound

(* The inductive invariant holds throughout every behaviour.                *)
THEOREM Invariance == Spec => []IInv
<1>1. Init => IInv
  BY InvInit
<1>2. IInv /\ [Next]_vars => IInv'
  BY InvNext, InvStutter
<1> QED  BY <1>1, <1>2, PTL DEF Spec

(* Type correctness; with it the bound on the automatic reap cycles a       *)
(* stranded slot gets.                                                      *)
THEOREM TypeCorrect == Spec => []TypeOK
<1>1. IInv => TypeOK
  BY DEF IInv, StoreInv, CallInv, StoreTypes, CallTypes, TypeOK, States, Confirmations, Leaders
<1> QED  BY <1>1, Invariance, PTL

(* The slot counter is exact, for any number of jobs and callers.           *)
THEOREM SlotsAreExact == Spec => []SlotAccounting
<1>1. IInv => SlotAccounting
  BY DEF IInv, StoreInv
<1> QED  BY <1>1, Invariance, PTL

(* No live process group is without its slot.                               *)
THEOREM LiveGroupsAreCounted == Spec => []LiveGroupsHoldSlots
<1>1. IInv => LiveGroupsHoldSlots
  BY DEF IInv, StoreInv, GroupsSound, LiveGroupsHoldSlots
<1> QED  BY <1>1, Invariance, PTL

(* kill_confirmed: true is never said of a live group.                      *)
THEOREM ConfirmedAreGone == Spec => []ConfirmedMeansGone
<1>1. IInv => ConfirmedMeansGone
  BY DEF IInv, StoreInv, GroupsSound, ConfirmedMeansGone
<1> QED  BY <1>1, Invariance, PTL

(* No job waits while the cap has room.                                     *)
THEOREM NoSlotIdlesWhileJobsWait == Spec => []WorkConserving
<1>1. IInv => WorkConserving
  BY DEF IInv, StoreInv
<1> QED  BY <1>1, Invariance, PTL

(* No step takes the count above the cap in force.                          *)
THEOREM GrantsStayWithinCap == Spec => GrantsWithinCap
<1>1. IInv /\ [Next]_vars => [activeSlots' > activeSlots => activeSlots' <= cap']_vars
  BY InvNext DEF StoreStep
<1> QED  BY <1>1, Invariance, PTL DEF Spec, GrantsWithinCap

(* A terminal record keeps the state it reached until it is deleted.        *)
THEOREM TerminalStatesAreFinal == Spec => TerminalIsFinal
<1>1. IInv /\ [Next]_vars =>
        [\A j \in Jobs : state[j] \in Terminal => state'[j] \in {state[j], "purged"}]_vars
  BY InvNext DEF StoreStep
<1> QED  BY <1>1, Invariance, PTL DEF Spec, TerminalIsFinal

-----------------------------------------------------------------------------
(* The queue, the shutdown, the signals and the semaphore.  Every step is   *)
(* first put into a class (EveryStep): it rewrites records only, it frees   *)
(* one slot and drains the queue, it changes the cap and drains the queue,  *)
(* or it is one of the few actions with a store step of their own.  Each    *)
(* result then has one case per class.                                      *)

(* queue_position is the place in the queue, and a job that has no process  *)
(* although it is starting waits there.                                     *)
PositionsSound ==
  \A j \in Jobs :
    /\ queuePosition[j] # 0 <=> InQueue(j)
    /\ InQueue(j) => /\ queuePosition[j] \in 1 .. Len(queue)
                     /\ queue[queuePosition[j]] = j
    /\ state[j] = "starting" /\ leader[j] = "none" => InQueue(j)

(* No reap about the job that begins now may signal.                        *)
Spent(j) == ReapPhase(j) # "reaper"

SignalsSound ==
  \A j \in Jobs :
    /\ j \in exitSeen => Spent(j)
    /\ \A k \in Kinds : phase[j][k] = "reaper" => Spent(j)
    /\ \A k, l \in Kinds : phase[j][k] = "reaper" /\ phase[j][l] = "reaper" => k = l

NobodyWaitsInShutdown == shuttingDown => queue = <<>>

QInv == IInv /\ PositionsSound /\ NobodyWaitsInShutdown /\ SignalsSound

-----------------------------------------------------------------------------
(* The classes of steps.                                                    *)

(* Records a handler leaves: good ones, and what was said of a reap stays   *)
(* said.                                                                    *)
Written(st, kc) ==
  /\ GoodRecords(st, kc)
  /\ \A i \in Jobs : killConfirmed[i] # "unset" => kc[i] # "unset"

Quiet ==
  /\ \E st \in [Jobs -> States], kc \in [Jobs -> Confirmations] :
       Written(st, kc) /\ Rewrites(st, kc)
  /\ UNCHANGED <<procVars, queueVars, slotVars, cap>>

Drains(freed) ==
  /\ freed \subseteq Held /\ \A j \in freed : ~GroupAlive(j)
  /\ lostSlots' = lostSlots
  /\ \E st \in [Jobs -> States], kc \in [Jobs -> Confirmations] :
       /\ Written(st, kc)
       /\ DrainQueue(st, kc, slotReleased \cup freed,
                     Cardinality(Held \ freed) + Cardinality(lostSlots), cap')

Frees(j) == Drains({j}) /\ cap' = cap

Recaps(c) == Drains({}) /\ cap' = c

StoreClass ==
  \/ Quiet
  \/ \E j \in Jobs : Frees(j)
  \/ \E c \in Caps : Recaps(c)
  \/ \E j \in Jobs : \/ RunPreflightFails(j) \/ RunAdmitted(j) \/ RunQueued(j)
                     \/ LeaderDies(j) \/ OrphanStarts(j) \/ OrphanDies(j)
                     \/ KillQueued(j) \/ Purge(j)
  \/ BeginShutdown

(* The paths that give no slot back are quiet.                              *)
LEMMA KeepSlotsIsQuiet ==
  ASSUME NEW st, NEW kc, Written(st, kc), cap' = cap, KeepSlots(st, kc)
  PROVE  Quiet
<1>1. st \in [Jobs -> States] /\ kc \in [Jobs -> Confirmations] /\ Rewrites(st, kc)
  BY DEF Written, GoodRecords, KeepSlots, Records, Rewrites
<1> QED  BY <1>1 DEF Quiet, KeepSlots

(* The count without one slot held.                                         *)
LEMMA OneSlotLess ==
  ASSUME IInv, NEW j \in Held
  PROVE  (IF activeSlots > 0 THEN activeSlots - 1 ELSE 0)
           = Cardinality(Held \ {j}) + Cardinality(lostSlots)
<1>1. Held \subseteq Jobs /\ lostSlots \subseteq Jobs /\ activeSlots \in Nat
  BY DEF IInv, StoreInv, StoreTypes, Held
<1>2. IsFiniteSet(Held)
  BY <1>1, JobSetsFinite
<1>3. Cardinality(Held \ {j}) = Cardinality(Held) - 1
  BY <1>2, FS_RemoveElement
<1>4. /\ Cardinality(Held \ {j}) \in Nat /\ Cardinality(Held) \in Nat
      /\ Cardinality(lostSlots) \in Nat
  BY <1>1, JobSetsFinite
<1>5. activeSlots = Cardinality(Held) + Cardinality(lostSlots)
  BY DEF IInv, StoreInv, SlotAccounting
<1> QED  BY <1>1, <1>3, <1>4, <1>5

(* A release that goes through frees.                                       *)
LEMMA FreeSlotFrees ==
  ASSUME IInv, NEW j \in Jobs, NEW st, NEW kc, Written(st, kc), cap' = cap,
         FreeSlot(j, st, kc), j \in Held, ~GroupAlive(j)
  PROVE  Frees(j)
<1>1. st \in [Jobs -> States] /\ kc \in [Jobs -> Confirmations]
  BY DEF Written, GoodRecords
<1>2. DrainQueue(st, kc, slotReleased \cup {j},
                 Cardinality(Held \ {j}) + Cardinality(lostSlots), cap')
  BY OneSlotLess DEF FreeSlot
<1>3. lostSlots' = lostSlots
  BY DEF FreeSlot
<1> QED  BY <1>1, <1>2, <1>3 DEF Frees, Drains

(* releaseSlot after its await.                                             *)
LEMMA CommitReleaseClass ==
  ASSUME IInv, NEW j \in Jobs, NEW decision, NEW st, NEW kc, Written(st, kc),
         cap' = cap, CommitRelease(j, decision, st, kc),
         decision = "yes" => j \in slotReserved /\ ~GroupAlive(j)
  PROVE  Quiet \/ Frees(j)
<1>1. CASE j \in slotReleased
  BY <1>1, KeepSlotsIsQuiet DEF CommitRelease
<1>2. CASE j \notin slotReleased /\ decision = "yes"
  BY <1>2, FreeSlotFrees DEF CommitRelease, Held
<1>3. CASE j \notin slotReleased /\ decision # "yes"
  <2>1. MarkSlotStranded(j, st, kc)
    BY <1>3 DEF CommitRelease
  <2>2. st \in [Jobs -> States] /\ kc \in [Jobs -> Confirmations] /\ Rewrites(st, kc)
    BY <2>1 DEF Written, GoodRecords, MarkSlotStranded, Records, Rewrites
  <2> QED  BY <2>1, <2>2 DEF Quiet, MarkSlotStranded
<1> QED  BY <1>1, <1>2, <1>3

-----------------------------------------------------------------------------
(* The records the handlers write, once more.                               *)
LEMMA WrittenConfirmation ==
  ASSUME IInv, NEW j \in Jobs, ~Waiting(j), NEW v \in {"yes", "no"},
         v = "yes" => ~GroupAlive(j)
  PROVE  Written(state, SetKillConfirmation(j, v))
<1>1. GoodRecords(state, SetKillConfirmation(j, v))
  BY GoodConfirmation
<1> QED  BY <1>1 DEF Written, SetKillConfirmation, IInv, StoreInv, StoreTypes

(* What a reap writes before its await.                                     *)
LEMMA WrittenAtOnce ==
  ASSUME IInv, NEW j \in Jobs, ~Waiting(j)
  PROVE  Written(state, ConfirmedAtOnce({j}))
BY GoodAtOnce DEF Written, ConfirmedAtOnce

(* Nothing.                                                                 *)
LEMMA WrittenSame ==
  ASSUME IInv
  PROVE  Written(state, killConfirmed)
BY GoodSame DEF Written

(* A terminal transition.                                                   *)
LEMMA WrittenMarked ==
  ASSUME IInv, NEW j \in Jobs, ~Waiting(j), NEW s \in Terminal, NEW kc,
         Written(state, kc)
  PROVE  Written(Marked(j, s), kc)
BY GoodMarked DEF Written

(* A step that rewrites records only.                                       *)
LEMMA WritesAreQuiet ==
  ASSUME IInv, NEW st, NEW kc, Written(st, kc), Rewrites(st, kc),
         UNCHANGED <<procVars, queueVars, slotVars, cap>>
  PROVE  Quiet
BY DEF Quiet, Written, GoodRecords

-----------------------------------------------------------------------------
(* The class of every step.                                                 *)
LEMMA ReapSettlesClass ==
  ASSUME IInv, NEW j \in Jobs, NEW k \in Kinds, ReapSettles(j, k)
  PROVE  Quiet \/ Frees(j)
<1> PICK confirmed \in BOOLEAN :
      LET landed == confirmed /\ HasRecord(j)
      IN  /\ MayConfirm(j, confirmed)
          /\ reapAttempted' = IF landed THEN reapAttempted \cup {j} ELSE reapAttempted
          /\ ReapDecided(j, k, IF landed THEN "yes" ELSE "no", state,
                         SetKillConfirmation(j, IF confirmed THEN "yes" ELSE "no"))
  BY DEF ReapSettles
<1> DEFINE decision == IF confirmed /\ HasRecord(j) THEN "yes" ELSE "no"
           kc == SetKillConfirmation(j, IF confirmed THEN "yes" ELSE "no")
<1>1. ~Waiting(j)
  BY DEF IInv, CallInv, CallsSound, ReapSettles, Pending
<1>2. Written(state, kc)
  BY <1>1, WrittenConfirmation DEF MayConfirm
<1>3. decision = "yes" => ~GroupAlive(j) /\ HasRecord(j)
  BY DEF MayConfirm
<1>4. cap' = cap /\ ReapDecided(j, k, decision, state, kc)
  BY DEF ReapSettles
<1> HIDE DEF decision, kc
<1>5. CASE KeepSlots(state, kc)
  BY <1>2, <1>4, <1>5, KeepSlotsIsQuiet
<1>6. CASE k = "exit" /\ j \in awaitingRelease /\ CommitRelease(j, decision, state, kc)
  <2>1. decision = "yes" => j \in slotReserved
    BY <1>3, <1>6 DEF IInv, CallInv, CallsSound, HasRecord, Live, Terminal
  <2> QED  BY <1>2, <1>3, <1>4, <1>6, <2>1, CommitReleaseClass
<1>7. CASE k = "retry" /\ decision = "no" /\ ReapDecided(j, k, decision, state, kc)
  <2>1. Records(state, kc) /\ UNCHANGED <<procVars, queueVars, slotVars>>
    BY <1>7 DEF ReapDecided
  <2> QED  BY <1>2, <1>4, <2>1, WritesAreQuiet DEF Records, Rewrites
<1>8. CASE decision = "yes" /\ MayRelease(j) /\ FreeSlot(j, state, kc)
  BY <1>2, <1>3, <1>4, <1>8, FreeSlotFrees DEF MayRelease, Held
<1> QED  BY <1>4, <1>5, <1>6, <1>7, <1>8 DEF ReapDecided

(* The reaps that enter.                                                    *)
LEMMA ReapEntersClass ==
  ASSUME IInv, NEW j \in Jobs,
         OnExit(j) \/ RetryTimerFires(j) \/ \E k \in Kinds : KillTerminal(j, k)
  PROVE  Quiet \/ Frees(j)
<1> DEFINE p == ReapPhase(j)
           kc == ConfirmedAtOnce({j})
<1>1. ~Waiting(j) /\ cap' = cap
  <2>1. CASE OnExit(j)
    BY <2>1 DEF OnExit, IInv, StoreInv, WaitingUntouched
  <2>2. CASE RetryTimerFires(j)
    BY <2>2 DEF RetryTimerFires, IInv, CallInv, CallsSound, restVars
  <2>3. CASE \E k \in Kinds : KillTerminal(j, k)
    BY <2>3 DEF KillTerminal, IInv, StoreInv, WaitingUntouched, Waiting, Terminal, restVars
  <2> QED  BY <2>1, <2>2, <2>3
<1>2. Written(state, kc)
  BY <1>1, WrittenAtOnce
<1>3. p = "yes" /\ MayRelease(j) => j \in Held /\ j \in slotReserved /\ ~GroupAlive(j)
  BY AtOnceIsEmpty DEF Held
<1>4. CASE OnExit(j)
  <2> PICK st \in {state, Marked(j, "exited"), Marked(j, "killed")} :
        IF Pending(p) \/ ~MayRelease(j)
        THEN KeepSlots(st, kc) ELSE CommitRelease(j, p, st, kc)
    BY <1>4 DEF OnExit
  <2>1. Written(st, kc)
    BY <1>1, <1>2, WrittenMarked DEF Terminal
  <2> HIDE DEF p, kc
  <2> QED  BY <1>1, <1>3, <2>1, KeepSlotsIsQuiet, CommitReleaseClass
<1>5. CASE RetryTimerFires(j)
  <2>1. \/ p = "yes" /\ MayRelease(j) /\ FreeSlot(j, state, kc)
        \/ Records(state, kc) /\ UNCHANGED <<procVars, queueVars, slotVars>>
    BY <1>5 DEF RetryTimerFires
  <2> HIDE DEF p, kc
  <2> QED  BY <1>1, <1>2, <1>3, <2>1, FreeSlotFrees, WritesAreQuiet DEF Records, Rewrites
<1>6. CASE \E k \in Kinds : KillTerminal(j, k)
  <2>1. IF p = "yes" /\ MayRelease(j) THEN FreeSlot(j, state, kc) ELSE KeepSlots(state, kc)
    BY <1>6 DEF KillTerminal
  <2> HIDE DEF p, kc
  <2> QED  BY <1>1, <1>2, <1>3, <2>1, FreeSlotFrees, KeepSlotsIsQuiet
<1> QED  BY <1>4, <1>5, <1>6

(* The events of the child, and a retry that comes too late.                *)
LEMMA EventsClass ==
  ASSUME IInv, NEW j \in Jobs,
         OnSpawn(j) \/ OnError(j) \/ GateFires(j) \/ StaleRetryFires(j) \/ DeadlineFires(j)
  PROVE  Quiet \/ Frees(j)
<1>1. CASE OnSpawn(j)
  <2>1. GoodRecords([state EXCEPT ![j] = "running"], killConfirmed)
    BY <1>1, GoodSame
       DEF OnSpawn, GoodRecords, IInv, StoreInv, StoreTypes, WaitingUntouched, States, Live
  <2> QED  BY <1>1, <2>1, WritesAreQuiet DEF OnSpawn, Written, Records, Rewrites, restVars
<1>2. CASE OnError(j)
  <2> DEFINE st == Marked(j, "failed")
             kc == SetKillConfirmation(j, "yes")
  <2>1. ~Waiting(j) /\ ~GroupAlive(j)
    BY <1>2 DEF OnError, IInv, StoreInv, WaitingUntouched, GroupsSound, GroupAlive
  <2>2. Written(st, kc)
    BY <2>1, WrittenConfirmation, WrittenMarked DEF Terminal
  <2>3. cap' = cap /\ IF MayRelease(j) THEN FreeSlot(j, st, kc) ELSE KeepSlots(st, kc)
    BY <1>2 DEF OnError, restVars
  <2> HIDE DEF st, kc
  <2> QED  BY <2>1, <2>2, <2>3, FreeSlotFrees, KeepSlotsIsQuiet DEF MayRelease, Held
<1>3. CASE GateFires(j)
  <2>1. ~Waiting(j)
    BY <1>3 DEF GateFires, IInv, CallInv, CallsSound
  <2>2. PICK s \in {"exited", "killed"} : Records(Marked(j, s), killConfirmed)
    BY <1>3 DEF GateFires
  <2>3. Written(Marked(j, s), killConfirmed)
    BY <2>1, WrittenSame, WrittenMarked DEF Terminal
  <2> QED  BY <1>3, <2>2, <2>3, WritesAreQuiet DEF GateFires, Records, Rewrites, restVars
<1>4. CASE StaleRetryFires(j)
  BY <1>4, WrittenSame, WritesAreQuiet
     DEF StaleRetryFires, Rewrites, recordVars, restVars
<1>5. CASE DeadlineFires(j)
  BY <1>5, WrittenSame, WritesAreQuiet DEF DeadlineFires, Rewrites, restVars
<1> QED  BY <1>1, <1>2, <1>3, <1>4, <1>5

(* Signalling.                                                              *)
LEMMA SignallingClass ==
  ASSUME IInv, NEW j \in Jobs, NEW k \in Kinds,
         \/ KillLive(j, k) \/ GateStops(j, k) \/ GateProceeds(j, k)
         \/ GateFindsGroupGone(j, k) \/ SendTerm(j, k) \/ KillConfirms(j, k)
         \/ KillSentConfirms(j, k) \/ \E signal \in CustomSignals : KillSends(j, k, signal)
  PROVE  Quiet
<1> USE DEF restVars, Rewrites, recordVars, Records
<1>1. CASE \/ KillLive(j, k) \/ GateStops(j, k) \/ GateProceeds(j, k)
           \/ \E signal \in CustomSignals : KillSends(j, k, signal)
  <2>1. UNCHANGED <<storeVars, cap>>
    BY <1>1 DEF KillLive, GateStops, GateProceeds, KillSends
  <2> QED  BY <2>1, WrittenSame, WritesAreQuiet DEF storeVars
<1>2. CASE GateFindsGroupGone(j, k) \/ KillConfirms(j, k)
  <2>1. ~Waiting(j)
    BY <1>2 DEF IInv, CallInv, CallsSound, GateFindsGroupGone, KillConfirms
  <2>2. UNCHANGED <<procVars, queueVars, slotVars, cap>>
    BY <1>2 DEF GateFindsGroupGone, KillConfirms
  <2>3. \/ \E confirmed \in BOOLEAN :
             MayConfirm(j, confirmed) /\ RecordOutcome(j, k, confirmed)
        \/ UNCHANGED recordVars
    BY <1>2 DEF GateFindsGroupGone, KillConfirms, MayConfirm
  <2>4. ASSUME NEW confirmed \in BOOLEAN, MayConfirm(j, confirmed),
               RecordOutcome(j, k, confirmed)
        PROVE  Quiet
    <3> DEFINE kc == SetKillConfirmation(j, IF confirmed THEN "yes" ELSE "no")
    <3>1. Written(state, kc)
      BY <2>1, <2>4, WrittenConfirmation DEF MayConfirm
    <3>2. Rewrites(state, kc)
      BY <2>4 DEF RecordOutcome
    <3> HIDE DEF kc
    <3> QED  BY <2>2, <3>1, <3>2, WritesAreQuiet
  <2>5. CASE UNCHANGED recordVars
    BY <2>2, <2>5, WrittenSame, WritesAreQuiet
  <2> QED  BY <2>3, <2>4, <2>5
<1>3. CASE SendTerm(j, k)
  <2>1. ~Waiting(j)
    BY <1>3 DEF IInv, CallInv, CallsSound, SendTerm
  <2>2. Written(KillMark(j, k), killConfirmed)
    BY <2>1, WrittenSame, WrittenMarked DEF KillMark, Terminal
  <2>3. UNCHANGED <<procVars, queueVars, slotVars, cap>>
    BY <1>3 DEF SendTerm
  <2>4. Records(KillMark(j, k), killConfirmed) \/ UNCHANGED recordVars
    BY <1>3 DEF SendTerm
  <2> QED  BY <2>2, <2>3, <2>4, WrittenSame, WritesAreQuiet
<1>4. CASE KillSentConfirms(j, k)
  <2> DEFINE st == IF phase[j][k] = "sent" THEN Marked(j, "killed") ELSE state
             kc == SetKillConfirmation(j, "yes")
  <2>1. ~Waiting(j)
    BY <1>4 DEF IInv, CallInv, CallsSound, KillSentConfirms
  <2>2. UNCHANGED <<procVars, queueVars, slotVars, cap>>
    BY <1>4 DEF KillSentConfirms
  <2>3. UNCHANGED recordVars \/ (MayConfirm(j, TRUE) /\ Records(st, kc))
    BY <1>4 DEF KillSentConfirms
  <2>4. MayConfirm(j, TRUE) => Written(st, kc)
    BY <2>1, WrittenConfirmation, WrittenMarked DEF MayConfirm, Terminal
  <2> HIDE DEF st, kc
  <2> QED  BY <2>2, <2>3, <2>4, WrittenSame, WritesAreQuiet
<1> QED  BY <1>1, <1>2, <1>3, <1>4

(* Every step is in a class.                                                *)
LEMMA EveryStep ==
  ASSUME IInv, Next
  PROVE  StoreClass
<1>1. ASSUME NEW j \in Jobs, Job(j)
      PROVE  StoreClass
  BY <1>1, ReapEntersClass, EventsClass DEF Job, StoreClass
<1>2. ASSUME NEW j \in Jobs, NEW k \in Kinds, Call(j, k)
      PROVE  StoreClass
  BY <1>2, ReapSettlesClass, ReapEntersClass, SignallingClass DEF Call, StoreClass
<1>3. ASSUME NEW c \in Caps, SetConcurrencyConfig(c)
      PROVE  Recaps(c)
  <2>1. slotReleased \cup {} = slotReleased /\ Held \ {} = Held
    OBVIOUS
  <2>2. /\ cap' = c /\ lostSlots' = lostSlots
        /\ DrainQueue(state, killConfirmed, slotReleased \cup {}, activeSlots, cap')
    BY <1>3, <2>1 DEF SetConcurrencyConfig
  <2>3. activeSlots = Cardinality(Held \ {}) + Cardinality(lostSlots)
    BY <2>1 DEF IInv, StoreInv, SlotAccounting
  <2>4. state \in [Jobs -> States] /\ killConfirmed \in [Jobs -> Confirmations]
    BY DEF IInv, StoreInv, StoreTypes
  <2> QED  BY <2>2, <2>3, <2>4, WrittenSame DEF Recaps, Drains
<1> QED  BY <1>1, <1>2, <1>3 DEF Next, StoreClass

-----------------------------------------------------------------------------
(* What drainQueue does, without the outcome of each spawn: the jobs served *)
(* are the first n, those of failed keep no slot, those of spawned have a   *)
(* process.                                                                 *)
Served(freed, n, failed, spawned) ==
  LET base == Cardinality(Held \ freed) + Cardinality(lostSlots)
  IN  /\ failed \subseteq Front(queue, n) /\ spawned \subseteq Front(queue, n) \ failed
      /\ \A i \in 0 .. n - 1 : base + Cardinality(Front(queue, i) \ failed) < cap'
      /\ n = Len(queue) \/ base + Cardinality(Front(queue, n) \ failed) >= cap'
      /\ queue' = SubSeq(queue, n + 1, Len(queue))
      /\ queuePosition' = Renumbered(Front(queue, n), queue')
      /\ Held' = (Held \ freed) \cup (Front(queue, n) \ failed)
      /\ lostSlots' = lostSlots /\ orphan' = orphan
      /\ \A j \in Jobs \cap Front(queue, n) :
           /\ leader'[j] = "alive" <=> j \in spawned
           /\ j \in failed => state'[j] = "failed"
           /\ j \notin failed => state'[j] = "starting" /\ leader'[j] # "none"
      /\ \A j \in Jobs \ Front(queue, n) :
           /\ leader'[j] = leader[j] /\ (j \in children' <=> j \in children)
           /\ killConfirmed[j] # "unset" => killConfirmed'[j] # "unset"
           /\ state'[j] # state[j] => /\ state[j] \in Live /\ ~Waiting(j)
                                      /\ state'[j] \in Terminal \cup {"running"}

(* The first n of the queue are jobs that wait.                             *)
LEMMA FrontWaits ==
  ASSUME IInv, NEW n \in 0 .. Len(queue)
  PROVE  \A j \in Front(queue, n) : j \in Jobs /\ InQueue(j) /\ Waiting(j)
<1>1. Len(queue) \in Nat /\ \A i \in 1 .. Len(queue) : queue[i] \in Jobs
  BY ElementOfSeq, LenProperties DEF IInv, StoreInv, StoreTypes
<1> QED  BY <1>1 DEF Front, InQueue, Waiting

(* A drain serves some prefix of the queue.                                 *)
LEMMA DrainServes ==
  ASSUME IInv, NEW freed, Drains(freed)
  PROVE  \E n \in 0 .. Len(queue) :
           \E failed, spawned \in SUBSET Jobs : Served(freed, n, failed, spawned)
<1> DEFINE base == Cardinality(Held \ freed) + Cardinality(lostSlots)
<1>1. PICK st \in [Jobs -> States], kc \in [Jobs -> Confirmations] :
        Written(st, kc) /\ DrainQueue(st, kc, slotReleased \cup freed, base, cap')
  BY DEF Drains
<1> HIDE DEF base
<1>2. PICK outcome \in [Front(queue, Len(queue)) -> SpawnOutcomes \ {"preflight"}],
           n \in 0 .. Len(queue) :
             LET throwing == {j \in DOMAIN outcome : outcome[j] = "throws"}
                 started  == Front(queue, n)
             IN  /\ DrainStops(n, base, cap', throwing)
                 /\ queue' = SubSeq(queue, n + 1, Len(queue))
                 /\ queuePosition' = Renumbered(started, queue')
                 /\ activeSlots' = base + Cardinality(started \ throwing)
                 /\ slotReserved' = slotReserved \cup started
                 /\ slotReleased' = slotReleased \cup freed \cup (started \cap throwing)
                 /\ BeginSpawn(started, outcome, st, kc)
  BY <1>1 DEF DrainQueue
<1> DEFINE throwing == {j \in DOMAIN outcome : outcome[j] = "throws"}
           started  == Front(queue, n)
           failed   == {j \in started : outcome[j] = "throws"}
           spawned  == {j \in started : outcome[j] = "spawns"}
<1>3. Len(queue) \in Nat
  BY LenProperties DEF IInv, StoreInv, StoreTypes
<1>4. started \subseteq DOMAIN outcome
  BY <1>3 DEF Front
<1>5. \A i \in 0 .. n : Front(queue, i) \ throwing = Front(queue, i) \ failed
  BY <1>3, <1>4 DEF Front
<1>6. /\ \A i \in 0 .. n - 1 : base + Cardinality(Front(queue, i) \ failed) < cap'
      /\ n = Len(queue) \/ base + Cardinality(started \ failed) >= cap'
  <2>1. DrainStops(n, base, cap', throwing)
    BY <1>2
  <2>2. n \in 0 .. n /\ \A i \in 0 .. n - 1 : i \in 0 .. n
    BY <1>3
  <2> HIDE DEF throwing, failed
  <2> QED  BY <1>5, <2>1, <2>2 DEF DrainStops
<1>7. /\ queue' = SubSeq(queue, n + 1, Len(queue))
      /\ queuePosition' = Renumbered(started, queue')
      /\ slotReserved' = slotReserved \cup started
      /\ slotReleased' = slotReleased \cup freed \cup failed
      /\ children' = children \cup spawned /\ orphan' = orphan
      /\ leader' = [j \in Jobs |-> IF j \in started THEN LeaderAfter(outcome[j])
                                   ELSE leader[j]]
      /\ state' = [j \in Jobs |-> IF j \in failed THEN "failed" ELSE st[j]]
      /\ killConfirmed' = [j \in Jobs |-> IF j \in failed THEN "yes" ELSE kc[j]]
  BY <1>2, <1>4 DEF BeginSpawn
<1>8. \A j \in started : /\ j \in Jobs /\ Waiting(j) /\ InQueue(j)
                         /\ j \notin slotReserved /\ j \notin slotReleased /\ j \notin freed
  BY FrontWaits DEF IInv, StoreInv, WaitingUntouched, SlotsSound, Drains, Held
<1>9. Held' = (Held \ freed) \cup (started \ failed)
  BY <1>7, <1>8 DEF Held
<1>10. ASSUME NEW j \in started
       PROVE  /\ leader'[j] = "alive" <=> j \in spawned
              /\ j \in failed => state'[j] = "failed"
              /\ j \notin failed => state'[j] = "starting" /\ leader'[j] # "none"
  <2>1. st[j] = "starting"
    BY <1>1, <1>8 DEF Written, GoodRecords, IInv, StoreInv, WaitingUntouched
  <2>2. outcome[j] \in {"throws", "doomed", "spawns"}
    BY <1>4, SpawnAssumption
  <2> QED  BY <1>7, <1>8, <2>1, <2>2 DEF LeaderAfter
<1>11. ASSUME NEW j \in Jobs \ started
       PROVE  /\ leader'[j] = leader[j] /\ (j \in children' <=> j \in children)
              /\ killConfirmed[j] # "unset" => killConfirmed'[j] # "unset"
              /\ state'[j] # state[j] => /\ state[j] \in Live /\ ~Waiting(j)
                                         /\ state'[j] \in Terminal \cup {"running"}
  BY <1>1, <1>7, <1>11 DEF Written, GoodRecords
<1>12. /\ failed \subseteq started /\ spawned \subseteq started \ failed
       /\ failed \in SUBSET Jobs /\ spawned \in SUBSET Jobs
  BY <1>8
<1> HIDE DEF started, failed, spawned
<1>13. Served(freed, n, failed, spawned)
  <2>1. Front(queue, n) = started
    BY DEF started
  <2> QED  BY <1>6, <1>7, <1>9, <1>10, <1>11, <1>12, <2>1 DEF Served, base, Drains
<1> QED  BY <1>12, <1>13

(* The queue without its first n.                                           *)
LEMMA QueueDropsFirst ==
  ASSUME IInv, NEW n \in 0 .. Len(queue), queue' = SubSeq(queue, n + 1, Len(queue))
  PROVE  /\ queue' \in Seq(Jobs)
         /\ \A j \in Jobs : InQueue(j)' <=> InQueue(j) /\ j \notin Front(queue, n)
<1>1. /\ queue \in Seq(Jobs) /\ Len(queue) \in Nat /\ n \in Nat
      /\ \A i \in 1 .. Len(queue) : queue[i] \in Jobs
  BY ElementOfSeq, LenProperties DEF IInv, StoreInv, StoreTypes
<1>2. /\ queue' \in Seq(Jobs) /\ Len(queue') = Len(queue) - n
      /\ \A i \in 1 .. Len(queue') : queue'[i] = queue[n + i]
  <2>1. \A i \in n + 1 .. Len(queue) : queue[i] \in Jobs
    BY <1>1
  <2>2. n + 1 \in Int /\ Len(queue) \in Int
    BY <1>1
  <2> DEFINE rest == SubSeq(queue, n + 1, Len(queue))
  <2>3. /\ rest \in Seq(Jobs)
        /\ Len(rest) = IF n + 1 <= Len(queue) THEN Len(queue) - (n + 1) + 1 ELSE 0
        /\ \A i \in 1 .. Len(queue) - (n + 1) + 1 : rest[i] = queue[(n + 1) + i - 1]
    BY <2>1, <2>2, SubSeqProperties
  <2>4. queue' = rest
    OBVIOUS
  <2> HIDE DEF rest
  <2>5. Len(rest) = Len(queue) - n
    BY <2>3, <1>1
  <2> QED  BY <2>3, <2>4, <2>5, <1>1
<1>3. QueueDistinct
  BY DEF IInv, StoreInv
<1>4. ASSUME NEW j \in Jobs, InQueue(j)'
      PROVE  InQueue(j) /\ j \notin Front(queue, n)
  BY <1>1, <1>2, <1>3, <1>4 DEF InQueue, Front, QueueDistinct
<1>5. ASSUME NEW j \in Jobs, InQueue(j), j \notin Front(queue, n)
      PROVE  InQueue(j)'
  <2>1. PICK i \in 1 .. Len(queue) : queue[i] = j
    BY <1>5 DEF InQueue
  <2>2. i > n
    BY <1>1, <1>5, <2>1 DEF Front
  <2>3. i - n \in 1 .. Len(queue') /\ n + (i - n) = i
    BY <1>1, <1>2, <2>2
  <2> QED  BY <1>2, <2>1, <2>3 DEF InQueue
<1> QED  BY <1>2, <1>4, <1>5

(* Renumbering gives every job its place, if only the jobs of gone left.    *)
LEMMA RenumberedPlaces ==
  ASSUME PositionsSound, NEW gone, queue' \in Seq(Jobs),
         queuePosition' = Renumbered(gone, queue'),
         \A j \in Jobs : InQueue(j)' <=> InQueue(j) /\ j \notin gone
  PROVE  \A j \in Jobs :
           /\ queuePosition'[j] # 0 <=> InQueue(j)'
           /\ InQueue(j)' => /\ queuePosition'[j] \in 1 .. Len(queue')
                             /\ queue'[queuePosition'[j]] = j
<1>1. DOMAIN queue' = 1 .. Len(queue') /\ Len(queue') \in Nat
  BY LenProperties
<1> SUFFICES ASSUME NEW j \in Jobs
             PROVE  /\ queuePosition'[j] # 0 <=> InQueue(j)'
                    /\ InQueue(j)' => /\ queuePosition'[j] \in 1 .. Len(queue')
                                      /\ queue'[queuePosition'[j]] = j
  OBVIOUS
<1>2. CASE InQueue(j)'
  <2>1. \E i \in DOMAIN queue' : queue'[i] = j
    BY <1>1, <1>2 DEF InQueue
  <2>2. queuePosition'[j] = CHOOSE i \in DOMAIN queue' : queue'[i] = j
    BY <2>1 DEF Renumbered
  <2>3. queuePosition'[j] \in DOMAIN queue' /\ queue'[queuePosition'[j]] = j
    BY <2>1, <2>2
  <2> QED  BY <1>1, <1>2, <2>3
<1>3. CASE ~InQueue(j)'
  <2>1. ~\E i \in DOMAIN queue' : queue'[i] = j
    BY <1>1, <1>3 DEF InQueue
  <2>2. queuePosition'[j] = IF j \in gone THEN 0 ELSE queuePosition[j]
    BY <2>1 DEF Renumbered
  <2>3. j \notin gone => queuePosition[j] = 0
    BY <1>3 DEF PositionsSound
  <2> QED  BY <1>3, <2>2, <2>3
<1> QED  BY <1>2, <1>3

(* A drain keeps the positions.                                             *)
LEMMA PositionsDrain ==
  ASSUME IInv, PositionsSound, NEW freed, Drains(freed)
  PROVE  PositionsSound'
<1> PICK n \in 0 .. Len(queue), failed \in SUBSET Jobs, spawned \in SUBSET Jobs :
      Served(freed, n, failed, spawned)
  BY DrainServes
<1>1. /\ queue' \in Seq(Jobs)
      /\ \A j \in Jobs : InQueue(j)' <=> InQueue(j) /\ j \notin Front(queue, n)
  BY QueueDropsFirst DEF Served
<1>2. \A j \in Jobs :
        /\ queuePosition'[j] # 0 <=> InQueue(j)'
        /\ InQueue(j)' => /\ queuePosition'[j] \in 1 .. Len(queue')
                          /\ queue'[queuePosition'[j]] = j
  BY <1>1, RenumberedPlaces DEF Served
<1>3. ASSUME NEW j \in Jobs, state'[j] = "starting", leader'[j] = "none"
      PROVE  InQueue(j)'
  <2>1. j \notin Front(queue, n)
    BY <1>3 DEF Served
  <2>2. leader[j] = "none" /\ state[j] = "starting"
    BY <1>3, <2>1 DEF Served, Terminal
  <2> QED  BY <1>1, <2>1, <2>2 DEF PositionsSound
<1> QED  BY <1>2, <1>3 DEF PositionsSound

(* So does a step of any class.                                             *)
LEMMA PositionsKept ==
  ASSUME IInv, PositionsSound, StoreClass
  PROVE  PositionsSound'
<1> USE DEF queueVars, procVars, slotVars
<1>1. CASE Quiet
  <2> PICK st \in [Jobs -> States], kc \in [Jobs -> Confirmations] :
        Written(st, kc) /\ Rewrites(st, kc)
    BY <1>1 DEF Quiet
  <2>1. \A j \in Jobs : state'[j] = "starting" => state[j] = "starting"
    BY DEF Written, GoodRecords, Rewrites, Terminal
  <2> QED  BY <1>1, <2>1 DEF Quiet, PositionsSound, InQueue
<1>2. CASE \E j \in Jobs : Frees(j)
  BY <1>2, PositionsDrain DEF Frees
<1>3. CASE \E c \in Caps : Recaps(c)
  BY <1>3, PositionsDrain DEF Recaps
<1>4. ASSUME NEW j \in Jobs, RunPreflightFails(j)
      PROVE  PositionsSound'
  <2>1. UNCHANGED <<leader, queueVars>> /\ \A i \in Jobs : state'[i] \in {state[i], "failed"}
    BY <1>4 DEF RunPreflightFails, Records, IInv, StoreInv, StoreTypes
  <2> QED  BY <2>1 DEF PositionsSound, InQueue
<1>5. ASSUME NEW j \in Jobs, RunAdmitted(j)
      PROVE  PositionsSound'
  <2> PICK outcome \in [{j} -> SpawnOutcomes \ {"preflight"}] :
        BeginSpawn({j}, outcome, [state EXCEPT ![j] = "starting"], killConfirmed)
    BY <1>5 DEF RunAdmitted
  <2>1. outcome[j] \in {"throws", "doomed", "spawns"}
    BY SpawnAssumption
  <2>2. /\ leader' = [i \in Jobs |-> IF i = j THEN LeaderAfter(outcome[j]) ELSE leader[i]]
        /\ \A i \in Jobs \ {j} : state'[i] = state[i]
        /\ outcome[j] = "throws" => state'[j] = "failed"
    BY DEF BeginSpawn, IInv, StoreInv, StoreTypes
  <2>3. ~(state'[j] = "starting" /\ leader'[j] = "none")
    BY <2>1, <2>2 DEF LeaderAfter
  <2>4. UNCHANGED queueVars
    BY <1>5 DEF RunAdmitted
  <2> QED  BY <2>2, <2>3, <2>4 DEF PositionsSound, InQueue
<1>6. ASSUME NEW j \in Jobs, RunQueued(j)
      PROVE  PositionsSound'
  <2>1. /\ state[j] = "none" /\ state' = [state EXCEPT ![j] = "starting"]
        /\ queue' = Append(queue, j)
        /\ queuePosition' = [queuePosition EXCEPT ![j] = Len(queue')]
        /\ UNCHANGED leader
    BY <1>6 DEF RunQueued, Records
  <2>2. queue \in Seq(Jobs) /\ ~InQueue(j) /\ Len(queue) \in Nat
    BY <2>1, LenProperties DEF IInv, StoreInv, StoreTypes, WaitingUntouched, Waiting
  <2>3. /\ Len(queue') = Len(queue) + 1 /\ queue'[Len(queue) + 1] = j
        /\ \A i \in 1 .. Len(queue) : queue'[i] = queue[i]
        /\ \A i \in Jobs : InQueue(i)' <=> InQueue(i) \/ i = j
    BY <2>1, <2>2, QueuedAppend
  <2>4. /\ queuePosition'[j] = Len(queue) + 1
        /\ \A i \in Jobs \ {j} : queuePosition'[i] = queuePosition[i] /\ state'[i] = state[i]
    BY <2>1, <2>3 DEF IInv, StoreInv, StoreTypes
  <2> QED  BY <2>1, <2>2, <2>3, <2>4 DEF PositionsSound
<1>7. ASSUME NEW j \in Jobs, LeaderDies(j) \/ OrphanStarts(j) \/ OrphanDies(j)
      PROVE  PositionsSound'
  <2>1. UNCHANGED <<state, queueVars>> /\ \A i \in Jobs : leader'[i] = "none" => leader[i] = "none"
    BY <1>7 DEF LeaderDies, OrphanStarts, OrphanDies, recordVars, IInv, StoreInv, StoreTypes
  <2> QED  BY <2>1 DEF PositionsSound, InQueue
<1>8. ASSUME NEW j \in Jobs, KillQueued(j)
      PROVE  PositionsSound'
  <2> PICK i \in DOMAIN queue :
        /\ queue[i] = j
        /\ queue' = SubSeq(queue, 1, i - 1) \o SubSeq(queue, i + 1, Len(queue))
    BY <1>8 DEF KillQueued
  <2>1. queue \in Seq(Jobs) /\ QueueDistinct /\ i \in 1 .. Len(queue) /\ Len(queue) \in Nat
    BY LenProperties DEF IInv, StoreInv, StoreTypes
  <2>2. /\ queue' \in Seq(Jobs) /\ Len(queue') = Len(queue) - 1
        /\ \A x \in 1 .. Len(queue) - 1 : queue'[x] = queue[IF x < i THEN x ELSE x + 1]
    BY <2>1, RemoveElement
  <2>3. \A x \in Jobs : InQueue(x)' => InQueue(x) /\ x # j
    BY <2>1, <2>2, QueueRemove
  <2>4. ASSUME NEW x \in Jobs, InQueue(x), x # j
        PROVE  InQueue(x)'
    <3>1. PICK y \in 1 .. Len(queue) : queue[y] = x
      BY <2>4 DEF InQueue
    <3>2. CASE y < i
      <4>1. y \in 1 .. Len(queue) - 1 /\ y \in 1 .. Len(queue')
        BY <2>1, <2>2, <3>2
      <4> QED  BY <2>2, <3>1, <3>2, <4>1 DEF InQueue
    <3>3. CASE y > i
      <4>1. /\ y - 1 \in 1 .. Len(queue) - 1 /\ y - 1 \in 1 .. Len(queue')
            /\ ~(y - 1 < i) /\ (y - 1) + 1 = y
        BY <2>1, <2>2, <3>3
      <4>2. queue'[y - 1] = queue[y]
        BY <2>1, <2>2, <4>1
      <4>3. \E z \in 1 .. Len(queue') : queue'[z] = x
        BY <3>1, <4>1, <4>2
      <4> QED  BY <4>3 DEF InQueue
    <3>4. y # i
      BY <2>4, <3>1
    <3> QED  BY <2>1, <3>2, <3>3, <3>4
  <2>5. \A x \in Jobs : /\ queuePosition'[x] # 0 <=> InQueue(x)'
                        /\ InQueue(x)' => /\ queuePosition'[x] \in 1 .. Len(queue')
                                          /\ queue'[queuePosition'[x]] = x
    <3>1. \A x \in Jobs : InQueue(x)' <=> InQueue(x) /\ x \notin {j}
      BY <2>3, <2>4
    <3>2. queuePosition' = Renumbered({j}, queue')
      BY <1>8 DEF KillQueued
    <3> QED  BY <2>2, <3>1, <3>2, RenumberedPlaces
  <2>6. UNCHANGED leader /\ state'[j] = "killed" /\ \A x \in Jobs \ {j} : state'[x] = state[x]
    BY <1>8 DEF KillQueued, Records, Marked, IInv, StoreInv, StoreTypes
  <2> QED  BY <2>4, <2>5, <2>6 DEF PositionsSound
<1>9. ASSUME NEW j \in Jobs, Purge(j)
      PROVE  PositionsSound'
  <2>1. UNCHANGED <<leader, queueVars>> /\ \A i \in Jobs : state'[i] \in {state[i], "purged"}
    BY <1>9 DEF Purge, Records, IInv, StoreInv, StoreTypes
  <2> QED  BY <2>1 DEF PositionsSound, InQueue
<1>10. CASE BeginShutdown
  <2> DEFINE queued == Front(queue, Len(queue))
  <2>1. /\ state' = [j \in Jobs |-> IF j \in queued THEN "killed" ELSE state[j]]
        /\ queue' = <<>> /\ queuePosition' = Renumbered(queued, queue') /\ UNCHANGED leader
    BY <1>10 DEF BeginShutdown, Records
  <2>2. \A j \in Jobs : j \in queued <=> InQueue(j)
    BY DEF Front, InQueue
  <2> HIDE DEF queued
  <2>3. queue' \in Seq(Jobs) /\ \A j \in Jobs : ~InQueue(j)'
    BY <2>1, EmptySeq DEF InQueue
  <2>4. \A j \in Jobs : queuePosition'[j] # 0 <=> InQueue(j)'
    BY <2>1, <2>2, <2>3, RenumberedPlaces
  <2> QED  BY <2>1, <2>2, <2>3, <2>4 DEF PositionsSound
<1> QED  BY <1>1, <1>2, <1>3, <1>4, <1>5, <1>6, <1>7, <1>8, <1>9, <1>10 DEF StoreClass

-----------------------------------------------------------------------------
(* The shutdown: a step of any class but run()'s leaves an empty queue      *)
(* empty and starts no process.                                             *)
LEMMA EmptyStaysEmpty ==
  ASSUME IInv, StoreClass, queue = <<>>,
         \A j \in Jobs : ~RunAdmitted(j) /\ ~RunQueued(j)
  PROVE  queue' = <<>> /\ \A j \in Jobs : leader'[j] = "alive" => leader[j] = "alive"
<1> USE DEF queueVars, procVars
<1>1. ASSUME NEW freed, Drains(freed)
      PROVE  queue' = <<>> /\ \A j \in Jobs : leader'[j] = leader[j]
  <2> PICK n \in 0 .. Len(queue), failed \in SUBSET Jobs, spawned \in SUBSET Jobs :
        Served(freed, n, failed, spawned)
    BY <1>1, DrainServes
  <2>1. Len(queue) = 0 /\ n = 0
    BY EmptySeq
  <2>2. queue' \in Seq(Jobs) /\ Front(queue, n) = {}
    BY <2>1, QueueDropsFirst DEF Served, Front
  <2>3. queue' = SubSeq(queue, 1, 0)
    BY <2>1 DEF Served
  <2>4. Len(queue') = 0
    BY <2>1, <2>3
  <2> QED  BY <2>2, <2>4, EmptySeq DEF Served
<1>2. CASE \/ Quiet \/ BeginShutdown
           \/ \E j \in Jobs : \/ RunPreflightFails(j) \/ Purge(j)
                              \/ LeaderDies(j) \/ OrphanStarts(j) \/ OrphanDies(j)
  <2>1. queue' = <<>>
    BY <1>2 DEF Quiet, BeginShutdown, RunPreflightFails, Purge, LeaderDies, OrphanStarts,
                OrphanDies
  <2>2. leader' = leader \/ \E j \in Jobs : leader' = [leader EXCEPT ![j] = "dead"]
    BY <1>2 DEF Quiet, BeginShutdown, RunPreflightFails, Purge, LeaderDies, OrphanStarts,
                OrphanDies
  <2> QED  BY <2>1, <2>2 DEF IInv, StoreInv, StoreTypes
<1>3. \A j \in Jobs : ~KillQueued(j)
  BY DEF KillQueued
<1> QED  BY <1>1, <1>2, <1>3 DEF StoreClass, Frees, Recaps

(* Only the shutdown itself begins it.                                      *)
LEMMA ShutdownBegins ==
  ASSUME Next
  PROVE  BeginShutdown \/ shuttingDown' = shuttingDown
<1>1. ASSUME NEW j \in Jobs, NEW k \in Kinds, Call(j, k)
      PROVE  shuttingDown' = shuttingDown
  BY <1>1 DEF Call, ReapSettles, KillTerminal, KillLive, GateStops, GateProceeds,
       GateFindsGroupGone, SendTerm, KillConfirms, KillSentConfirms, KillSends, restVars
<1>2. ASSUME NEW j \in Jobs, Job(j)
      PROVE  shuttingDown' = shuttingDown
  BY <1>2 DEF Job, RunPreflightFails, RunAdmitted, RunQueued, OnSpawn, OnError, OnExit,
       GateFires, LeaderDies, OrphanStarts, OrphanDies, RetryTimerFires, StaleRetryFires,
       KillQueued, DeadlineFires, Purge, restVars
<1>3. ASSUME NEW c \in Caps, SetConcurrencyConfig(c)
      PROVE  shuttingDown' = shuttingDown
  BY <1>3 DEF SetConcurrencyConfig
<1> QED  BY <1>1, <1>2, <1>3 DEF Next

(* Once it has begun nothing waits, and nothing starts.                     *)
LEMMA ShutdownKept ==
  ASSUME IInv, NobodyWaitsInShutdown, Next
  PROVE  /\ NobodyWaitsInShutdown'
         /\ shuttingDown => \A j \in Jobs : leader'[j] = "alive" => leader[j] = "alive"
<1>1. CASE BeginShutdown
  BY <1>1 DEF BeginShutdown, NobodyWaitsInShutdown
<1>2. CASE ~shuttingDown /\ ~shuttingDown'
  BY <1>2 DEF NobodyWaitsInShutdown
<1>3. CASE shuttingDown
  <2>1. \A j \in Jobs : ~RunAdmitted(j) /\ ~RunQueued(j)
    BY <1>3 DEF RunAdmitted, RunQueued, Admits, Queues
  <2> QED  BY <1>3, <2>1, EveryStep, EmptyStaysEmpty DEF NobodyWaitsInShutdown
<1> QED  BY <1>1, <1>2, <1>3, ShutdownBegins DEF IInv, CallInv, CallTypes

-----------------------------------------------------------------------------
(* The one reap that may signal.                                            *)
LEMMA SpentWhen ==
  ASSUME NEW j \in Jobs
  PROVE  Spent(j) <=> j \in reapAttempted \/ j \notin children \/ IsRetry(j)
BY DEF Spent, ReapPhase, NoChild

(* Nobody gives a started job a child, and what was said of its reap stays  *)
(* said while it has one.                                                   *)
LEMMA TrailsKept ==
  ASSUME IInv, StoreClass, NEW j \in Jobs, ~Waiting(j)
  PROVE  /\ j \in children' => j \in children
         /\ HasRecord(j) /\ killConfirmed[j] # "unset" /\ j \in children'
              => HasRecord(j)' /\ killConfirmed'[j] # "unset"
<1> USE DEF HasRecord, Live, Terminal, procVars
<1>1. CASE Quiet
  BY <1>1 DEF Quiet, Written, GoodRecords, Rewrites
<1>2. ASSUME NEW freed, Drains(freed)
      PROVE  /\ j \in children' => j \in children
             /\ HasRecord(j) /\ killConfirmed[j] # "unset"
                  => HasRecord(j)' /\ killConfirmed'[j] # "unset"
  <2> PICK n \in 0 .. Len(queue), failed \in SUBSET Jobs, spawned \in SUBSET Jobs :
        Served(freed, n, failed, spawned)
    BY <1>2, DrainServes
  <2>1. j \notin Front(queue, n)
    BY FrontWaits
  <2> QED  BY <2>1 DEF Served
<1>3. ASSUME NEW i \in Jobs, RunPreflightFails(i) \/ RunQueued(i)
      PROVE  /\ children' = children
             /\ HasRecord(j) /\ killConfirmed[j] # "unset"
                  => HasRecord(j)' /\ killConfirmed'[j] # "unset"
  <2>1. i # j
    BY <1>3 DEF RunPreflightFails, RunQueued, Waiting
  <2> QED  BY <1>3, <2>1 DEF RunPreflightFails, RunQueued, Records, IInv, StoreInv, StoreTypes
<1>4. ASSUME NEW i \in Jobs, RunAdmitted(i)
      PROVE  /\ j \in children' => j \in children
             /\ HasRecord(j) /\ killConfirmed[j] # "unset"
                  => HasRecord(j)' /\ killConfirmed'[j] # "unset"
  <2>1. i # j
    BY <1>4 DEF RunAdmitted, Waiting
  <2> PICK outcome \in [{i} -> SpawnOutcomes \ {"preflight"}] :
        BeginSpawn({i}, outcome, [state EXCEPT ![i] = "starting"], killConfirmed)
    BY <1>4 DEF RunAdmitted
  <2> QED  BY <2>1 DEF BeginSpawn, IInv, StoreInv, StoreTypes
<1>5. ASSUME NEW i \in Jobs, LeaderDies(i) \/ OrphanStarts(i) \/ OrphanDies(i)
      PROVE  UNCHANGED <<recordVars, children>>
  BY <1>5 DEF LeaderDies, OrphanStarts, OrphanDies
<1>6. ASSUME NEW i \in Jobs, KillQueued(i)
      PROVE  /\ children' = children
             /\ HasRecord(j) => HasRecord(j)'
             /\ killConfirmed[j] # "unset" => killConfirmed'[j] # "unset"
  BY <1>6 DEF KillQueued, Records, Marked, SetKillConfirmation, IInv, StoreInv, StoreTypes
<1>7. ASSUME NEW i \in Jobs, Purge(i)
      PROVE  /\ children' = children \ {i}
             /\ \A x \in Jobs \ {i} : state'[x] = state[x] /\ killConfirmed'[x] = killConfirmed[x]
  BY <1>7 DEF Purge, Records, IInv, StoreInv, StoreTypes
<1>8. CASE BeginShutdown
  BY <1>8 DEF BeginShutdown, Records
<1> QED  BY <1>1, <1>2, <1>3, <1>4, <1>5, <1>6, <1>7, <1>8
         DEF StoreClass, Frees, Recaps, recordVars

(* What a step does to the marks of the reaps, and who gets to signal.      *)
SignalStep ==
  /\ reapAttempted \subseteq reapAttempted'
  /\ \A j \in Jobs : j \in reapEntered => j \in reapEntered' \/ j \notin children'
  /\ \A j \in exitSeen' \ exitSeen : ~Waiting(j) /\ (Spent(j) \/ j \in reapEntered')
  /\ \A j \in Jobs : \E k \in Kinds : \A l \in Kinds :
       phase'[j][l] = "reaper" /\ phase[j][l] # "reaper"
         => l = k /\ ~Spent(j) /\ j \in reapEntered'

(* A step in which one call about a job takes its next step.                *)
LEMMA OneCallSteps ==
  ASSUME IInv, NEW j \in Jobs, NEW k \in Kinds, NEW p,
         phase' = [phase EXCEPT ![j][k] = p] \/ phase' = phase,
         p = "reaper" => ~Spent(j) /\ j \in reapEntered',
         reapAttempted \subseteq reapAttempted', reapEntered \subseteq reapEntered',
         \/ exitSeen' = exitSeen
         \/ /\ exitSeen' = exitSeen \cup {j} /\ ~Waiting(j)
            /\ Spent(j) \/ j \in reapEntered'
  PROVE  SignalStep
<1>1. \A i \in Jobs, l \in Kinds :
        phase'[i][l] = "reaper" /\ phase[i][l] # "reaper"
          => i = j /\ l = k /\ p = "reaper"
  BY DEF IInv, CallInv, CallTypes
<1>2. \A i \in Jobs : \E m \in Kinds : \A l \in Kinds :
        phase'[i][l] = "reaper" /\ phase[i][l] # "reaper"
          => l = m /\ ~Spent(i) /\ i \in reapEntered'
  BY <1>1
<1> HIDE DEF Spent
<1> QED  BY <1>2 DEF SignalStep, IInv, CallInv, CallTypes

(* Of the calls only kill() on a terminal record may come to signal.        *)
LEMMA SignalStepOfCalls ==
  ASSUME IInv, NEW j \in Jobs, NEW k \in Kinds, Call(j, k)
  PROVE  SignalStep
<1> USE DEF reapVars, restVars
<1>1. CASE KillTerminal(j, k)
  <2> DEFINE p == IF Pending(ReapPhase(j)) THEN ReapPhase(j) ELSE "idle"
  <2>1. /\ phase' = [phase EXCEPT ![j][k] = p] /\ EnterReaps({j}) /\ exitSeen' = exitSeen
    BY <1>1 DEF KillTerminal
  <2>2. p = "reaper" => ~Spent(j) /\ j \in reapEntered'
    BY <2>1 DEF EnterReaps, Spent
  <2>3. reapAttempted \subseteq reapAttempted' /\ reapEntered \subseteq reapEntered'
    BY <2>1 DEF EnterReaps
  <2> HIDE DEF p
  <2> QED  BY <2>1, <2>2, <2>3, OneCallSteps
<1>2. CASE ~KillTerminal(j, k)
  <2>1. /\ \E p \in Phases \ {"reaper"} : phase' = [phase EXCEPT ![j][k] = p]
        /\ exitSeen' = exitSeen /\ reapEntered \subseteq reapEntered'
        /\ reapAttempted \subseteq reapAttempted'
    BY <1>2 DEF Call, ReapSettles, KillLive, GateStops, GateProceeds, GateFindsGroupGone,
         SendTerm, KillConfirms, KillSentConfirms, KillSends, RecordOutcome, Phases
  <2> PICK p \in Phases \ {"reaper"} : phase' = [phase EXCEPT ![j][k] = p]
    BY <2>1
  <2>2. p # "reaper"
    OBVIOUS
  <2> QED  BY <2>1, <2>2, OneCallSteps
<1> QED  BY <1>1, <1>2

(* Of the events of a job only its exit and the retry may.                  *)
LEMMA SignalStepOfJobs ==
  ASSUME IInv, NEW j \in Jobs, Job(j)
  PROVE  SignalStep
<1> USE DEF reapVars, restVars
<1> DEFINE p == IF Pending(ReapPhase(j)) THEN ReapPhase(j) ELSE "idle"
<1>1. CASE OnExit(j)
  <2>1. /\ phase' = [phase EXCEPT ![j]["exit"] = p] \/ phase' = phase
        /\ EnterReaps({j}) /\ exitSeen' = exitSeen \cup {j}
    BY <1>1 DEF OnExit
  <2>2. /\ p = "reaper" => ~Spent(j) /\ j \in reapEntered'
        /\ Spent(j) \/ j \in reapEntered'
    BY <2>1 DEF EnterReaps, Spent
  <2>3. reapAttempted \subseteq reapAttempted' /\ reapEntered \subseteq reapEntered'
    BY <2>1 DEF EnterReaps
  <2>4. ~Waiting(j) /\ "exit" \in Kinds
    BY <1>1 DEF OnExit, IInv, StoreInv, WaitingUntouched, Kinds
  <2> HIDE DEF p
  <2> QED  BY <2>1, <2>2, <2>3, <2>4, OneCallSteps
<1>2. CASE RetryTimerFires(j)
  <2>1. /\ phase' = [phase EXCEPT ![j]["retry"] = p] /\ EnterReaps({j})
        /\ exitSeen' = exitSeen
    BY <1>2 DEF RetryTimerFires
  <2>2. p = "reaper" => ~Spent(j) /\ j \in reapEntered'
    BY <2>1 DEF EnterReaps, Spent
  <2>3. /\ reapAttempted \subseteq reapAttempted' /\ reapEntered \subseteq reapEntered'
        /\ "retry" \in Kinds
    BY <2>1 DEF EnterReaps, Kinds
  <2> HIDE DEF p
  <2> QED  BY <2>1, <2>2, <2>3, OneCallSteps
<1>3. CASE Purge(j)
  <2>1. /\ UNCHANGED <<phase, exitSeen, reapAttempted>>
        /\ reapEntered' = reapEntered \ {j} /\ children' = children \ {j}
    BY <1>3 DEF Purge
  <2>2. \E k : k \in Kinds
    BY DEF Kinds
  <2> QED  BY <2>1, <2>2 DEF SignalStep
<1>4. CASE DeadlineFires(j)
  <2>1. /\ "deadline" \in Kinds /\ phase' = [phase EXCEPT ![j]["deadline"] = "identity"]
        /\ UNCHANGED <<exitSeen, reapAttempted, reapEntered>>
    BY <1>4 DEF DeadlineFires, Kinds
  <2>2. \A i \in Jobs, l \in Kinds : phase'[i][l] = "reaper" => phase[i][l] = "reaper"
    BY <2>1 DEF IInv, CallInv, CallTypes
  <2> QED  BY <2>1, <2>2 DEF SignalStep
<1>5. CASE ~(OnExit(j) \/ RetryTimerFires(j) \/ Purge(j) \/ DeadlineFires(j))
  <2>1. UNCHANGED <<phase, exitSeen, reapEntered, reapAttempted>>
    BY <1>5 DEF Job, RunPreflightFails, RunAdmitted, RunQueued, OnSpawn, OnError,
         GateFires, LeaderDies, OrphanStarts, OrphanDies, StaleRetryFires, KillQueued
  <2>2. "exit" \in Kinds
    BY DEF Kinds
  <2> QED  BY <2>1, <2>2 DEF SignalStep
<1> QED  BY <1>1, <1>2, <1>3, <1>4, <1>5

(* The shutdown does so once per terminal job that still has its child.     *)
LEMMA SignalStepOfShutdown ==
  ASSUME IInv, BeginShutdown
  PROVE  SignalStep
<1> DEFINE ended == {j \in children : state[j] \in Terminal}
<1>1. /\ EnterReaps(ended) /\ exitSeen' = exitSeen
      /\ phase' = [j \in Jobs |->
           IF j \in children /\ (j \in ended => Pending(ReapPhase(j)))
           THEN [phase[j] EXCEPT !["shutdown"] = IF j \in ended THEN ReapPhase(j) ELSE "identity"]
           ELSE phase[j]]
  BY DEF BeginShutdown
<1>2. ASSUME NEW j \in Jobs, NEW l \in Kinds, phase'[j][l] = "reaper", phase[j][l] # "reaper"
      PROVE  l = "shutdown" /\ j \in ended /\ ReapPhase(j) = "reaper"
  BY <1>1, <1>2 DEF IInv, CallInv, CallTypes
<1>3. \A j \in ended : ReapPhase(j) = "reaper" => j \in reapEntered'
  BY <1>1 DEF EnterReaps
<1>4. "shutdown" \in Kinds /\ reapAttempted' = reapAttempted /\ reapEntered \subseteq reapEntered'
  BY <1>1 DEF EnterReaps, Kinds
<1> HIDE DEF ended
<1> QED  BY <1>1, <1>2, <1>3, <1>4 DEF SignalStep, Spent

(* A reap that may signal leaves its mark, so no later one may.             *)
LEMMA SignalsKept ==
  ASSUME IInv, SignalsSound, Next
  PROVE  SignalsSound' /\ SignalStep
<1>1. SignalStep
  <2>1. ASSUME NEW c \in Caps, SetConcurrencyConfig(c)
        PROVE  SignalStep
    <3>1. UNCHANGED <<phase, exitSeen, reapVars>> /\ "exit" \in Kinds
      BY <2>1 DEF SetConcurrencyConfig, Kinds
    <3> QED  BY <3>1 DEF SignalStep, reapVars
  <2> QED  BY <2>1, SignalStepOfJobs, SignalStepOfCalls, SignalStepOfShutdown DEF Next
<1>2. StoreClass
  BY EveryStep
<1>3. ASSUME NEW j \in Jobs, ~Waiting(j), Spent(j)
      PROVE  Spent(j)'
  <2>1. \/ j \in reapAttempted' \/ j \notin children' \/ j \in reapEntered'
        \/ HasRecord(j)' /\ killConfirmed'[j] # "unset"
    BY <1>1, <1>2, <1>3, SpentWhen, TrailsKept DEF SignalStep, IsRetry
  <2> QED  BY <2>1 DEF Spent, ReapPhase, NoChild, IsRetry
<1>4. ASSUME NEW j \in Jobs, j \in reapEntered'
      PROVE  Spent(j)'
  BY <1>4 DEF Spent, ReapPhase, NoChild, IsRetry
<1>5. ASSUME NEW j \in Jobs, j \in exitSeen'
      PROVE  Spent(j)'
  <2>1. CASE j \in exitSeen
    BY <1>3, <2>1 DEF SignalsSound, IInv, CallInv, CallsSound
  <2>2. CASE j \notin exitSeen
    BY <1>1, <1>3, <1>4, <1>5, <2>2 DEF SignalStep
  <2> QED  BY <2>1, <2>2
<1>6. ASSUME NEW j \in Jobs, NEW k \in Kinds, phase'[j][k] = "reaper"
      PROVE  Spent(j)'
  <2>1. CASE phase[j][k] = "reaper"
    BY <1>3, <2>1 DEF SignalsSound, IInv, CallInv, CallsSound
  <2>2. CASE phase[j][k] # "reaper"
    BY <1>1, <1>4, <1>6, <2>2 DEF SignalStep
  <2> QED  BY <2>1, <2>2
<1>7. ASSUME NEW j \in Jobs, NEW k \in Kinds, NEW l \in Kinds,
             phase'[j][k] = "reaper", phase'[j][l] = "reaper"
      PROVE  k = l
  BY <1>1, <1>7 DEF SignalStep, SignalsSound
<1> QED  BY <1>1, <1>5, <1>6, <1>7 DEF SignalsSound

-----------------------------------------------------------------------------
(* The strengthened invariant.                                              *)
LEMMA QInvInit ==
  ASSUME Init
  PROVE  QInv
<1>1. IInv
  BY InvInit
<1>2. Len(queue) = 0
  BY EmptySeq DEF Init
<1>3. PositionsSound
  BY <1>2 DEF Init, PositionsSound, InQueue
<1> QED  BY <1>1, <1>3 DEF QInv, NobodyWaitsInShutdown, SignalsSound, Init, Kinds

LEMMA QInvStutter ==
  ASSUME QInv, UNCHANGED vars
  PROVE  QInv'
<1>1. IInv'
  BY InvStutter DEF QInv
<1>2. UNCHANGED <<state, killConfirmed, children, leader, queue, queuePosition, exitSeen,
                  reapAttempted, reapEntered, phase, shuttingDown>>
  BY DEF vars, storeVars, recordVars, procVars, queueVars, reapVars, restVars
<1>3. PositionsSound' /\ NobodyWaitsInShutdown'
  BY <1>2 DEF QInv, PositionsSound, InQueue, NobodyWaitsInShutdown
<1>4. SignalsSound'
  BY <1>2 DEF QInv, SignalsSound, Spent, ReapPhase, NoChild, IsRetry, HasRecord
<1> QED  BY <1>1, <1>3, <1>4 DEF QInv

(* It holds throughout every behaviour.                                     *)
THEOREM QueueInvariance == Spec => []QInv
<1>1. Init => QInv
  BY QInvInit
<1>2. ASSUME QInv, Next
      PROVE  QInv'
  <2>1. IInv /\ PositionsSound /\ NobodyWaitsInShutdown /\ SignalsSound
    BY <1>2 DEF QInv
  <2> QED  BY <1>2, <2>1, InvNext, EveryStep, PositionsKept, ShutdownKept, SignalsKept DEF QInv
<1>3. QInv /\ [Next]_vars => QInv'
  BY <1>2, QInvStutter
<1> QED  BY <1>1, <1>3, PTL DEF Spec

(* queue_position is the job's place in the queue, whatever was drained,    *)
(* killed out of the middle or emptied by the shutdown.                     *)
THEOREM PositionsAreTrue == Spec => []QueueSound
<1>1. ASSUME QInv
      PROVE  QueueSound
  <2>1. queue \in Seq(Jobs)
    BY <1>1 DEF QInv, IInv, StoreInv, StoreTypes
  <2>2. DOMAIN queue = 1 .. Len(queue)
    BY <2>1, LenProperties
  <2>3. \A j \in Jobs : InQueue(j) => /\ state[j] = "starting" /\ leader[j] = "none"
                                      /\ j \notin slotReserved
    BY <1>1 DEF QInv, IInv, StoreInv, WaitingUntouched, Waiting
  <2> QED  BY <1>1, <2>2, <2>3 DEF QInv, PositionsSound, QueueSound
<1> QED  BY <1>1, QueueInvariance, PTL

(* After the shutdown began no step starts a process.                       *)
THEOREM NothingStartsInShutdown == Spec => NoStartInShutdown
<1>1. QInv /\ [Next]_vars =>
        [shuttingDown => \A j \in Jobs : leader'[j] = "alive" => leader[j] = "alive"]_vars
  BY ShutdownKept DEF QInv
<1> QED  BY <1>1, QueueInvariance, PTL DEF Spec, NoStartInShutdown

(* No reap that begins after the leader's exit was delivered may signal the *)
(* group, whose id the system may have given away.                          *)
THEOREM NoSignalAfterExit == Spec => NoLateSignal
<1>1. ASSUME QInv, Next, NEW j \in Jobs, NEW k \in Kinds,
             phase[j][k] # "reaper", phase'[j][k] = "reaper"
      PROVE  j \notin exitSeen
  <2>1. SignalStep /\ SignalsSound
    BY <1>1, SignalsKept DEF QInv
  <2> QED  BY <1>1, <2>1 DEF SignalStep, SignalsSound
<1>2. QInv /\ [Next]_vars =>
        [\A j \in Jobs, k \in Kinds :
           phase[j][k] # "reaper" /\ phase'[j][k] = "reaper" => j \notin exitSeen]_vars
  BY <1>1
<1> QED  BY <1>2, QueueInvariance, PTL DEF Spec, NoLateSignal

(* Of all the calls about a job at most one is in a reap that may signal.   *)
THEOREM OneReapSignals == Spec => []OneSignallingReap
<1>1. ASSUME QInv
      PROVE  OneSignallingReap
  <2> SUFFICES ASSUME NEW j \in Jobs
               PROVE  Cardinality({k \in Kinds : phase[j][k] = "reaper"}) <= 1
    BY DEF OneSignallingReap
  <2> DEFINE S == {k \in Kinds : phase[j][k] = "reaper"}
  <2>1. CASE S = {}
    BY <2>1, FS_EmptySet
  <2>2. CASE S # {}
    <3>1. PICK k : k \in S
      BY <2>2
    <3>2. S = {k}
      BY <1>1, <3>1 DEF QInv, SignalsSound
    <3> HIDE DEF S
    <3>3. Cardinality(S) = 1
      BY <3>2, FS_Singleton
    <3> QED  BY <3>3 DEF S
  <2> QED  BY <2>1, <2>2
<1> QED  BY <1>1, QueueInvariance, PTL

-----------------------------------------------------------------------------
(* The refinement: the state functions JobSlots gives SlotSemaphore.        *)
Holding == Held \cup lostSlots
Alive   == {j \in Jobs : GroupAlive(j)}
Done    == {j \in Jobs : /\ state[j] # "none" /\ queuePosition[j] = 0
                         /\ j \notin Held \cup lostSlots}

(* Both modules count with the same operator.                               *)
LEMMA SameCount == \A S : Semaphore!Cardinality(S) = Cardinality(S)
BY DEF Semaphore!Cardinality, Cardinality

(* Who is done: a job that neither waits nor holds a slot.                  *)
LEMMA DoneMeans ==
  ASSUME PositionsSound
  PROVE  Done = {j \in Jobs : ~Waiting(j) /\ j \notin Holding}
BY DEF PositionsSound, Done, Waiting, Holding

(* The same of the state after a step.                                      *)
LEMMA DoneMeansAfter ==
  ASSUME PositionsSound'
  PROVE  Done' = {j \in Jobs : ~Waiting(j)' /\ j \notin Holding'}
BY DEF PositionsSound, Done, Waiting, Holding

(* A job that waits holds nothing, runs nothing and is not done.            *)
LEMMA WaitersHoldNothing ==
  ASSUME IInv, PositionsSound, NEW j \in Jobs, Waiting(j)
  PROVE  j \notin Holding /\ j \notin Alive /\ j \notin Done
BY DoneMeans DEF IInv, StoreInv, WaitingUntouched, GroupsSound, GroupAlive, Holding, Alive,
   Held

(* A job run() has not seen is none the semaphore has seen.                 *)
LEMMA UnseenJobs ==
  ASSUME IInv, PositionsSound, NEW j \in Jobs, state[j] = "none"
  PROVE  j \notin Semaphore!Seen
<1>1. ~InQueue(j) /\ j \notin Holding /\ j \notin Done
  BY WaitersHoldNothing DEF Waiting, IInv, StoreInv, WaitingUntouched
<1>2. DOMAIN queue = 1 .. Len(queue)
  BY LenProperties DEF IInv, StoreInv, StoreTypes
<1> QED  BY <1>1, <1>2 DEF Semaphore!Seen, InQueue, Holding, Done

(* The slots in use, counted by their holders.                              *)
LEMMA CountHolders ==
  ASSUME IInv, NEW freed, freed \subseteq Held, NEW more, more \subseteq Jobs,
         more \cap Holding = {}
  PROVE  Semaphore!Cardinality((Holding \ freed) \cup more)
           = Cardinality(Held \ freed) + Cardinality(lostSlots) + Cardinality(more)
<1> DEFINE kept == Held \ freed
           both == kept \cup lostSlots
<1>1. /\ Held \subseteq Jobs /\ lostSlots \subseteq Jobs /\ Held \cap lostSlots = {}
  BY DEF IInv, StoreInv, StoreTypes, SlotsSound, Held
<1>2. /\ kept \subseteq Jobs /\ kept \cap lostSlots = {} /\ both \subseteq Jobs
      /\ both \cap more = {} /\ Holding \ freed = both
  BY <1>1 DEF Holding
<1> HIDE DEF kept
<1>3. Cardinality(both) = Cardinality(kept) + Cardinality(lostSlots)
  BY <1>1, <1>2, DisjointUnion
<1> HIDE DEF both
<1>4. Cardinality(both \cup more) = Cardinality(both) + Cardinality(more)
  BY <1>2, DisjointUnion
<1> QED  BY <1>2, <1>3, <1>4, SameCount DEF kept

(* A drain serves the longest prefix of the waiting jobs that fits.         *)
LEMMA DrainIsServe ==
  ASSUME IInv, PositionsSound, PositionsSound', NEW freed, Drains(freed),
         NEW c, cap' = c
  PROVE  Semaphore!Serve(Holding \ freed, freed, c)
<1> PICK n \in 0 .. Len(queue), failed \in SUBSET Jobs, spawned \in SUBSET Jobs :
      Served(freed, n, failed, spawned)
  BY DrainServes
<1> DEFINE base == Cardinality(Held \ freed) + Cardinality(lostSlots)
<1>1. Len(queue) \in Nat /\ freed \subseteq Held /\ Held \subseteq Jobs
      /\ Held \cap lostSlots = {}
  BY LenProperties DEF IInv, StoreInv, StoreTypes, SlotsSound, Held, Drains
<1>2. \A i \in 0 .. Len(queue) : Semaphore!First(i) = Front(queue, i)
  BY DEF Semaphore!First, Front
<1>3. ASSUME NEW i \in 0 .. Len(queue)
      PROVE  Semaphore!Cardinality((Holding \ freed) \cup (Front(queue, i) \ failed))
               = base + Cardinality(Front(queue, i) \ failed)
  <2>1. \A j \in Front(queue, i) : j \in Jobs /\ j \notin Holding
    BY FrontWaits, WaitersHoldNothing
  <2> DEFINE more == Front(queue, i) \ failed
  <2>2. more \subseteq Jobs /\ more \cap Holding = {}
    BY <2>1
  <2> HIDE DEF more
  <2> QED  BY <1>1, <2>2, CountHolders DEF more
<1>4. \A j \in Front(queue, n) :
        j \in Jobs /\ InQueue(j) /\ Waiting(j) /\ j \notin Holding /\ j \notin Alive
  BY FrontWaits, WaitersHoldNothing
<1>5. /\ \A i \in 0 .. n - 1 :
           Semaphore!Cardinality((Holding \ freed) \cup (Semaphore!First(i) \ failed)) < cap'
      /\ \/ n = Len(queue)
         \/ Semaphore!Cardinality((Holding \ freed) \cup (Semaphore!First(n) \ failed)) >= cap'
  <2>1. \A i \in 0 .. n - 1 : i \in 0 .. Len(queue)
    BY <1>1
  <2> QED  BY <1>2, <1>3, <2>1 DEF Served
<1>6. queue' = SubSeq(queue, n + 1, Len(queue))
  BY DEF Served
<1>7. Holding' = (Holding \ freed) \cup (Front(queue, n) \ failed)
  BY <1>1 DEF Served, Holding
<1>8. \A j \in Jobs : InQueue(j)' <=> InQueue(j) /\ j \notin Front(queue, n)
  BY QueueDropsFirst DEF Served
<1>9. \A j \in Jobs : Waiting(j)' <=> Waiting(j) /\ j \notin Front(queue, n)
  BY <1>4, <1>8 DEF Waiting, Served, Terminal, Live
<1>10. \A j \in freed : ~Waiting(j)
  BY <1>1, WaitersHoldNothing DEF Holding
<1>11. Done' = Done \cup freed \cup failed
  BY <1>1, <1>4, <1>7, <1>9, <1>10, DoneMeans, DoneMeansAfter DEF Served
<1>12. Alive' = Alive \cup spawned /\ spawned \in SUBSET (Front(queue, n) \ failed)
  <2>1. /\ orphan' = orphan /\ spawned \subseteq Front(queue, n) \ failed
        /\ \A j \in Front(queue, n) : leader'[j] = "alive" <=> j \in spawned
        /\ \A j \in Jobs \ Front(queue, n) : leader'[j] = leader[j]
    BY <1>4 DEF Served
  <2>2. \A j \in Front(queue, n) : j \in Jobs /\ ~orphan[j] /\ leader[j] # "alive"
    BY <1>4 DEF Alive, GroupAlive, IInv, StoreInv, StoreTypes
  <2> QED  BY <2>1, <2>2 DEF Alive, GroupAlive
<1>13. failed \in SUBSET Semaphore!First(n) /\ Semaphore!First(n) = Front(queue, n)
  BY <1>2 DEF Served
<1> HIDE DEF base
<1> QED  BY <1>5, <1>6, <1>7, <1>11, <1>12, <1>13
         DEF Semaphore!Serve, Holding, Alive, Done

(* A slot freed is a holder that leaves, a new cap a new limit.             *)
LEMMA DrainSteps ==
  ASSUME IInv, PositionsSound, PositionsSound'
  PROVE  /\ \A j \in Jobs : Frees(j) => Semaphore!Leave(j)
         /\ \A c \in Caps : Recaps(c) => Semaphore!SetLimit(c)
<1>1. ASSUME NEW j \in Jobs, Frees(j)
      PROVE  Semaphore!Leave(j)
  <2>1. Drains({j}) /\ cap' = cap
    BY <1>1 DEF Frees
  <2> PICK c : c = cap
    OBVIOUS
  <2>2. Semaphore!Serve(Holding \ {j}, {j}, c)
    BY <2>1, DrainIsServe
  <2>3. j \in Holding \ Alive
    BY <2>1 DEF Drains, Holding, Alive
  <2> QED  BY <2>1, <2>2, <2>3 DEF Semaphore!Leave, Semaphore!Serve, Holding, Alive
<1>2. ASSUME NEW c \in Caps, Recaps(c)
      PROVE  Semaphore!SetLimit(c)
  <2>1. Drains({}) /\ cap' = c
    BY <1>2 DEF Recaps
  <2>2. Semaphore!Serve(Holding \ {}, {}, c)
    BY <2>1, DrainIsServe
  <2>3. Holding \ {} = Holding
    OBVIOUS
  <2> QED  BY <2>1, <2>2, <2>3 DEF Semaphore!SetLimit, Holding
<1> QED  BY <1>1, <1>2

(* run(): the refusal, the arrival in the queue, the entry.                 *)
LEMMA RunSteps ==
  ASSUME IInv, PositionsSound, PositionsSound', NEW j \in Jobs,
         RunPreflightFails(j) \/ RunQueued(j) \/ RunAdmitted(j)
  PROVE  Semaphore!Refuse(j) \/ Semaphore!Arrive(j) \/ Semaphore!Enter(j)
<1> USE DEF queueVars, procVars, slotVars, restVars
<1>1. state[j] = "none" /\ Waiting(j) /\ ~InQueue(j) /\ j \notin Semaphore!Seen
  BY UnseenJobs
     DEF RunPreflightFails, RunQueued, RunAdmitted, Waiting, IInv, StoreInv, WaitingUntouched
<1>2. j \notin Holding /\ j \notin Alive /\ j \notin slotReleased
  BY <1>1, WaitersHoldNothing DEF IInv, StoreInv, WaitingUntouched, SlotsSound
<1>3. Semaphore!Cardinality(Holding) = activeSlots
  <2>1. Holding = (Holding \ {}) \cup {} /\ Held \ {} = Held
    OBVIOUS
  <2>2. Cardinality(Held) \in Nat /\ Cardinality(lostSlots) \in Nat
    BY JobSetsFinite DEF IInv, StoreInv, StoreTypes, Held
  <2>3. Semaphore!Cardinality((Holding \ {}) \cup {})
          = Cardinality(Held \ {}) + Cardinality(lostSlots) + Cardinality({})
    BY CountHolders
  <2> QED  BY <2>1, <2>2, <2>3, FS_EmptySet DEF IInv, StoreInv, SlotAccounting
<1>4. CASE RunPreflightFails(j)
  <2>1. /\ UNCHANGED <<queue, leader, orphan, slotReserved, slotReleased, lostSlots, cap>>
        /\ state' = [state EXCEPT ![j] = "failed"]
    BY <1>4 DEF RunPreflightFails, Records
  <2>2. \A i \in Jobs : Waiting(i)' <=> Waiting(i) /\ i # j
    BY <1>1, <2>1 DEF Waiting, InQueue, IInv, StoreInv, StoreTypes
  <2>3. Done' = Done \cup {j} /\ Holding' = Holding /\ Alive' = Alive
    <3>1. Holding' = Holding /\ Alive' = Alive
      BY <2>1 DEF Holding, Held, Alive, GroupAlive
    <3> QED  BY <1>2, <2>2, <3>1, DoneMeans, DoneMeansAfter
  <2> QED  BY <1>1, <2>1, <2>3 DEF Semaphore!Refuse, Holding, Alive, Done
<1>5. CASE RunQueued(j)
  <2>1. /\ UNCHANGED <<leader, orphan, slotReserved, slotReleased, lostSlots, cap>>
        /\ queue' = Append(queue, j) /\ state' = [state EXCEPT ![j] = "starting"]
        /\ queue # <<>> \/ activeSlots >= cap
    BY <1>5 DEF RunQueued, Records, Queues
  <2>2. \A i \in Jobs : InQueue(i)' <=> InQueue(i) \/ i = j
    BY <2>1, QueuedAppend DEF IInv, StoreInv, StoreTypes
  <2>3. \A i \in Jobs : Waiting(i)' <=> Waiting(i)
    BY <1>1, <2>1, <2>2 DEF Waiting, IInv, StoreInv, StoreTypes
  <2>4. Done' = Done /\ Holding' = Holding /\ Alive' = Alive
    <3>1. Holding' = Holding /\ Alive' = Alive
      BY <2>1 DEF Holding, Held, Alive, GroupAlive
    <3> QED  BY <2>3, <3>1, DoneMeans, DoneMeansAfter
  <2> QED  BY <1>1, <1>3, <2>1, <2>4 DEF Semaphore!Arrive, Holding, Alive, Done
<1>6. CASE RunAdmitted(j)
  <2> PICK outcome \in [{j} -> SpawnOutcomes \ {"preflight"}] :
        /\ BeginSpawn({j}, outcome, [state EXCEPT ![j] = "starting"], killConfirmed)
        /\ slotReserved' = slotReserved \cup {j}
        /\ IF outcome[j] = "throws"
             THEN slotReleased' = slotReleased \cup {j} /\ activeSlots' = activeSlots
             ELSE slotReleased' = slotReleased /\ activeSlots' = activeSlots + 1
    BY <1>6 DEF RunAdmitted
  <2>1. /\ queue = <<>> /\ activeSlots < cap
        /\ UNCHANGED <<queue, orphan, lostSlots, cap>>
        /\ leader' = [i \in Jobs |-> IF i = j THEN LeaderAfter(outcome[j]) ELSE leader[i]]
        /\ \A i \in Jobs \ {j} : state'[i] = state[i]
        /\ state'[j] \in {"failed", "starting"}
    BY <1>6 DEF RunAdmitted, Admits, BeginSpawn, IInv, StoreInv, StoreTypes
  <2>2. \A i \in Jobs : Waiting(i)' <=> Waiting(i) /\ i # j
    BY <1>1, <2>1 DEF Waiting, InQueue
  <2>3. ~orphan[j] /\ leader[j] # "alive"
    BY <1>2 DEF Alive, GroupAlive, IInv, StoreInv, StoreTypes
  <2>4. CASE outcome[j] = "throws"
    <3>1. Holding' = Holding
      BY <1>2, <2>1, <2>4 DEF Holding, Held
    <3>2. Alive' = Alive
      BY <2>1, <2>3, <2>4 DEF Alive, GroupAlive, LeaderAfter
    <3>3. Done' = Done \cup {j}
      BY <1>2, <2>2, <3>1, DoneMeans, DoneMeansAfter
    <3> QED  BY <1>1, <2>1, <3>1, <3>2, <3>3 DEF Semaphore!Refuse, Holding, Alive, Done
  <2>5. CASE outcome[j] # "throws"
    <3>1. Holding' = Holding \cup {j}
      BY <1>2, <2>1, <2>5 DEF Holding, Held
    <3>2. Alive' = Alive \/ Alive' = Alive \cup {j}
      BY <2>1, <2>3 DEF Alive, GroupAlive
    <3>3. Done' = Done
      BY <1>1, <2>2, <3>1, DoneMeans, DoneMeansAfter
    <3>4. Alive' \in {Alive, Alive \cup {j}}
      BY <3>2
    <3> QED  BY <1>1, <1>3, <2>1, <3>1, <3>3, <3>4
             DEF Semaphore!Enter, Holding, Alive, Done
  <2> QED  BY <2>4, <2>5
<1> QED  BY <1>4, <1>5, <1>6

(* The semaphore's variables, as JobSlots gives them.                       *)
Same == UNCHANGED <<queue, Holding, Alive, Done, cap>>

LEMMA SameIsStutter == Same => UNCHANGED Semaphore!vars
BY DEF Same, Semaphore!vars, Holding, Alive, Done

(* Processes that end and start: a holder may stop, nothing else.           *)
LEMMA ProcessSteps ==
  ASSUME IInv, PositionsSound, PositionsSound', NEW j \in Jobs,
         LeaderDies(j) \/ OrphanStarts(j) \/ OrphanDies(j)
  PROVE  Semaphore!Stop(j) \/ Same
<1>1. /\ UNCHANGED <<state, queue, slotReserved, slotReleased, lostSlots, cap, queuePosition>>
      /\ \A i \in Jobs \ {j} : leader'[i] = leader[i] /\ orphan'[i] = orphan[i]
      /\ GroupAlive(j)' => GroupAlive(j)
  BY DEF LeaderDies, OrphanStarts, OrphanDies, recordVars, queueVars, slotVars, restVars,
         GroupAlive, IInv, StoreInv, StoreTypes
<1>2. Holding' = Holding /\ Done' = Done
  BY <1>1 DEF Holding, Held, Done
<1>3. Alive' = Alive \/ Alive' = Alive \ {j}
  BY <1>1 DEF Alive, GroupAlive
<1> QED  BY <1>1, <1>2, <1>3 DEF Semaphore!Stop, Same, Holding, Alive, Done

(* kill() of a queued job takes one job out of the queue, the shutdown all. *)
LEMMA CancelSteps ==
  ASSUME IInv, PositionsSound, PositionsSound',
         BeginShutdown \/ \E j \in Jobs : KillQueued(j)
  PROVE  Semaphore!CancelAll \/ \E i \in 1 .. Len(queue) : Semaphore!Cancel(i)
<1> USE DEF procVars, slotVars, restVars
<1>1. ASSUME NEW j \in Jobs, KillQueued(j)
      PROVE  \E i \in 1 .. Len(queue) : Semaphore!Cancel(i)
  <2> PICK i \in DOMAIN queue :
        /\ queue[i] = j
        /\ queue' = SubSeq(queue, 1, i - 1) \o SubSeq(queue, i + 1, Len(queue))
    BY <1>1 DEF KillQueued
  <2>1. queue \in Seq(Jobs) /\ QueueDistinct /\ i \in 1 .. Len(queue) /\ InQueue(j)
    BY LenProperties DEF IInv, StoreInv, StoreTypes, InQueue
  <2>2. /\ UNCHANGED <<leader, orphan, slotReserved, slotReleased, lostSlots, cap>>
        /\ state' = [state EXCEPT ![j] = "killed"]
    BY <1>1 DEF KillQueued, Records, Marked
  <2>3. j \notin Holding /\ Waiting(j)
    BY <2>1, WaitersHoldNothing DEF Waiting
  <2>4. \A x \in Jobs : Waiting(x)' <=> Waiting(x) /\ x # j
    <3>1. /\ Len(queue') = Len(queue) - 1 /\ queue' \in Seq(Jobs)
          /\ \A x \in 1 .. Len(queue) - 1 : queue'[x] = queue[IF x < i THEN x ELSE x + 1]
      BY <2>1, RemoveElement
    <3>2. \A x \in Jobs : InQueue(x)' => InQueue(x) /\ x # j
      BY <2>1, <3>1, QueueRemove
    <3>3. ASSUME NEW x \in Jobs, InQueue(x), x # j
          PROVE  InQueue(x)'
      <4>1. state'[x] = "starting" /\ leader'[x] = "none"
        BY <2>2, <3>3 DEF IInv, StoreInv, StoreTypes, WaitingUntouched, Waiting
      <4> QED  BY <4>1 DEF PositionsSound
    <3> QED  BY <2>2, <3>2, <3>3 DEF Waiting, IInv, StoreInv, StoreTypes
  <2>5. Holding' = Holding /\ Alive' = Alive
    BY <2>2 DEF Holding, Held, Alive, GroupAlive
  <2>6. Done' = Done \cup {queue[i]}
    BY <2>3, <2>4, <2>5, DoneMeans, DoneMeansAfter
  <2>7. Semaphore!Cancel(i)
    BY <2>2, <2>5, <2>6 DEF Semaphore!Cancel, Holding, Alive, Done
  <2> QED  BY <2>1, <2>7
<1>2. CASE BeginShutdown
  <2> DEFINE queued == Front(queue, Len(queue))
  <2>1. /\ state' = [j \in Jobs |-> IF j \in queued THEN "killed" ELSE state[j]]
        /\ queue' = <<>>
        /\ UNCHANGED <<leader, orphan, slotReserved, slotReleased, lostSlots, cap>>
    BY <1>2 DEF BeginShutdown, Records
  <2>2. \A j \in Jobs : j \in queued <=> InQueue(j)
    BY DEF Front, InQueue
  <2>3. \A j \in queued : j \in Jobs /\ Waiting(j) /\ j \notin Holding
    <3>1. Len(queue) \in 0 .. Len(queue)
      BY LenProperties DEF IInv, StoreInv, StoreTypes
    <3> QED  BY <3>1, FrontWaits, WaitersHoldNothing
  <2> HIDE DEF queued
  <2>4. \A j \in Jobs : ~InQueue(j)'
    BY <2>1, EmptySeq DEF InQueue
  <2>5. \A j \in Jobs : Waiting(j)' <=> Waiting(j) /\ j \notin queued
    BY <2>1, <2>2, <2>4 DEF Waiting, IInv, StoreInv, WaitingUntouched
  <2>6. Holding' = Holding /\ Alive' = Alive
    BY <2>1 DEF Holding, Held, Alive, GroupAlive
  <2>7. Done' = Done \cup queued
    BY <2>3, <2>5, <2>6, DoneMeans, DoneMeansAfter
  <2>8. Semaphore!First(Len(queue)) = queued
    BY DEF Semaphore!First, queued, Front
  <2> QED  BY <2>1, <2>6, <2>7, <2>8 DEF Semaphore!CancelAll, Holding, Alive, Done
<1> QED  BY <1>1, <1>2

(* Records that change, and a purge: the semaphore does not move.           *)
LEMMA StutterSteps ==
  ASSUME IInv, PositionsSound, PositionsSound', Quiet \/ \E j \in Jobs : Purge(j)
  PROVE  Same
<1> USE DEF procVars, slotVars, queueVars, restVars
<1>1. CASE Quiet
  <2> PICK st \in [Jobs -> States], kc \in [Jobs -> Confirmations] :
        Written(st, kc) /\ Rewrites(st, kc)
    BY <1>1 DEF Quiet
  <2>1. \A j \in Jobs : Waiting(j)' <=> Waiting(j)
    BY <1>1 DEF Quiet, Written, GoodRecords, Rewrites, Waiting, InQueue, Terminal, Live
  <2>2. Holding' = Holding /\ Alive' = Alive
    BY <1>1 DEF Quiet, Holding, Held, Alive, GroupAlive
  <2> QED  BY <1>1, <2>1, <2>2, DoneMeans, DoneMeansAfter DEF Quiet, Same
<1>2. ASSUME NEW j \in Jobs, Purge(j)
      PROVE  Same
  <2>1. /\ state[j] \in Terminal /\ state' = [state EXCEPT ![j] = "purged"]
        /\ UNCHANGED <<queue, leader, orphan, cap>>
        /\ slotReleased' = slotReleased \ {j} /\ slotReserved' = slotReserved \ {j}
        /\ lostSlots' = lostSlots \cup ({j} \cap Held)
    BY <1>2 DEF Purge, Expired, Records, Unreserved
  <2>2. \A i \in Jobs : Waiting(i)' <=> Waiting(i)
    BY <2>1 DEF Waiting, InQueue, Terminal, IInv, StoreInv, StoreTypes
  <2>3. Alive' = Alive
    BY <2>1 DEF Alive, GroupAlive
  <2>4. Holding' = Holding
    BY <2>1 DEF Holding, Held
  <2> QED  BY <2>1, <2>2, <2>3, <2>4, DoneMeans, DoneMeansAfter DEF Same
<1> QED  BY <1>1, <1>2

(* Every step of the job store is a step of the semaphore or a stutter.     *)
LEMMA StepIsSemaphoreStep ==
  ASSUME QInv, QInv', Next
  PROVE  Semaphore!Next \/ UNCHANGED Semaphore!vars
<1>1. IInv /\ PositionsSound /\ PositionsSound'
  BY DEF QInv
<1>2. StoreClass
  BY <1>1, EveryStep
<1>3. CASE \E j \in Jobs : Frees(j)
  BY <1>1, <1>3, DrainSteps DEF Semaphore!Next
<1>4. CASE \E c \in Caps : Recaps(c)
  BY <1>1, <1>4, DrainSteps DEF Semaphore!Next
<1>5. CASE \E j \in Jobs : RunPreflightFails(j) \/ RunQueued(j) \/ RunAdmitted(j)
  BY <1>1, <1>5, RunSteps DEF Semaphore!Next
<1>6. CASE \E j \in Jobs : LeaderDies(j) \/ OrphanStarts(j) \/ OrphanDies(j)
  BY <1>1, <1>6, ProcessSteps, SameIsStutter DEF Semaphore!Next
<1>7. CASE BeginShutdown \/ \E j \in Jobs : KillQueued(j)
  BY <1>1, <1>7, CancelSteps DEF Semaphore!Next
<1>8. CASE Quiet \/ \E j \in Jobs : Purge(j)
  BY <1>1, <1>8, StutterSteps, SameIsStutter
<1> QED  BY <1>2, <1>3, <1>4, <1>5, <1>6, <1>7, <1>8 DEF StoreClass

(* JobSlots implements SlotSemaphore: with every reap, retry, kill, purge   *)
(* and shutdown the job store is a FIFO semaphore over its cap.             *)
THEOREM SlotsAreASemaphore == Spec => ImplementsSemaphore
<1>1. Init => Semaphore!Init
  BY DEF Init, Semaphore!Init, Held, GroupAlive
<1>2. QInv /\ QInv' /\ [Next]_vars => [Semaphore!Next]_(Semaphore!vars)
  <2>1. UNCHANGED vars => UNCHANGED Semaphore!vars
    BY DEF vars, storeVars, recordVars, procVars, queueVars, slotVars, restVars,
           Semaphore!vars, Held, GroupAlive
  <2> QED  BY <2>1, StepIsSemaphoreStep
<1> QED  BY <1>1, <1>2, QueueInvariance, PTL DEF Spec, ImplementsSemaphore, Semaphore!Spec

=============================================================================
