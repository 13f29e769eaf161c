-------------------------- MODULE RepositoryProofs --------------------------
(***************************************************************************)
(* The repository's own programs, for any wrappers, files, candidates and   *)
(* versions.                                                                *)
(*                                                                          *)
(* The coverage lock: the wrappers come one after the other, so a step is   *)
(* the one active wrapper's, or of a command, or of the system (Alone,      *)
(* MovedKeeps).  LockInv says what a wrapper carries at each step; RunInv   *)
(* ties the files a floor check reads to the last test run, as long as no   *)
(* two commands overlapped.                                                 *)
(*                                                                          *)
(* The verdicts: what the guards over the pins accept (PinInv), how a test  *)
(* run's clock stands to the files that run (TestInv), and what the results *)
(* of a sweep tell of its runs (SweepInv).                                  *)
(***************************************************************************)
EXTENDS CoverageGate, RepositoryVerdicts, FiniteSetTheorems, SequenceTheorems, WellFoundedInduction, TLAPS

Steps == Returned \cup {"checkOwner", "checkFloor", "writeWorking", "spawn", "writePid", "running",
                        "writeFloorPid", "capture", "release", "abandon"}

LockRecord ==
  [phase : Phases, owner : Workers \cup {NoOne}, ownerKnown : BOOLEAN,
   headSha : Heads \cup {NoOne}, floorJob : Floors \cup {NoOne},
   floorIdentity : Floors \cup {NoOne}]

LockTypeOK ==
  /\ pc \in [Wrappers -> Steps] /\ seen \in [Wrappers -> LockRecord] /\ lock \in LockRecord
  /\ wrapper \in [Wrappers -> ProcStates] /\ command \in [Wrappers -> ProcStates]
  /\ head \in Heads /\ mishaps \in Nat

(* A record on disk or in a wrapper's hands.                                *)
Sound(r) ==
  /\ r \in LockRecord
  /\ r.floorIdentity \in {NoOne, r.floorJob}
  /\ r.phase \in {"none", "working", "publishing"} => r.floorJob = NoOne
  /\ r.phase \in {"floor-running", "done"} => r.floorJob \in Floors
  /\ r.phase # "none" => r.owner \in Workers

(* What wrapper w, at step p, carries while the lock is l.                  *)
Carries(w, p, r, l) ==
  /\ Sound(r)
  /\ p \in {"checkOwner", "checkFloor"} => r = l
  /\ p = "checkOwner" => w \in Workers /\ r.phase \notin {"none", "done"}
  /\ p = "checkFloor" =>
       r.phase \in {"floor-running", "done"} /\ (w \in Workers => r.phase = "floor-running")
  /\ p \in {"writeWorking", "writePid"} => w \in Workers
  /\ p \in {"writeFloorPid", "capture"} => w \in Floors
  /\ p \in {"spawn", "writePid", "running"} /\ w \in Workers => r.phase = "working" /\ r.owner = w
  /\ p = "spawn" /\ w \in Workers => l = r
  /\ p \in {"spawn", "writeFloorPid"} /\ w \in Floors =>
       r.floorIdentity = NoOne /\ r.phase \in {"publishing", "floor-running", "done"}
  /\ p = "spawn" => l.floorJob = r.floorJob
  /\ p \in {"capture", "running"} /\ w \in Floors => r.phase = "floor-running" /\ r.floorJob = w

(* Before it is spawned a command is unborn, and after its wrapper returned *)
(* by itself it is gone.                                                    *)
CommandFits(p, c) ==
  /\ p \in {"idle", "refused", "checkOwner", "checkFloor", "writeWorking", "spawn"} => c = "unborn"
  /\ p \in {"writePid", "writeFloorPid", "capture", "running"} => c # "unborn"
  /\ p \in {"release", "finished", "released", "kept"} => c # "alive"

Active(w) == pc[w] \notin Returned
Alone(w)  == \A v \in Wrappers : v = w \/ ~Active(v)

(* Nobody names an owner that removed its record.                           *)
OwnerStands(r) == r.owner # NoOne => pc[r.owner] # "released"

LockInv ==
  /\ LockTypeOK
  /\ \A w \in Wrappers : Active(w) => Alone(w)
  /\ Sound(lock) /\ OwnerStands(lock)
  /\ \A w \in Wrappers :
       /\ Carries(w, pc[w], seen[w], lock) /\ CommandFits(pc[w], command[w])
       /\ Active(w) => OwnerStands(seen[w])
       /\ pc[w] = "spawn" => lock.floorJob = NoOne \/ command[lock.floorJob] # "alive"

(* The places of a command.                                                 *)
RunRecord ==
  [at : {"none", "begin", "tests", "complete", "report", "exiting",
         "completion", "token", "summary", "void", "unreadable", "judged"},
   batch : Nat, ended : BOOLEAN, flushed : BOOLEAN, headSha : Heads \cup {NoOne},
   token : Workers \cup {NoOne}, whole : BOOLEAN]

RunTypeOK ==
  /\ run \in [Wrappers -> RunRecord]
  /\ truncated \in SUBSET Markers
  /\ completion \in [headSha : Heads \cup {NoOne}, runToken : Workers \cup {NoOne}]
  /\ runToken \in Workers \cup {NoOne} /\ latest \in Workers \cup {NoOne}
  /\ summary \in [run : Workers \cup {NoOne}, whole : BOOLEAN]
  /\ overlapped \in BOOLEAN

PlacesInv ==
  /\ \A w \in Workers : run[w].at \in {"none", "begin", "tests", "complete", "report", "exiting"}
  /\ \A f \in Floors : run[f].at \in {"none", "begin", "completion", "token", "summary",
                                      "void", "unreadable", "judged"}

(* A command that does not run has no place, unless its wrapper, failing,   *)
(* ended it at one, whatever then became of the wrapper.                    *)
Quits == {"abandon", "release", "released", "kept", "killed"}

EndedInv ==
  \A w \in Wrappers : command[w] # "alive" /\ pc[w] \notin Quits => run[w].at = "none"

LatestOver == latest \in Workers /\ run[latest].at = "none"

(* A record that lets a floor check start is of the last run, and that is   *)
(* over.                                                                    *)
OfLatest(r) == r.phase \in {"publishing", "floor-running", "done"} => r.owner = latest /\ LatestOver

LatestInv ==
  /\ completion.runToken # NoOne => command[completion.runToken] # "unborn"
  /\ \A w \in Workers : pc[w] \in {"writePid", "running"} => latest = w
  /\ OfLatest(lock) /\ \A w \in Wrappers : Active(w) => OfLatest(seen[w])

(* What the last run left, by where it is, if its token is the marker's.    *)
MarkerOfLatest ==
  latest # NoOne /\ completion.runToken = latest =>
    /\ completion.headSha = run[latest].headSha
    /\ \/ run[latest].at = "report" /\ run[latest].whole
       \/ run[latest].at \in {"exiting", "none"} /\ summary = [run |-> latest, whole |-> TRUE]

(* What a floor check has seen is still so.                                 *)
StillSo(f) ==
  /\ LatestOver
  /\ run[f].at \in {"token", "summary"} =>
       completion.headSha = head /\ run[f].token = completion.runToken
  /\ run[f].at = "summary" => runToken = run[f].token /\ runToken # NoOne

Apart ==
  /\ \A v, w \in Wrappers : command[v] = "alive" /\ command[w] = "alive" => v = w
  /\ \A w \in Workers : command[w] = "alive" => latest = w
  /\ MarkerOfLatest
  /\ \A f \in Floors : command[f] = "alive" => StillSo(f)

RunInv == RunTypeOK /\ PlacesInv /\ EndedInv /\ LatestInv /\ (overlapped \/ Apart)

IInv == LockInv /\ RunInv

-----------------------------------------------------------------------------
(* The lock's half.                                                         *)

LEMMA NoRecordIsSound == Sound(NoRecord) /\ OwnerStands(NoRecord)
  BY DEF Sound, NoRecord, LockRecord, Phases, OwnerStands

(* What a step of the only active wrapper w has to establish.               *)
LEMMA MovedKeeps ==
  ASSUME LockInv, NEW w \in Wrappers, Alone(w), NEW p \in Steps, NEW r, NEW l,
         NEW c \in ProcStates,
         pc' = [pc EXCEPT ![w] = p], seen' = [seen EXCEPT ![w] = r], lock' = l,
         command' = [command EXCEPT ![w] = c],
         wrapper' \in [Wrappers -> ProcStates], head' \in Heads, mishaps' \in Nat,
         Carries(w, p, r, l), Sound(l), CommandFits(p, c),
         p = "released" => l.owner # w,
         OwnerStands(l), p \notin Returned => OwnerStands(r),
         p = "spawn" => l.floorJob = NoOne \/ command[l.floorJob] # "alive"
  PROVE  LockInv'
<1>1. pc \in [Wrappers -> Steps] /\ seen \in [Wrappers -> LockRecord]
      /\ command \in [Wrappers -> ProcStates]
  BY DEF LockInv, LockTypeOK
<1>2. pc'[w] = p /\ seen'[w] = r /\ command'[w] = c
  BY <1>1
<1>3. \A v \in Wrappers : v # w =>
        pc'[v] = pc[v] /\ seen'[v] = seen[v] /\ command'[v] = command[v] /\ pc[v] \in Returned
  BY <1>1 DEF Alone, Active
<1>4. r \in LockRecord /\ l \in LockRecord
  BY DEF Carries, Sound
<1>5. LockTypeOK'
  BY <1>1, <1>4 DEF LockTypeOK
<1>6. (\A v \in Wrappers : Active(v) => Alone(v))'
  BY <1>2, <1>3 DEF Active, Alone
<1>7. l.owner \in Wrappers \cup {NoOne} /\ r.owner \in Wrappers \cup {NoOne}
      /\ l.floorJob \in Wrappers \cup {NoOne}
  BY <1>4 DEF LockRecord, Wrappers
<1>8. Sound(lock)' /\ OwnerStands(lock)'
  <2>1. Sound(l)'
    BY DEF Sound
  <2> QED BY <2>1, <1>2, <1>3, <1>7 DEF OwnerStands, Sound
<1>9. ASSUME NEW v \in Wrappers
      PROVE  /\ Carries(v, pc'[v], seen'[v], lock') /\ CommandFits(pc'[v], command'[v])
             /\ Active(v)' => OwnerStands(seen[v])'
             /\ pc'[v] = "spawn" => lock'.floorJob = NoOne \/ command'[lock'.floorJob] # "alive"
  <2>1. CASE v = w
    <3>1. Active(w)' => OwnerStands(seen[w])'
      <4>1. CASE r.owner = w
        BY <4>1, <1>2 DEF OwnerStands, Active, Returned
      <4>2. CASE r.owner # w
        BY <4>2, <1>2, <1>3, <1>7 DEF OwnerStands, Active
      <4> QED BY <4>1, <4>2
    <3>2. p = "spawn" => l.floorJob = NoOne \/ command'[l.floorJob] # "alive"
      BY <1>2, <1>3, <1>7 DEF CommandFits
    <3> QED BY <2>1, <3>1, <3>2, <1>2
  <2>2. CASE v # w
    <3>1. pc[v] \in Returned /\ Sound(seen[v]) /\ CommandFits(pc[v], command[v])
      BY <2>2, <1>3 DEF LockInv, Carries
    <3>2. Carries(v, pc[v], seen[v], l)
      BY <3>1 DEF Carries, Returned
    <3> QED BY <2>2, <3>1, <3>2, <1>3 DEF Active, Returned
  <2> QED BY <2>1, <2>2
<1> QED BY <1>5, <1>6, <1>8, <1>9 DEF LockInv, Carries, CommandFits, Sound

LEMMA MishapsCount == ASSUME LockInv, Mishap \/ Fine PROVE mishaps' \in Nat
  BY DEF LockInv, LockTypeOK, Mishap, Fine

LEMMA AWrapper ==
  ASSUME LockInv, NEW w \in Wrappers
  PROVE  /\ pc[w] \in Steps /\ Sound(seen[w]) /\ Carries(w, pc[w], seen[w], lock)
         /\ CommandFits(pc[w], command[w]) /\ command[w] \in ProcStates
         /\ Active(w) => Alone(w) /\ OwnerStands(seen[w])
         /\ Sound(lock) /\ OwnerStands(lock)
         /\ [seen EXCEPT ![w] = seen[w]] = seen /\ [command EXCEPT ![w] = command[w]] = command
         /\ wrapper \in [Wrappers -> ProcStates] /\ head \in Heads
  BY DEF LockInv, LockTypeOK, Carries

LEMMA StartKeeps ==
  ASSUME LockInv, NEW w \in Wrappers, WorkerStarts(w) \/ FloorStarts(w)
  PROVE  LockInv'
<1>1. Alone(w) /\ pc[w] = "idle" /\ seen' = [seen EXCEPT ![w] = lock] /\ lock' = lock
      /\ command' = [command EXCEPT ![w] = "unborn"]
  <2>1. command[w] = "unborn"
    BY AWrapper DEF CommandFits, WorkerStarts, FloorStarts, Start
  <2> QED BY <2>1, AWrapper DEF WorkerStarts, FloorStarts, Start, Alone, Active
<1>2. wrapper' \in [Wrappers -> ProcStates] /\ head' \in Heads /\ mishaps' \in Nat
  <2>1. wrapper \in [Wrappers -> ProcStates] /\ wrapper' = [wrapper EXCEPT ![w] = "alive"]
    BY AWrapper DEF WorkerStarts, FloorStarts, Start
  <2>2. wrapper' \in [Wrappers -> ProcStates]
    BY <2>1 DEF ProcStates
  <2> QED BY <2>2, AWrapper, MishapsCount DEF WorkerStarts, FloorStarts
<1>3. Sound(lock) /\ OwnerStands(lock)
  BY AWrapper
<1>4. PICK p \in Steps :
        /\ pc' = [pc EXCEPT ![w] = p]
        /\ p \in {"writeWorking", "checkOwner", "refused", "spawn", "checkFloor"}
        /\ p = "writeWorking" => w \in Workers
        /\ p = "checkOwner" => w \in Workers /\ lock.phase \notin {"none", "done"}
        /\ p = "spawn" => w \in Floors /\ lock.phase = "publishing"
        /\ p = "checkFloor" => w \in Floors /\ lock.phase \in {"floor-running", "done"}
  BY DEF WorkerStarts, FloorStarts, Start, Goes, Steps, Returned
<1>5. Carries(w, p, lock, lock)
  BY <1>3, <1>4, LockAssumption DEF Carries, Sound
<1>6. p = "spawn" => lock.floorJob = NoOne
  BY <1>3, <1>4 DEF Sound
<1>7. CommandFits(p, "unborn") /\ "unborn" \in ProcStates
  BY <1>4 DEF CommandFits, ProcStates
<1> QED BY <1>1, <1>2, <1>3, <1>4, <1>5, <1>6, <1>7, MovedKeeps

(* A step of an active wrapper that writes r, or fails to.                  *)
LEMMA WriteKeeps ==
  ASSUME LockInv, NEW w \in Wrappers, Active(w), NEW r, NEW p \in Steps, NEW q \in Steps,
         Writes(w, r, p, q), UNCHANGED <<wrapper, command, head>>,
         Sound(r), OwnerStands(r), Carries(w, p, r, r), Carries(w, q, seen[w], lock),
         CommandFits(p, command[w]), CommandFits(q, command[w]),
         p # "released", q \notin {"released", "spawn"}, p = "spawn" => r.floorJob = NoOne
  PROVE  LockInv'
<1>1. mishaps' \in Nat /\ wrapper' \in [Wrappers -> ProcStates] /\ head' \in Heads
      /\ command' = [command EXCEPT ![w] = command[w]] /\ Alone(w)
  BY AWrapper, MishapsCount DEF Writes
<1>2. CASE pc' = [pc EXCEPT ![w] = p] /\ seen' = [seen EXCEPT ![w] = r] /\ lock' = r
  BY <1>1, <1>2, AWrapper, MovedKeeps
<1>3. CASE pc' = [pc EXCEPT ![w] = q] /\ UNCHANGED <<lock, seen>>
  <2>1. seen' = [seen EXCEPT ![w] = seen[w]] /\ lock' = lock
    BY <1>3, AWrapper
  <2> QED BY <1>1, <1>3, <2>1, AWrapper, MovedKeeps
<1> QED BY <1>2, <1>3 DEF Writes, Goes

(* A live process always blocks; a stranger under its pid only if no        *)
(* identity was captured.                                                   *)
LEMMA VerdictsOfAPid ==
  ASSUME NEW status \in ProcStates, NEW p, p # NoOne, NEW id \in {NoOne, p},
         NEW verdict \in Verdicts(status, id, p)
  PROVE  /\ ~Blocks(verdict) => status # "alive"
         /\ Blocks(verdict) /\ verdict # "observer-failure" =>
              status = "alive" \/ (status = "recycled" /\ id = NoOne)
  BY DEF Verdicts, Blocks, ProcStates

LEMMA CheckOwnerKeeps == ASSUME LockInv, NEW w \in Wrappers, CheckOwner(w) PROVE LockInv'
<1>1. /\ Active(w) /\ pc[w] = "checkOwner" /\ lock' = lock
      /\ seen' = [seen EXCEPT ![w] = seen[w]] /\ command' = [command EXCEPT ![w] = "unborn"]
      /\ seen[w] = lock /\ w \in Workers
  BY AWrapper DEF CheckOwner, Active, Returned, CommandFits, Carries
<1>2. wrapper' \in [Wrappers -> ProcStates] /\ head' \in Heads /\ mishaps' \in Nat
  BY AWrapper, MishapsCount DEF CheckOwner, Observed
<1>3. PICK p \in {"refused", "checkFloor", "writeWorking"} :
        /\ pc' = [pc EXCEPT ![w] = p]
        /\ p = "checkFloor" => seen[w].phase = "floor-running"
  BY DEF CheckOwner, Goes
<1>4. p \in Steps
  BY DEF Steps, Returned
<1>5. Carries(w, p, seen[w], lock)
  BY <1>1, <1>3, AWrapper DEF Carries
<1>6. CommandFits(p, "unborn") /\ "unborn" \in ProcStates
  BY <1>3 DEF CommandFits, ProcStates
<1> QED BY <1>1, <1>2, <1>3, <1>4, <1>5, <1>6, AWrapper, MovedKeeps

LEMMA ReclaimedIsSound ==
  ASSUME NEW r, Sound(r)
  PROVE  /\ Sound(Reclaimed(r)) /\ Reclaimed(r).phase = r.phase
         /\ Reclaimed(r).owner = r.owner /\ Reclaimed(r).floorJob = r.floorJob
         /\ Reclaimed(r).floorIdentity = NoOne
  BY DEF Sound, Reclaimed, LockRecord

LEMMA CheckFloorKeeps == ASSUME LockInv, NEW w \in Wrappers, CheckFloor(w) PROVE LockInv'
<1> DEFINE r == Reclaimed(seen[w])
<1>1. /\ Active(w) /\ pc[w] = "checkFloor" /\ lock' = lock
      /\ seen' = [seen EXCEPT ![w] = r] /\ command' = [command EXCEPT ![w] = "unborn"]
      /\ seen[w] = lock /\ lock.phase \in {"floor-running", "done"}
      /\ w \in Workers => lock.phase = "floor-running"
  <2>1. seen' = [seen EXCEPT ![w] = r]
    BY AWrapper DEF CheckFloor, LockInv, LockTypeOK
  <2> QED BY <2>1, AWrapper DEF CheckFloor, Active, Returned, CommandFits, Carries
<1>2. wrapper' \in [Wrappers -> ProcStates] /\ head' \in Heads /\ mishaps' \in Nat
  BY AWrapper, MishapsCount DEF CheckFloor, Observed
<1>3. PICK verdict \in FloorVerdicts(seen[w]) :
        pc' = [pc EXCEPT ![w] = IF Blocks(verdict) THEN "refused"
                                ELSE IF w \in Workers THEN "writeWorking" ELSE "spawn"]
  BY DEF CheckFloor, Goes
<1>4. ~Blocks(verdict) => command[lock.floorJob] # "alive"
  <2>1. lock.floorJob \in Floors /\ lock.floorIdentity \in {NoOne, lock.floorJob}
    BY <1>1, AWrapper DEF Sound
  <2>2. command[lock.floorJob] \in ProcStates /\ lock.floorJob # NoOne
    BY <2>1, LockAssumption DEF LockInv, LockTypeOK, Wrappers
  <2> QED BY <1>1, <1>3, <2>1, <2>2, VerdictsOfAPid DEF FloorVerdicts
<1>5. PICK p \in {"refused", "writeWorking", "spawn"} :
        /\ pc' = [pc EXCEPT ![w] = p]
        /\ p = "writeWorking" => w \in Workers
        /\ p = "spawn" => w \in Floors /\ command[lock.floorJob] # "alive"
  BY <1>3, <1>4 DEF Wrappers
<1>6. p \in Steps
  BY DEF Steps, Returned
<1>7. /\ Sound(r) /\ r.phase = lock.phase /\ r.owner = lock.owner
      /\ r.floorJob = lock.floorJob /\ r.floorIdentity = NoOne
  BY <1>1, AWrapper, ReclaimedIsSound
<1> HIDE DEF r
<1>8. Carries(w, p, r, lock)
  BY <1>1, <1>5, <1>7, LockAssumption DEF Carries
<1>9. OwnerStands(r) /\ CommandFits(p, "unborn") /\ "unborn" \in ProcStates
  BY <1>5, <1>7, AWrapper DEF CommandFits, ProcStates, OwnerStands
<1> QED BY <1>1, <1>2, <1>5, <1>6, <1>8, <1>9, AWrapper, MovedKeeps


(* What the wrappers write.                                                 *)
WorkingOf(w, known, h) == [NoRecord EXCEPT !.phase = "working", !.owner = w,
                                           !.ownerKnown = known, !.headSha = h]
FloorRunning(r, f)     == [r EXCEPT !.phase = "floor-running", !.floorJob = f]

LEMMA WorkingRecord ==
  ASSUME NEW w \in Workers, NEW known \in BOOLEAN, NEW h \in Heads
  PROVE  /\ Sound(WorkingOf(w, known, h)) /\ WorkingOf(w, known, h).phase = "working"
         /\ WorkingOf(w, known, h).owner = w /\ WorkingOf(w, known, h).floorJob = NoOne
  BY DEF Sound, LockRecord, NoRecord, Phases, WorkingOf

LEMMA PublishingRecord ==
  ASSUME NEW r, Sound(r), r.phase = "working", NEW s, s = [r EXCEPT !.phase = "publishing"]
  PROVE  Sound(s) /\ s.phase = "publishing" /\ s.owner = r.owner
  BY DEF Sound, LockRecord, Phases

LEMMA FloorRunningRecord ==
  ASSUME NEW r, Sound(r), r.floorIdentity = NoOne, r.phase # "none", NEW f \in Floors
  PROVE  /\ Sound(FloorRunning(r, f)) /\ FloorRunning(r, f).phase = "floor-running"
         /\ FloorRunning(r, f).owner = r.owner /\ FloorRunning(r, f).floorJob = f
  BY DEF Sound, LockRecord, Phases, FloorRunning

LEMMA IdentifiedRecord ==
  ASSUME NEW r, Sound(r), NEW f \in Floors, r.phase = "floor-running", r.floorJob = f,
         NEW s, s = [r EXCEPT !.floorIdentity = f]
  PROVE  Sound(s) /\ s.phase = "floor-running" /\ s.owner = r.owner /\ s.floorJob = f
  BY DEF Sound, LockRecord, Phases

LEMMA DoneRecord ==
  ASSUME NEW r, Sound(r), NEW f \in Floors, r.phase = "floor-running", r.floorJob = f,
         NEW s, s = [r EXCEPT !.phase = "done"]
  PROVE  Sound(s) /\ s.phase = "done" /\ s.owner = r.owner
  BY DEF Sound, LockRecord, Phases

LEMMA WriteWorkingKeeps == ASSUME LockInv, NEW w \in Wrappers, WriteWorking(w) PROVE LockInv'
<1> DEFINE Working(known) == WorkingOf(w, known, head)
<1>1. Active(w) /\ w \in Workers /\ command[w] = "unborn" /\ pc[w] = "writeWorking"
  BY AWrapper DEF WriteWorking, Active, Returned, Carries, CommandFits
<1>2. ASSUME NEW known \in BOOLEAN
      PROVE  /\ Sound(Working(known)) /\ Working(known).phase = "working"
             /\ Working(known).owner = w /\ Working(known).floorJob = NoOne
  <2>1. head \in Heads
    BY AWrapper
  <2> QED BY <1>1, <2>1, WorkingRecord
<1>3. UNCHANGED <<wrapper, command, head>>
      /\ \/ Writes(w, Working(TRUE), "spawn", "abandon")
         \/ Mishap /\ lock' = Working(FALSE) /\ seen' = [seen EXCEPT ![w] = lock']
            /\ Goes(w, "spawn")
  BY DEF WriteWorking, WorkingOf
<1> HIDE DEF Working
<1>4. ASSUME NEW known \in BOOLEAN
      PROVE  Carries(w, "spawn", Working(known), Working(known)) /\ OwnerStands(Working(known))
  BY <1>1, <1>2, LockAssumption DEF Carries, OwnerStands
<1>5. Carries(w, "abandon", seen[w], lock)
  BY AWrapper DEF Carries
<1>6. CommandFits("spawn", command[w]) /\ CommandFits("abandon", command[w])
      /\ "spawn" \in Steps /\ "abandon" \in Steps
  BY <1>1 DEF CommandFits, Steps, Returned
<1>7. CASE Writes(w, Working(TRUE), "spawn", "abandon")
  BY <1>1, <1>2, <1>3, <1>4, <1>5, <1>6, <1>7, WriteKeeps
<1>8. CASE Mishap /\ lock' = Working(FALSE) /\ seen' = [seen EXCEPT ![w] = lock']
           /\ Goes(w, "spawn")
  <2>1. pc' = [pc EXCEPT ![w] = "spawn"] /\ seen' = [seen EXCEPT ![w] = Working(FALSE)]
        /\ lock' = Working(FALSE) /\ command' = [command EXCEPT ![w] = command[w]]
        /\ Alone(w) /\ mishaps' \in Nat /\ wrapper' \in [Wrappers -> ProcStates]
        /\ head' \in Heads /\ command[w] \in ProcStates
    BY <1>1, <1>3, <1>8, AWrapper, MishapsCount DEF Goes
  <2> QED BY <2>1, <1>2, <1>4, <1>6, MovedKeeps
<1> QED BY <1>3, <1>7, <1>8

LEMMA SpawnKeeps ==
  ASSUME LockInv, NEW w \in Wrappers, SpawnCommand(w) \/ SpawnFails(w) PROVE LockInv'
<1>1. /\ Active(w) /\ lock' = lock /\ seen' = [seen EXCEPT ![w] = seen[w]]
      /\ command[w] = "unborn" /\ pc[w] = "spawn" /\ Alone(w)
  BY AWrapper DEF SpawnCommand, SpawnFails, Active, Returned, CommandFits
<1>2. wrapper' \in [Wrappers -> ProcStates] /\ head' \in Heads /\ mishaps' \in Nat
  BY AWrapper, MishapsCount DEF SpawnCommand, SpawnFails
<1>3. PICK p \in {"writePid", "writeFloorPid", "abandon"}, c \in {"unborn", "alive"} :
        /\ pc' = [pc EXCEPT ![w] = p] /\ command' = [command EXCEPT ![w] = c]
        /\ p = "abandon" \/ c = "alive"
        /\ p = "writePid" => w \in Workers
        /\ p = "writeFloorPid" => w \in Floors
  <2>1. CASE SpawnFails(w)
    BY <2>1, <1>1, AWrapper DEF SpawnFails, Goes
  <2>2. CASE SpawnCommand(w)
    BY <2>2 DEF SpawnCommand, Goes, Wrappers
  <2> QED BY <2>1, <2>2
<1>4. Carries(w, p, seen[w], lock)
  BY <1>1, <1>3, AWrapper, LockAssumption DEF Carries
<1>5. CommandFits(p, c) /\ c \in ProcStates /\ p \in Steps
  BY <1>3 DEF CommandFits, ProcStates, Steps, Returned
<1> QED BY <1>1, <1>2, <1>3, <1>4, <1>5, AWrapper, MovedKeeps


LEMMA WritePidKeeps == ASSUME LockInv, NEW w \in Wrappers, WritePid(w) PROVE LockInv'
<1>1. /\ Active(w) /\ w \in Workers /\ pc[w] = "writePid" /\ command[w] # "unborn"
      /\ seen[w].phase = "working" /\ seen[w].owner = w /\ Sound(seen[w]) /\ OwnerStands(seen[w])
  BY AWrapper DEF WritePid, Active, Returned, Carries, CommandFits
<1>2. Writes(w, seen[w], "running", "abandon") /\ UNCHANGED <<wrapper, command, head>>
  BY DEF WritePid
<1>3. Carries(w, "running", seen[w], seen[w]) /\ Carries(w, "abandon", seen[w], lock)
  BY <1>1, LockAssumption DEF Carries
<1>4. CommandFits("running", command[w]) /\ CommandFits("abandon", command[w])
      /\ "running" \in Steps /\ "abandon" \in Steps
  BY <1>1 DEF CommandFits, Steps, Returned
<1> QED BY <1>1, <1>2, <1>3, <1>4, WriteKeeps

LEMMA WritePublishingKeeps ==
  ASSUME LockInv, NEW w \in Wrappers, WritePublishing(w) PROVE LockInv'
<1> DEFINE s == [seen[w] EXCEPT !.phase = "publishing"]
<1>1. /\ Active(w) /\ w \in Workers /\ pc[w] = "running" /\ command[w] # "alive"
      /\ seen[w].phase = "working" /\ seen[w].owner = w /\ Sound(seen[w]) /\ OwnerStands(seen[w])
      /\ command[w] # "unborn"
  BY AWrapper DEF WritePublishing, Active, Returned, Carries, CommandFits
<1>2. Writes(w, s, "finished", "abandon") /\ UNCHANGED <<wrapper, command, head>>
  BY DEF WritePublishing
<1>3. Sound(s) /\ s.owner = seen[w].owner
  BY <1>1, PublishingRecord
<1> HIDE DEF s
<1>4. Carries(w, "finished", s, s) /\ Carries(w, "abandon", seen[w], lock) /\ OwnerStands(s)
  BY <1>1, <1>3 DEF Carries, OwnerStands
<1>5. CommandFits("finished", command[w]) /\ CommandFits("abandon", command[w])
      /\ "finished" \in Steps /\ "abandon" \in Steps
  BY <1>1 DEF CommandFits, Steps, Returned
<1> QED BY <1>1, <1>2, <1>3, <1>4, <1>5, WriteKeeps

LEMMA WriteFloorPidKeeps ==
  ASSUME LockInv, NEW w \in Wrappers, WriteFloorPid(w) PROVE LockInv'
<1> DEFINE s == FloorRunning(seen[w], w)
<1>1. /\ Active(w) /\ w \in Floors /\ pc[w] = "writeFloorPid" /\ command[w] # "unborn"
      /\ seen[w].floorIdentity = NoOne /\ seen[w].phase # "none"
      /\ Sound(seen[w]) /\ OwnerStands(seen[w])
  BY AWrapper DEF WriteFloorPid, Active, Returned, Carries, CommandFits
<1>2. Writes(w, s, "capture", "abandon") /\ UNCHANGED <<wrapper, command, head>>
  BY DEF WriteFloorPid, FloorRunning
<1>3. Sound(s) /\ s.owner = seen[w].owner /\ s.phase = "floor-running" /\ s.floorJob = w
  BY <1>1, FloorRunningRecord
<1> HIDE DEF s
<1>4. Carries(w, "capture", s, s) /\ Carries(w, "abandon", seen[w], lock) /\ OwnerStands(s)
  BY <1>1, <1>3, LockAssumption DEF Carries, OwnerStands
<1>5. CommandFits("capture", command[w]) /\ CommandFits("abandon", command[w])
      /\ "capture" \in Steps /\ "abandon" \in Steps
  BY <1>1 DEF CommandFits, Steps, Returned
<1> QED BY <1>1, <1>2, <1>3, <1>4, <1>5, WriteKeeps

LEMMA WriteFloorIdentityKeeps ==
  ASSUME LockInv, NEW w \in Wrappers, WriteFloorIdentity(w) PROVE LockInv'
<1> DEFINE s == [seen[w] EXCEPT !.floorIdentity = w]
<1>1. /\ Active(w) /\ w \in Floors /\ pc[w] = "capture" /\ command[w] # "unborn"
      /\ seen[w].phase = "floor-running" /\ seen[w].floorJob = w
      /\ Sound(seen[w]) /\ OwnerStands(seen[w])
  BY AWrapper DEF WriteFloorIdentity, Active, Returned, Carries, CommandFits
<1>2. /\ UNCHANGED <<wrapper, command, head>>
      /\ \/ Writes(w, s, "running", "running")
         \/ Fine /\ Goes(w, "running") /\ UNCHANGED <<lock, seen>>
  BY DEF WriteFloorIdentity
<1>3. Sound(s) /\ s.owner = seen[w].owner /\ s.phase = "floor-running" /\ s.floorJob = w
  <2>1. ASSUME NEW x, x = s
        PROVE  Sound(x) /\ x.owner = seen[w].owner /\ x.phase = "floor-running" /\ x.floorJob = w
    BY <1>1, <2>1, IdentifiedRecord
  <2> QED BY <2>1
<1> HIDE DEF s
<1>4. Carries(w, "running", s, s) /\ Carries(w, "running", seen[w], lock) /\ OwnerStands(s)
  BY <1>1, <1>3, LockAssumption DEF Carries, OwnerStands
<1>5. CommandFits("running", command[w]) /\ "running" \in Steps
  BY <1>1 DEF CommandFits, Steps, Returned
<1>6. CASE Writes(w, s, "running", "running")
  BY <1>1, <1>2, <1>3, <1>4, <1>5, <1>6, WriteKeeps
<1>7. CASE Fine /\ Goes(w, "running") /\ UNCHANGED <<lock, seen>>
  <2>1. pc' = [pc EXCEPT ![w] = "running"] /\ seen' = [seen EXCEPT ![w] = seen[w]]
        /\ lock' = lock /\ command' = [command EXCEPT ![w] = command[w]]
        /\ Alone(w) /\ mishaps' \in Nat /\ wrapper' \in [Wrappers -> ProcStates]
        /\ head' \in Heads /\ command[w] \in ProcStates /\ Sound(lock) /\ OwnerStands(lock)
    BY <1>1, <1>2, <1>7, AWrapper, MishapsCount DEF Goes
  <2> QED BY <2>1, <1>1, <1>4, <1>5, MovedKeeps
<1> QED BY <1>2, <1>6, <1>7

LEMMA WriteDoneKeeps == ASSUME LockInv, NEW w \in Wrappers, WriteDone(w) PROVE LockInv'
<1> DEFINE s == [seen[w] EXCEPT !.phase = "done"]
<1>1. /\ Active(w) /\ w \in Floors /\ pc[w] = "running" /\ command[w] # "alive"
      /\ seen[w].phase = "floor-running" /\ seen[w].floorJob = w
      /\ Sound(seen[w]) /\ OwnerStands(seen[w])
  BY AWrapper DEF WriteDone, Active, Returned, Carries
<1>2. Writes(w, s, "release", "abandon") /\ UNCHANGED <<wrapper, command, head>>
  BY DEF WriteDone
<1>3. Sound(s) /\ s.owner = seen[w].owner
  BY <1>1, DoneRecord
<1> HIDE DEF s
<1>4. Carries(w, "release", s, s) /\ Carries(w, "abandon", seen[w], lock) /\ OwnerStands(s)
  BY <1>1, <1>3 DEF Carries, OwnerStands
<1>5. CommandFits("release", command[w]) /\ CommandFits("abandon", command[w])
      /\ "release" \in Steps /\ "abandon" \in Steps
  BY <1>1 DEF CommandFits, Steps, Returned
<1> QED BY <1>1, <1>2, <1>3, <1>4, <1>5, WriteKeeps


LEMMA AbandonKeeps == ASSUME LockInv, NEW w \in Wrappers, Abandon(w) PROVE LockInv'
<1>1. /\ Active(w) /\ Alone(w) /\ lock' = lock /\ seen' = [seen EXCEPT ![w] = seen[w]]
      /\ pc' = [pc EXCEPT ![w] = "release"] /\ mishaps' \in Nat
      /\ wrapper' \in [Wrappers -> ProcStates] /\ head' \in Heads
      /\ Sound(seen[w]) /\ OwnerStands(seen[w]) /\ Sound(lock) /\ OwnerStands(lock)
  BY AWrapper DEF Abandon, Goes, Active, Returned, LockInv, LockTypeOK
<1>2. PICK c \in ProcStates \ {"alive"} : command' = [command EXCEPT ![w] = c]
  BY AWrapper DEF Abandon, ProcStates
<1>3. Carries(w, "release", seen[w], lock) /\ CommandFits("release", c) /\ "release" \in Steps
  BY <1>1, <1>2 DEF Carries, CommandFits, Steps, Returned
<1> QED BY <1>1, <1>2, <1>3, MovedKeeps

(* The lock file is removed, or kept as it was.                             *)
LEMMA ReleaseKeeps == ASSUME LockInv, NEW w \in Wrappers, Release(w) PROVE LockInv'
<1>1. /\ Active(w) /\ Alone(w) /\ seen' = [seen EXCEPT ![w] = NoRecord]
      /\ command' = [command EXCEPT ![w] = command[w]] /\ command[w] \in ProcStates \ {"alive"}
      /\ Sound(lock) /\ OwnerStands(lock)
  BY AWrapper DEF Release, Active, Returned, CommandFits
<1>2. wrapper' \in [Wrappers -> ProcStates] /\ head' \in Heads /\ mishaps' \in Nat
  BY AWrapper, MishapsCount DEF Release
<1>3. NoRecord.owner = NoOne /\ NoRecord.floorJob = NoOne /\ NoOne # w
  BY LockAssumption DEF NoRecord, Wrappers
<1>4. ASSUME NEW p \in {"released", "kept"}, NEW l
      PROVE  Carries(w, p, NoRecord, l) /\ CommandFits(p, command[w]) /\ p \in Steps
  BY <1>1, NoRecordIsSound DEF Carries, CommandFits, Steps, Returned
<1>5. CASE lock' = NoRecord /\ pc' = [pc EXCEPT ![w] = "released"]
  BY <1>1, <1>2, <1>3, <1>4, <1>5, NoRecordIsSound, MovedKeeps
<1>6. CASE lock' = lock /\ pc' = [pc EXCEPT ![w] = "kept"]
  BY <1>1, <1>2, <1>4, <1>6, NoRecordIsSound, MovedKeeps
<1> QED BY <1>5, <1>6 DEF Release, Goes

LEMMA KilledKeeps == ASSUME LockInv, NEW w \in Wrappers, WrapperKilled(w) PROVE LockInv'
<1>1. /\ Active(w) /\ Alone(w) /\ lock' = lock /\ seen' = [seen EXCEPT ![w] = NoRecord]
      /\ pc' = [pc EXCEPT ![w] = "killed"] /\ command' = [command EXCEPT ![w] = command[w]]
      /\ UNCHANGED head /\ Mishap
  BY AWrapper DEF WrapperKilled, Active, Goes
<1>2. wrapper' \in [Wrappers -> ProcStates] /\ head' \in Heads /\ mishaps' \in Nat
  BY <1>1, AWrapper, MishapsCount DEF WrapperKilled, ProcStates
<1>3. Carries(w, "killed", NoRecord, lock) /\ CommandFits("killed", command[w])
      /\ "killed" \in Steps /\ "killed" \in Returned
  BY NoRecordIsSound DEF Carries, CommandFits, Steps, Returned
<1> QED BY <1>1, <1>2, <1>3, AWrapper, MovedKeeps

LEMMA ExitsKeeps == ASSUME LockInv, NEW w \in Wrappers, WrapperExits(w) PROVE LockInv'
<1>1. /\ pc[w] \in Returned /\ seen' = [seen EXCEPT ![w] = NoRecord]
      /\ UNCHANGED <<pc, lock, command, head, mishaps>>
      /\ wrapper' = [wrapper EXCEPT ![w] = "dead"]
  BY DEF WrapperExits, Returned
<1>2. LockTypeOK'
  BY <1>1, NoRecordIsSound DEF LockInv, LockTypeOK, ProcStates, Sound
<1>3. \A v \in Wrappers : v # w => seen'[v] = seen[v]
  BY <1>1 DEF LockInv, LockTypeOK
<1>4. seen'[w] = NoRecord
  BY <1>1 DEF LockInv, LockTypeOK
<1>5. Carries(w, pc[w], NoRecord, lock)
  BY <1>1, NoRecordIsSound DEF Carries, Returned
<1>6. ASSUME NEW v \in Wrappers
      PROVE  Carries(v, pc[v], seen'[v], lock) /\ (Active(v) => OwnerStands(seen[v])')
  BY <1>1, <1>3, <1>4, <1>5 DEF LockInv, Active, OwnerStands
<1> QED BY <1>1, <1>2, <1>6
        DEF LockInv, Active, Alone, OwnerStands, Carries, CommandFits, Sound

(* A command that had started ends, or its pid is reused.                   *)
LEMMA EndedKeeps ==
  ASSUME LockInv, NEW w \in Wrappers, NEW c \in {"dead", "recycled"},
         command[w] # "unborn", command' = [command EXCEPT ![w] = c],
         UNCHANGED <<pc, seen, lock, wrapper, head>>, mishaps' \in Nat
  PROVE  LockInv'
<1>1. /\ command' \in [Wrappers -> ProcStates] /\ command'[w] = c
      /\ \A v \in Wrappers : v # w => command'[v] = command[v]
  BY DEF LockInv, LockTypeOK, ProcStates
<1>2. LockTypeOK'
  BY <1>1 DEF LockInv, LockTypeOK
<1>3. lock.floorJob \in Wrappers \cup {NoOne}
  BY DEF LockInv, LockTypeOK, LockRecord, Wrappers
<1>4. ASSUME NEW v \in Wrappers
      PROVE  /\ CommandFits(pc[v], command'[v])
             /\ pc[v] = "spawn" => lock.floorJob = NoOne \/ command'[lock.floorJob] # "alive"
  BY <1>1, <1>3 DEF LockInv, CommandFits
<1> QED BY <1>2, <1>4 DEF LockInv, Active, Alone, OwnerStands, Carries, CommandFits, Sound

LEMMA HeedsKeeps == ASSUME LockInv, NEW w \in Wrappers, HeedsSigterm(w) PROVE LockInv'
<1>1. /\ UNCHANGED <<pc, seen, lock, wrapper, head>> /\ mishaps' \in Nat
      /\ command[w] # "unborn" /\ command' = [command EXCEPT ![w] = "dead"]
  BY DEF HeedsSigterm, LockInv, LockTypeOK
<1> QED BY <1>1, EndedKeeps

LEMMA SystemKeeps == ASSUME LockInv, PidReused \/ Checkout PROVE LockInv'
<1>1. lock.owner \in Wrappers \cup {NoOne} /\ lock.floorJob \in Wrappers \cup {NoOne}
  BY DEF LockInv, LockTypeOK, LockRecord, Wrappers
<1>2. mishaps' \in Nat
  BY MishapsCount DEF PidReused, Checkout
<1>3. CASE UNCHANGED <<pc, seen, lock, command>> /\ head' \in Heads
           /\ wrapper' \in [Wrappers -> ProcStates]
  BY <1>2, <1>3 DEF LockInv, LockTypeOK, Active, Alone, OwnerStands, Carries, CommandFits, Sound
<1>4. CASE Checkout
  BY <1>3, <1>4 DEF Checkout, LockInv, LockTypeOK
<1>5. CASE PidReused
  <2>1. head' \in Heads /\ UNCHANGED <<pc, seen, lock, head>>
    BY <1>5 DEF PidReused, LockInv, LockTypeOK
  <2>2. CASE wrapper' = [wrapper EXCEPT ![lock.owner] = "recycled"] /\ UNCHANGED command
    BY <2>1, <2>2, <1>3 DEF LockInv, LockTypeOK, ProcStates
  <2>3. CASE /\ lock.floorJob # NoOne /\ command[lock.floorJob] = "dead"
             /\ command' = [command EXCEPT ![lock.floorJob] = "recycled"]
             /\ UNCHANGED wrapper
    BY <2>1, <2>3, <1>1, <1>2, EndedKeeps
  <2> QED BY <1>5, <2>2, <2>3 DEF PidReused
<1> QED BY <1>4, <1>5


LEMMA LockInitially == Init => LockInv
<1> SUFFICES ASSUME Init PROVE LockInv
  OBVIOUS
<1>1. LockTypeOK
  BY NoRecordIsSound, LockAssumption
     DEF Init, LockInit, LockTypeOK, Steps, Returned, ProcStates, Sound
<1>2. \A w \in Wrappers : Carries(w, "idle", NoRecord, NoRecord) /\ CommandFits("idle", "unborn")
  BY NoRecordIsSound DEF Carries, CommandFits
<1> QED BY <1>1, <1>2, NoRecordIsSound DEF Init, LockInit, LockInv, Active, Returned

LEMMA LockKeeps ==
  ASSUME LockInv, [Next]_vars PROVE LockInv'
<1>1. CASE Environment
  BY <1>1, SystemKeeps DEF Environment
<1>2. ASSUME NEW w \in Wrappers, LockStep(w) PROVE LockInv'
  BY <1>2, StartKeeps, CheckOwnerKeeps, CheckFloorKeeps, WriteWorkingKeeps, SpawnKeeps,
     WritePidKeeps, WritePublishingKeeps, WriteFloorPidKeeps, WriteFloorIdentityKeeps,
     WriteDoneKeeps, HeedsKeeps, AbandonKeeps, ReleaseKeeps, ExitsKeeps, KilledKeeps
     DEF LockStep
<1>3. ASSUME NEW w \in Wrappers, StartCommand(w) PROVE LockInv'
  BY <1>3, SpawnKeeps DEF StartCommand
<1>4. ASSUME NEW w \in Wrappers, EndCommand(w) PROVE LockInv'
  <2>1. UNCHANGED <<pc, seen, lock, wrapper, head, mishaps>> /\ command[w] # "unborn"
        /\ command' = [command EXCEPT ![w] = "dead"] /\ mishaps' \in Nat
    BY <1>4 DEF EndCommand, CommandExits, LockInv, LockTypeOK
  <2> QED BY <2>1, EndedKeeps
<1>5. ASSUME NEW w \in Wrappers, CommandStep(w) PROVE LockInv'
  <2>1. EndCommand(w) \/ (UNCHANGED <<pc, seen, lock, command, wrapper, head>> /\ mishaps' \in Nat)
    <3>1. mishaps \in Nat
      BY DEF LockInv, LockTypeOK
    <3> QED BY <1>5, <3>1, LockAssumption
            DEF CommandStep, Keep, Checking, BeginRun, ClearsMarkers, WritesToken, StreamEnds,
                JunitFinishes, Complete, TimesOut, TestsKilled, Report, CheckTruncation,
                CheckCompletion, CheckToken, CheckFloors, Mishap, Fine
  <2>2. CASE UNCHANGED <<pc, seen, lock, command, wrapper, head>> /\ mishaps' \in Nat
    BY <2>2 DEF LockInv, LockTypeOK, Active, Alone, OwnerStands, Carries, CommandFits, Sound
  <2> QED BY <2>1, <2>2, <1>4
<1>6. CASE UNCHANGED vars
  BY <1>6 DEF vars, lockVars, LockInv, LockTypeOK, Active, Alone, OwnerStands, Carries,
              CommandFits, Sound
<1> QED BY <1>1, <1>2, <1>3, <1>5, <1>6 DEF Next

-----------------------------------------------------------------------------
(* The commands' half.                                                      *)

(* What a wrapper's own step does to pc and to the commands.                *)
LEMMA LockStepShape ==
  ASSUME LockInv, NEW w \in Wrappers, LockStep(w)
  PROVE  /\ UNCHANGED <<runVars, overlapped, head>>
         /\ \A v \in Wrappers : v # w => pc'[v] = pc[v] /\ command'[v] = command[v]
                                         /\ seen'[v] = seen[v]
         /\ pc[w] \in Quits => pc'[w] \in Quits
         /\ w \in Workers /\ pc'[w] \in {"writePid", "running"} => pc[w] \in {"writePid", "running"}
         /\ command'[w] # command[w] =>
              pc'[w] \in Quits /\ command[w] = "alive" /\ command'[w] = "dead"
<1>1. pc \in [Wrappers -> Steps] /\ command \in [Wrappers -> ProcStates]
      /\ seen \in [Wrappers -> LockRecord]
  BY DEF LockInv, LockTypeOK
<1> USE DEF Quits
<1>2. pc[w] = "capture" => w \notin Workers
  BY AWrapper, LockAssumption DEF Carries
<1>3. UNCHANGED <<runVars, overlapped>>
  BY DEF LockStep
<1>4. CASE WorkerStarts(w)
  BY <1>1, <1>3, <1>4 DEF WorkerStarts, Start, Goes
<1>5. CASE FloorStarts(w)
  BY <1>1, <1>3, <1>5, LockAssumption DEF FloorStarts, Start, Goes
<1>6. CASE CheckOwner(w)
  BY <1>1, <1>3, <1>6 DEF CheckOwner, Goes
<1>7. CASE CheckFloor(w)
  BY <1>1, <1>3, <1>7 DEF CheckFloor, Goes
<1>8. CASE WriteWorking(w)
  BY <1>1, <1>3, <1>8 DEF WriteWorking, Writes, Goes
<1>9. CASE SpawnFails(w)
  BY <1>1, <1>3, <1>9 DEF SpawnFails, Goes
<1>10. CASE WritePid(w)
  BY <1>1, <1>3, <1>10 DEF WritePid, Writes, Goes
<1>11. CASE WritePublishing(w)
  BY <1>1, <1>3, <1>11 DEF WritePublishing, Writes, Goes
<1>12. CASE WriteFloorPid(w)
  BY <1>1, <1>3, <1>12 DEF WriteFloorPid, Writes, Goes
<1>13. CASE WriteFloorIdentity(w)
  BY <1>1, <1>2, <1>3, <1>13 DEF WriteFloorIdentity, Writes, Goes
<1>14. CASE WriteDone(w)
  BY <1>1, <1>3, <1>14 DEF WriteDone, Writes, Goes
<1>15. CASE HeedsSigterm(w) \/ Abandon(w)
  BY <1>1, <1>3, <1>15 DEF HeedsSigterm, Abandon, Goes
<1>16. CASE Release(w)
  BY <1>1, <1>3, <1>16 DEF Release, Goes
<1>17. CASE WrapperExits(w)
  BY <1>1, <1>3, <1>17 DEF WrapperExits
<1>18. CASE WrapperKilled(w)
  BY <1>1, <1>3, <1>18 DEF WrapperKilled, Goes, Returned
<1> QED BY <1>4, <1>5, <1>6, <1>7, <1>8, <1>9, <1>10, <1>11, <1>12, <1>13, <1>14, <1>15, <1>16,
           <1>17, <1>18 DEF LockStep


(* A record a wrapper writes or takes up names the last run wherever the    *)
(* one it was made of did; a published one is of the run that just ended.   *)
LEMMA LockStepRecords ==
  ASSUME IInv, NEW w \in Wrappers, LockStep(w)
  PROVE  OfLatest(lock') /\ (pc'[w] \notin Returned => OfLatest(seen'[w]))
<1> USE DEF IInv
<1>1. OfLatest(lock) /\ (Active(w) => OfLatest(seen[w]))
  BY DEF RunInv, LatestInv
<1>2. /\ pc \in [Wrappers -> Steps] /\ seen \in [Wrappers -> LockRecord]
      /\ pc[w] \in Steps
  BY DEF LockInv, LockTypeOK
<1>3. OfLatest(NoRecord)
  BY DEF OfLatest, NoRecord
<1>4. CASE WorkerStarts(w) \/ FloorStarts(w)
  BY <1>1, <1>2, <1>4 DEF WorkerStarts, FloorStarts, Start
<1>5. CASE CheckOwner(w) \/ SpawnFails(w)
  BY <1>1, <1>5 DEF CheckOwner, SpawnFails, Active, Returned
<1>6. CASE CheckFloor(w)
  <2>1. Reclaimed(seen[w]).phase = seen[w].phase /\ Reclaimed(seen[w]).owner = seen[w].owner
    BY AWrapper, ReclaimedIsSound
  <2>2. seen'[w] = Reclaimed(seen[w]) /\ lock' = lock /\ Active(w)
    BY <1>2, <1>6 DEF CheckFloor, Active, Returned
  <2> QED BY <1>1, <2>1, <2>2 DEF OfLatest
<1>7. CASE WriteWorking(w)
  <2>1. ASSUME NEW known \in BOOLEAN PROVE OfLatest(WorkingOf(w, known, head))
    <3>1. w \in Workers /\ head \in Heads
      BY <1>7, AWrapper DEF WriteWorking, Carries
    <3> QED BY <3>1, WorkingRecord DEF OfLatest
  <2>2. \/ lock' = lock /\ seen' = seen
        \/ \E known \in BOOLEAN : lock' = WorkingOf(w, known, head) /\ seen' = [seen EXCEPT ![w] = lock']
    BY <1>7 DEF WriteWorking, Writes, WorkingOf
  <2>3. Active(w)
    BY <1>7 DEF WriteWorking, Active, Returned
  <2> QED BY <1>1, <1>2, <2>1, <2>2, <2>3
<1>8. CASE WritePid(w)
  BY <1>1, <1>2, <1>8 DEF WritePid, Writes, Active, Returned
<1>9. ASSUME NEW r, OfLatest(r), Active(w),
             \/ lock' = r /\ seen' = [seen EXCEPT ![w] = r]
             \/ UNCHANGED <<lock, seen>>
      PROVE  OfLatest(lock') /\ OfLatest(seen'[w])
  BY <1>1, <1>2, <1>9
<1>10. CASE WritePublishing(w)
  <2> DEFINE r == [seen[w] EXCEPT !.phase = "publishing"]
  <2>1. /\ w \in Workers /\ Sound(seen[w]) /\ seen[w].phase = "working" /\ seen[w].owner = w
        /\ command[w] # "alive" /\ pc[w] = "running" /\ Active(w)
    BY <1>10, AWrapper DEF WritePublishing, Carries, Active, Returned
  <2>2. latest = w /\ run[w].at = "none"
    BY <2>1 DEF RunInv, LatestInv, EndedInv, Quits
  <2>3. r.owner = w
    BY <2>1, PublishingRecord
  <2>4. \/ lock' = r /\ seen' = [seen EXCEPT ![w] = r]
        \/ UNCHANGED <<lock, seen>>
    BY <1>10 DEF WritePublishing, Writes
  <2> HIDE DEF r
  <2>5. OfLatest(r)
    BY <2>1, <2>2, <2>3 DEF OfLatest, LatestOver
  <2> QED BY <2>1, <2>4, <2>5, <1>9
<1>11. CASE WriteFloorPid(w)
  <2> DEFINE r == FloorRunning(seen[w], w)
  <2>1. /\ w \in Floors /\ Sound(seen[w]) /\ seen[w].floorIdentity = NoOne /\ Active(w)
        /\ seen[w].phase \in {"publishing", "floor-running", "done"}
    BY <1>11, AWrapper DEF WriteFloorPid, Carries, Active, Returned
  <2>2. r.owner = seen[w].owner
    BY <2>1, FloorRunningRecord
  <2>3. \/ lock' = r /\ seen' = [seen EXCEPT ![w] = r]
        \/ UNCHANGED <<lock, seen>>
    BY <1>11 DEF WriteFloorPid, Writes, FloorRunning
  <2> HIDE DEF r
  <2>4. OfLatest(r)
    BY <1>1, <2>1, <2>2 DEF OfLatest
  <2> QED BY <2>1, <2>3, <2>4, <1>9
<1>12. CASE WriteFloorIdentity(w)
  <2> DEFINE r == [seen[w] EXCEPT !.floorIdentity = w]
  <2>1. /\ w \in Floors /\ Sound(seen[w]) /\ Active(w)
        /\ seen[w].phase = "floor-running" /\ seen[w].floorJob = w
    BY <1>12, AWrapper DEF WriteFloorIdentity, Carries, Active, Returned
  <2>2. r.owner = seen[w].owner
    <3>1. ASSUME NEW x, x = r PROVE x.owner = seen[w].owner
      BY <2>1, <3>1, IdentifiedRecord
    <3> QED BY <3>1
  <2>3. \/ lock' = r /\ seen' = [seen EXCEPT ![w] = r]
        \/ UNCHANGED <<lock, seen>>
    BY <1>12 DEF WriteFloorIdentity, Writes
  <2> HIDE DEF r
  <2>4. OfLatest(r)
    BY <1>1, <2>1, <2>2 DEF OfLatest
  <2> QED BY <2>1, <2>3, <2>4, <1>9
<1>13. CASE WriteDone(w)
  <2> DEFINE r == [seen[w] EXCEPT !.phase = "done"]
  <2>1. /\ w \in Floors /\ Sound(seen[w]) /\ Active(w)
        /\ seen[w].phase = "floor-running" /\ seen[w].floorJob = w
    BY <1>13, AWrapper DEF WriteDone, Carries, Active, Returned
  <2>2. r.owner = seen[w].owner
    BY <2>1, DoneRecord
  <2>3. \/ lock' = r /\ seen' = [seen EXCEPT ![w] = r]
        \/ UNCHANGED <<lock, seen>>
    BY <1>13 DEF WriteDone, Writes
  <2> HIDE DEF r
  <2>4. OfLatest(r)
    BY <1>1, <2>1, <2>2 DEF OfLatest
  <2> QED BY <2>1, <2>3, <2>4, <1>9
<1>14. CASE HeedsSigterm(w) \/ Abandon(w) \/ Release(w)
  BY <1>1, <1>2, <1>3, <1>14 DEF HeedsSigterm, Abandon, Release, Goes, Active, Returned
<1>15. CASE WrapperExits(w) \/ WrapperKilled(w)
  BY <1>1, <1>2, <1>3, <1>15 DEF WrapperExits, WrapperKilled
<1> QED BY <1>4, <1>5, <1>6, <1>7, <1>8, <1>10, <1>11, <1>12, <1>13, <1>14, <1>15 DEF LockStep

LEMMA LockStepKeepsRuns ==
  ASSUME IInv, NEW w \in Wrappers, LockStep(w) PROVE RunInv'
<1> USE DEF IInv
<1>1. /\ UNCHANGED <<run, truncated, completion, runToken, summary, latest, overlapped, head>>
      /\ \A v \in Wrappers : v # w => pc'[v] = pc[v] /\ command'[v] = command[v]
                                      /\ seen'[v] = seen[v]
      /\ pc[w] \in Quits => pc'[w] \in Quits
      /\ w \in Workers /\ pc'[w] \in {"writePid", "running"} => pc[w] \in {"writePid", "running"}
      /\ command'[w] # command[w] =>
           pc'[w] \in Quits /\ command[w] = "alive" /\ command'[w] = "dead"
  BY LockStepShape DEF runVars
<1>2. OfLatest(lock') /\ (pc'[w] \notin Returned => OfLatest(seen'[w]))
  BY LockStepRecords
<1>3. RunTypeOK' /\ PlacesInv'
  BY <1>1 DEF RunInv, RunTypeOK, PlacesInv
<1>4. EndedInv'
  BY <1>1 DEF RunInv, EndedInv
<1>5. LatestInv'
  <2>1. OfLatest(lock)' /\ (\A v \in Wrappers : Active(v) => OfLatest(seen[v]))'
    BY <1>1, <1>2 DEF Active, RunInv, LatestInv, OfLatest, LatestOver
  <2>2. \A v \in Workers : pc'[v] \in {"writePid", "running"} => latest' = v
    BY <1>1 DEF RunInv, LatestInv, Wrappers
  <2>3. completion'.runToken # NoOne => command'[completion'.runToken] # "unborn"
    <3>1. completion.runToken \in Wrappers \cup {NoOne}
      BY DEF RunInv, RunTypeOK, Wrappers
    <3> QED BY <1>1, <3>1 DEF RunInv, LatestInv
  <2> QED BY <2>1, <2>2, <2>3 DEF LatestInv
<1>6. ASSUME Apart PROVE Apart'
  <2>1. \A v \in Wrappers : command'[v] = "alive" => command[v] = "alive"
    BY <1>1
  <2> QED BY <1>1, <1>6, <2>1 DEF Apart, MarkerOfLatest, StillSo, LatestOver, Wrappers
<1> QED BY <1>1, <1>3, <1>4, <1>5, <1>6 DEF RunInv


LEMMA StartKeepsRuns ==
  ASSUME IInv, NEW w \in Wrappers, StartCommand(w) PROVE RunInv'
<1> USE DEF IInv
<1>1. /\ run \in [Wrappers -> RunRecord] /\ command \in [Wrappers -> ProcStates]
      /\ pc \in [Wrappers -> Steps] /\ latest \in Workers \cup {NoOne}
  BY DEF RunInv, RunTypeOK, LockInv, LockTypeOK
<1>2. /\ pc[w] = "spawn" /\ Active(w) /\ Alone(w) /\ command[w] = "unborn"
      /\ Carries(w, "spawn", seen[w], lock) /\ OfLatest(lock) /\ OfLatest(seen[w])
  BY AWrapper DEF StartCommand, SpawnCommand, CommandFits, Active, Returned, RunInv, LatestInv
<1>3. /\ UNCHANGED <<truncated, completion, runToken, summary, seen, lock, head>>
      /\ overlapped' = (overlapped \/ \E v \in Wrappers : command[v] = "alive")
      /\ latest' = (IF w \in Workers THEN w ELSE latest)
      /\ pc' = [pc EXCEPT ![w] = IF w \in Workers THEN "writePid" ELSE "writeFloorPid"]
      /\ command' = [command EXCEPT ![w] = "alive"] /\ run' = [run EXCEPT ![w].at = "begin"]
  BY DEF StartCommand, SpawnCommand, Moves, Goes
<1>4. /\ run'[w].at = "begin" /\ run' \in [Wrappers -> RunRecord]
      /\ \A v \in Wrappers : v # w => run'[v] = run[v]
  BY <1>1, <1>3 DEF RunRecord
<1>5. /\ command'[w] = "alive" /\ \A v \in Wrappers : v # w => command'[v] = command[v]
      /\ \A v \in Wrappers : v # w => pc'[v] = pc[v] /\ pc[v] \in Returned
      /\ pc'[w] = IF w \in Workers THEN "writePid" ELSE "writeFloorPid"
  BY <1>1, <1>2, <1>3 DEF Alone, Active
<1>6. RunTypeOK'
  <2>1. overlapped' \in BOOLEAN
    BY <1>3, Zenon
  <2> QED BY <1>3, <1>4, <2>1 DEF RunInv, RunTypeOK
<1>7. PlacesInv' /\ EndedInv'
  BY <1>4, <1>5 DEF RunInv, PlacesInv, EndedInv, Wrappers
<1>8. LatestOver => w \in Workers \/ LatestOver'
  BY <1>3, <1>4 DEF LatestOver, Wrappers
<1>9. w \in Workers => lock.phase = "working" /\ seen[w].phase = "working"
  BY <1>2 DEF Carries
<1>10. LatestInv'
  <2>1. completion'.runToken # NoOne => command'[completion'.runToken] # "unborn"
    <3>1. completion.runToken \in Wrappers \cup {NoOne}
      BY DEF RunInv, RunTypeOK, Wrappers
    <3> QED BY <1>3, <1>5, <3>1 DEF RunInv, LatestInv
  <2>2. \A v \in Workers : pc'[v] \in {"writePid", "running"} => latest' = v
    BY <1>3, <1>5, LockAssumption DEF Wrappers, Returned
  <2>3. OfLatest(lock)' /\ OfLatest(seen[w])'
    BY <1>2, <1>3, <1>8, <1>9, LockAssumption DEF OfLatest, Wrappers
  <2>4. \A v \in Wrappers : Active(v)' => v = w
    BY <1>5 DEF Active
  <2> QED BY <2>1, <2>2, <2>3, <2>4 DEF LatestInv
<1>11. ASSUME ~overlapped' PROVE Apart'
  <2>1. ~overlapped /\ \A v \in Wrappers : command[v] # "alive"
    BY <1>3, <1>11
  <2>2. Apart
    BY <2>1 DEF RunInv
  <2>3. \A v \in Wrappers : command'[v] = "alive" => v = w
    BY <1>5, <2>1
  <2>4. CASE w \in Workers
    <3>1. latest' = w /\ w \notin Floors /\ w # NoOne
      BY <1>3, <2>4, LockAssumption
    <3>2. completion'.runToken # w
      BY <1>2, <1>3, <3>1 DEF RunInv, LatestInv
    <3> QED BY <2>3, <3>1, <3>2 DEF Apart, MarkerOfLatest, Wrappers
  <2>5. CASE w \in Floors
    <3>1. latest' = latest /\ w \notin Workers
      BY <1>3, <2>5, LockAssumption
    <3>2. LatestOver
      BY <1>2, <2>5 DEF Carries, OfLatest
    <3>3. LatestOver'
      BY <1>8, <3>1, <3>2
    <3>4. MarkerOfLatest'
      BY <1>3, <1>4, <2>2, <3>1, <3>2 DEF Apart, MarkerOfLatest, LatestOver, Wrappers
    <3>5. StillSo(w)'
      BY <1>4, <3>3 DEF StillSo
    <3> QED BY <2>3, <3>1, <3>4, <3>5 DEF Apart, Wrappers
  <2> QED BY <2>4, <2>5 DEF Wrappers
<1> QED BY <1>6, <1>7, <1>10, <1>11 DEF RunInv

LEMMA SystemKeepsRuns == ASSUME IInv, Environment PROVE RunInv'
<1> USE DEF IInv
<1>1. /\ UNCHANGED <<run, truncated, completion, runToken, summary, latest, overlapped, pc, seen,
                     lock>>
      /\ \A v \in Wrappers : command'[v] = "alive" <=> command[v] = "alive"
      /\ \A v \in Wrappers : command'[v] = "unborn" <=> command[v] = "unborn"
      /\ \A v \in Wrappers : command[v] = "alive" => head' = head
  <2>1. command \in [Wrappers -> ProcStates]
    BY DEF LockInv, LockTypeOK
  <2> QED BY <2>1 DEF Environment, runVars, PidReused, Checkout
<1>2. RunTypeOK' /\ PlacesInv' /\ EndedInv'
  BY <1>1 DEF RunInv, RunTypeOK, PlacesInv, EndedInv
<1>3. LatestInv'
  <2>1. completion.runToken \in Wrappers \cup {NoOne}
    BY DEF RunInv, RunTypeOK, Wrappers
  <2> QED BY <1>1, <2>1 DEF RunInv, LatestInv, OfLatest, LatestOver, Active
<1>4. ASSUME Apart PROVE Apart'
  BY <1>1, <1>4 DEF Apart, MarkerOfLatest, StillSo, LatestOver, Wrappers
<1> QED BY <1>1, <1>2, <1>3, <1>4 DEF RunInv


(* What a step of the running command of w has to establish besides Apart.  *)
LEMMA CommandMoved ==
  ASSUME IInv, NEW w \in Wrappers, command[w] = "alive", run[w].at # "none",
         NEW r \in RunRecord, run' = [run EXCEPT ![w] = r],
         UNCHANGED <<pc, seen, lock, latest, overlapped>>,
         w \in Workers => r.at \in {"none", "begin", "tests", "complete", "report", "exiting"},
         w \in Floors => r.at \in {"none", "begin", "completion", "token", "summary",
                                   "void", "unreadable", "judged"},
         \/ UNCHANGED command
         \/ command' = [command EXCEPT ![w] = "dead"] /\ r.at = "none",
         truncated' \in SUBSET Markers, runToken' \in Workers \cup {NoOne},
         completion' \in [headSha : Heads \cup {NoOne}, runToken : Workers \cup {NoOne}],
         completion'.runToken \in {completion.runToken, w},
         summary' \in [run : Workers \cup {NoOne}, whole : BOOLEAN]
  PROVE  /\ RunTypeOK' /\ PlacesInv' /\ EndedInv' /\ LatestInv'
         /\ run'[w] = r /\ \A v \in Wrappers : v # w => run'[v] = run[v]
<1> USE DEF IInv
<1>1. /\ run \in [Wrappers -> RunRecord] /\ command \in [Wrappers -> ProcStates]
      /\ latest \in Workers \cup {NoOne}
  BY DEF RunInv, RunTypeOK, LockInv, LockTypeOK
<1>2. run'[w] = r /\ \A v \in Wrappers : v # w => run'[v] = run[v]
  BY <1>1
<1>3. /\ \A v \in Wrappers : v # w => command'[v] = command[v]
      /\ command'[w] = "alive" \/ (command'[w] = "dead" /\ r.at = "none")
  BY <1>1
<1>4. RunTypeOK'
  BY <1>1 DEF RunInv, RunTypeOK
<1>5. PlacesInv' /\ EndedInv'
  BY <1>2, <1>3 DEF RunInv, PlacesInv, EndedInv, Wrappers
<1>6. LatestOver => LatestOver'
  BY <1>1, <1>2 DEF LatestOver, Wrappers
<1>7. LatestInv'
  <2>1. completion.runToken \in Wrappers \cup {NoOne}
    BY DEF RunInv, RunTypeOK, Wrappers
  <2>2. completion'.runToken # NoOne => command'[completion'.runToken] # "unborn"
    BY <1>3, <2>1 DEF RunInv, LatestInv
  <2>3. OfLatest(lock)' /\ \A v \in Wrappers : Active(v)' => OfLatest(seen[v])'
    BY <1>6 DEF OfLatest, RunInv, LatestInv, Active
  <2> QED BY <2>2, <2>3 DEF RunInv, LatestInv
<1> QED BY <1>2, <1>4, <1>5, <1>7

(* The last run's command, while nothing overlapped: no floor check runs.   *)
LEMMA WorkerApart ==
  ASSUME IInv, ~overlapped, NEW w \in Workers, command[w] = "alive"
  PROVE  /\ latest = w /\ w \in Wrappers /\ w # NoOne /\ MarkerOfLatest
         /\ \A v \in Wrappers : command[v] = "alive" => v = w
         /\ \A f \in Floors : command[f] # "alive"
  BY LockAssumption DEF IInv, RunInv, Apart, Wrappers

LEMMA WorkerStaysApart ==
  ASSUME IInv, ~overlapped, NEW w \in Workers, command[w] = "alive", UNCHANGED latest,
         \A v \in Wrappers : command'[v] = "alive" => command[v] = "alive",
         MarkerOfLatest'
  PROVE  Apart'
  BY WorkerApart DEF Apart, Wrappers

(* A step that leaves the completion marker and the summary alone, of a run *)
(* that had not reached its report: the marker is another's.                *)
LEMMA RunStepKeeps ==
  ASSUME IInv, NEW w \in Workers, command[w] = "alive",
         run[w].at \in {"begin", "tests", "complete"},
         NEW r \in RunRecord, run' = [run EXCEPT ![w] = r],
         r.at \in {"begin", "tests", "complete", "report"},
         UNCHANGED <<pc, seen, lock, latest, overlapped, command, completion, summary>>,
         truncated' \in SUBSET Markers, runToken' \in Workers \cup {NoOne}
  PROVE  RunInv'
<1> USE DEF IInv
<1>1. w \in Wrappers /\ w \notin Floors
  BY LockAssumption DEF Wrappers
<1>2. /\ completion' \in [headSha : Heads \cup {NoOne}, runToken : Workers \cup {NoOne}]
      /\ summary' \in [run : Workers \cup {NoOne}, whole : BOOLEAN]
  BY DEF RunInv, RunTypeOK
<1>3. RunTypeOK' /\ PlacesInv' /\ EndedInv' /\ LatestInv'
  BY <1>1, <1>2, CommandMoved
<1>4. ASSUME ~overlapped PROVE Apart'
  <2>1. completion.runToken # w
    BY <1>4, WorkerApart DEF MarkerOfLatest
  <2>2. MarkerOfLatest'
    BY <1>4, <2>1, WorkerApart DEF MarkerOfLatest
  <2> QED BY <1>4, <2>2, WorkerStaysApart
<1> QED BY <1>3, <1>4 DEF RunInv

Places == {"none", "begin", "tests", "complete", "report", "exiting",
           "completion", "token", "summary", "void", "unreadable", "judged"}

LEMMA MovesInRun ==
  ASSUME RunTypeOK, NEW w \in Wrappers, NEW place \in Places, Moves(w, place)
  PROVE  \E r \in RunRecord : /\ run' = [run EXCEPT ![w] = r] /\ r.at = place
                              /\ r = [run[w] EXCEPT !.at = place]
<1> DEFINE r == [run[w] EXCEPT !.at = place]
<1>1. run' = [run EXCEPT ![w] = r] /\ r.at = place
  BY DEF RunTypeOK, Moves, RunRecord
<1>2. r \in RunRecord
  BY DEF RunTypeOK, RunRecord, Places
<1> QED BY <1>1, <1>2

LEMMA BeginRunKeeps == ASSUME IInv, NEW w \in Wrappers, BeginRun(w) PROVE RunInv'
<1> USE DEF IInv
<1>1. /\ w \in Workers /\ command[w] = "alive" /\ run[w].at = "begin"
      /\ UNCHANGED <<pc, seen, lock, latest, overlapped, command, completion, summary>>
  BY DEF BeginRun, Running, Keep
<1>2. truncated' \in SUBSET Markers /\ runToken' \in Workers \cup {NoOne}
  BY <1>1 DEF BeginRun, ClearsMarkers, WritesToken, RunInv, RunTypeOK
<1>3. RunTypeOK /\ run[w] \in RunRecord /\ head \in Heads
  BY DEF RunInv, RunTypeOK, LockInv, LockTypeOK
<1>4. CASE Moves(w, "report")
  <2>1. PICK r \in RunRecord : run' = [run EXCEPT ![w] = r] /\ r.at = "report"
    BY <1>3, <1>4, MovesInRun DEF Places
  <2> QED BY <1>1, <1>2, <2>1, RunStepKeeps
<1>5. CASE run' = [run EXCEPT ![w].at = "tests", ![w].batch = 1, ![w].headSha = head]
  <2> DEFINE r == [run[w] EXCEPT !.at = "tests", !.batch = 1, !.headSha = head]
  <2>1. r \in RunRecord /\ r.at = "tests"
    BY <1>3 DEF RunRecord
  <2>2. run' = [run EXCEPT ![w] = r]
    BY <1>3, <1>5 DEF RunTypeOK
  <2> HIDE DEF r
  <2> QED BY <1>1, <1>2, <2>1, <2>2, RunStepKeeps
<1> QED BY <1>4, <1>5 DEF BeginRun


LEMMA InTheTests ==
  ASSUME IInv, NEW w \in Wrappers, command[w] = "alive", run[w].at \in {"tests", "complete"}
  PROVE  w \in Workers /\ run[w] \in RunRecord
  BY DEF IInv, RunInv, RunTypeOK, PlacesInv, Wrappers

LEMMA BatchMoves ==
  ASSUME NEW r \in RunRecord, r.at = "tests"
  PROVE  AfterBatch(r) \in RunRecord /\ AfterBatch(r).at \in {"tests", "complete"}
<1> DEFINE last == [r EXCEPT !.at = "complete"]
           next == [r EXCEPT !.batch = @ + 1, !.ended = FALSE, !.flushed = FALSE]
<1>1. AfterBatch(r) \in {r, last, next}
  BY DEF AfterBatch
<1>2. last \in RunRecord /\ last.at = "complete"
  BY DEF RunRecord
<1>3. r.batch + 1 \in Nat
  BY DEF RunRecord
<1>4. next \in RunRecord /\ next.at = "tests"
  BY <1>3 DEF RunRecord
<1> HIDE DEF last, next
<1> QED BY <1>1, <1>2, <1>4

LEMMA BatchStepKeeps ==
  ASSUME IInv, NEW w \in Wrappers, StreamEnds(w) \/ JunitFinishes(w) PROVE RunInv'
<1> USE DEF IInv
<1>1. /\ command[w] = "alive" /\ run[w].at = "tests"
      /\ UNCHANGED <<pc, seen, lock, latest, overlapped, command, completion, summary,
                     truncated, runToken>>
  BY DEF StreamEnds, JunitFinishes, Running, Keep
<1>2. w \in Workers /\ run[w] \in RunRecord
  BY <1>1, InTheTests
<1>3. PICK r \in RunRecord : r.at = "tests" /\ run' = [run EXCEPT ![w] = AfterBatch(r)]
  <2>1. /\ [run[w] EXCEPT !.ended = TRUE] \in RunRecord
        /\ [run[w] EXCEPT !.ended = TRUE].at = "tests"
        /\ [run[w] EXCEPT !.flushed = TRUE] \in RunRecord
        /\ [run[w] EXCEPT !.flushed = TRUE].at = "tests"
    BY <1>1, <1>2 DEF RunRecord
  <2> QED BY <2>1 DEF StreamEnds, JunitFinishes
<1>4. truncated' \in SUBSET Markers /\ runToken' \in Workers \cup {NoOne}
  BY <1>1 DEF RunInv, RunTypeOK
<1> QED BY <1>1, <1>2, <1>3, <1>4, BatchMoves, RunStepKeeps

LEMMA CutShortKeeps ==
  ASSUME IInv, NEW w \in Wrappers, TimesOut(w) \/ TestsKilled(w) PROVE RunInv'
<1> USE DEF IInv
<1>1. /\ command[w] = "alive" /\ run[w].at \in {"begin", "tests", "complete"} /\ w \in Workers
      /\ UNCHANGED <<pc, seen, lock, latest, overlapped, command, completion, summary, runToken>>
      /\ Moves(w, "report")
  BY InTheTests DEF TimesOut, TestsKilled, Running, Keep
<1>2. truncated' \in SUBSET Markers /\ runToken' \in Workers \cup {NoOne}
  BY <1>1 DEF TimesOut, TestsKilled, RunInv, RunTypeOK, Markers
<1>3. PICK r \in RunRecord : run' = [run EXCEPT ![w] = r] /\ r.at = "report"
  BY <1>1, MovesInRun DEF Places, RunInv
<1> QED BY <1>1, <1>2, <1>3, RunStepKeeps

LEMMA CompleteKeeps == ASSUME IInv, NEW w \in Wrappers, Complete(w) PROVE RunInv'
<1> USE DEF IInv
<1> DEFINE r == [run[w] EXCEPT !.at = "report", !.whole = TRUE]
<1>1. /\ command[w] = "alive" /\ run[w].at = "complete" /\ w \in Workers /\ w \notin Floors
      /\ UNCHANGED <<pc, seen, lock, latest, overlapped, command, summary, truncated, runToken>>
      /\ run[w] \in RunRecord
  BY InTheTests, LockAssumption DEF Complete, Running, Keep
<1>2. /\ r \in RunRecord /\ r.at = "report" /\ r.whole /\ r.headSha = run[w].headSha
  BY <1>1 DEF RunRecord
<1>3. run' = [run EXCEPT ![w] = r]
  BY <1>1 DEF Complete, RunInv, RunTypeOK
<1>4. completion' = completion \/ completion' = [headSha |-> run[w].headSha, runToken |-> w]
  BY DEF Complete
<1> HIDE DEF r
<1>5. /\ completion' \in [headSha : Heads \cup {NoOne}, runToken : Workers \cup {NoOne}]
      /\ completion'.runToken \in {completion.runToken, w}
      /\ truncated' \in SUBSET Markers /\ runToken' \in Workers \cup {NoOne}
      /\ summary' \in [run : Workers \cup {NoOne}, whole : BOOLEAN]
  BY <1>1, <1>4 DEF RunInv, RunTypeOK, RunRecord
<1>6. RunTypeOK' /\ PlacesInv' /\ EndedInv' /\ LatestInv' /\ run'[w] = r
  BY <1>1, <1>2, <1>3, <1>5, CommandMoved
<1>7. ASSUME ~overlapped PROVE Apart'
  <2>1. latest = w /\ completion.runToken # w
    BY <1>1, <1>7, WorkerApart DEF MarkerOfLatest
  <2>2. MarkerOfLatest'
    BY <1>1, <1>2, <1>4, <1>6, <2>1 DEF MarkerOfLatest
  <2> QED BY <1>1, <1>7, <2>2, WorkerStaysApart
<1> QED BY <1>1, <1>6, <1>7 DEF RunInv

LEMMA ReportKeeps == ASSUME IInv, NEW w \in Wrappers, Report(w) PROVE RunInv'
<1> USE DEF IInv
<1>1. /\ command[w] = "alive" /\ run[w].at = "report" /\ w \in Workers /\ w \notin Floors
      /\ UNCHANGED <<pc, seen, lock, latest, overlapped, command, completion, truncated, runToken>>
      /\ run[w] \in RunRecord /\ Moves(w, "exiting")
      /\ summary' = [run |-> w, whole |-> run[w].whole]
  BY LockAssumption DEF Report, Running, Keep, RunInv, RunTypeOK
<1>2. PICK r \in RunRecord :
        run' = [run EXCEPT ![w] = r] /\ r.at = "exiting" /\ r = [run[w] EXCEPT !.at = "exiting"]
  BY <1>1, MovesInRun DEF Places, RunInv
<1>3. r.headSha = run[w].headSha
  BY <1>1, <1>2 DEF RunRecord
<1>4. /\ completion' \in [headSha : Heads \cup {NoOne}, runToken : Workers \cup {NoOne}]
      /\ truncated' \in SUBSET Markers /\ runToken' \in Workers \cup {NoOne}
      /\ summary' \in [run : Workers \cup {NoOne}, whole : BOOLEAN]
  BY <1>1 DEF RunInv, RunTypeOK, RunRecord
<1>5. RunTypeOK' /\ PlacesInv' /\ EndedInv' /\ LatestInv' /\ run'[w] = r
  BY <1>1, <1>2, <1>4, CommandMoved
<1>6. ASSUME ~overlapped PROVE Apart'
  <2>1. latest = w /\ w # NoOne /\ MarkerOfLatest
    BY <1>1, <1>6, WorkerApart
  <2>2. completion.runToken = w => completion.headSha = run[w].headSha /\ run[w].whole
    BY <1>1, <2>1 DEF MarkerOfLatest
  <2>3. run[w].whole => run[w].whole = TRUE
    BY <1>1 DEF RunRecord
  <2>4. MarkerOfLatest'
    BY <1>1, <1>2, <1>3, <1>5, <2>1, <2>2, <2>3 DEF MarkerOfLatest
  <2> QED BY <1>1, <1>6, <2>4, WorkerStaysApart
<1> QED BY <1>1, <1>5, <1>6 DEF RunInv

LEMMA EndKeepsRuns == ASSUME IInv, NEW w \in Wrappers, EndCommand(w) PROVE RunInv'
<1> USE DEF IInv
<1> DEFINE r == [NoRun EXCEPT !.headSha = run[w].headSha]
<1>1. /\ command[w] = "alive" /\ command' = [command EXCEPT ![w] = "dead"]
      /\ run[w].at \in {"exiting", "void", "unreadable", "judged"} /\ run[w] \in RunRecord
      /\ run' = [run EXCEPT ![w] = r]
      /\ UNCHANGED <<pc, seen, lock, latest, overlapped, completion, truncated, runToken,
                     summary, head>>
  BY DEF EndCommand, CommandExits, RunInv, RunTypeOK
<1>2. r \in RunRecord /\ r.at = "none" /\ r.headSha = run[w].headSha
  BY <1>1 DEF RunRecord, NoRun
<1> HIDE DEF r
<1>3. /\ completion' \in [headSha : Heads \cup {NoOne}, runToken : Workers \cup {NoOne}]
      /\ truncated' \in SUBSET Markers /\ runToken' \in Workers \cup {NoOne}
      /\ summary' \in [run : Workers \cup {NoOne}, whole : BOOLEAN]
  BY <1>1 DEF RunInv, RunTypeOK
<1>4. /\ RunTypeOK' /\ PlacesInv' /\ EndedInv' /\ LatestInv' /\ run'[w] = r
      /\ \A v \in Wrappers : v # w => run'[v] = run[v]
  BY <1>1, <1>2, <1>3, CommandMoved
<1>5. ASSUME Apart PROVE Apart'
  <2>1. \A v \in Wrappers : command'[v] = "alive" => command[v] = "alive" /\ v # w
    BY <1>1 DEF LockInv, LockTypeOK
  <2>2. latest \in Wrappers \cup {NoOne}
    BY DEF RunInv, RunTypeOK, Wrappers
  <2>3. MarkerOfLatest'
    BY <1>1, <1>2, <1>4, <1>5, <2>2 DEF Apart, MarkerOfLatest
  <2>4. \A f \in Floors : command'[f] = "alive" => StillSo(f)'
    BY <1>1, <1>4, <1>5, <2>1, <2>2, <1>2 DEF Apart, StillSo, LatestOver, Wrappers
  <2> QED BY <1>1, <1>5, <2>1, <2>3, <2>4 DEF Apart, Wrappers
<1> QED BY <1>1, <1>4, <1>5 DEF RunInv

(* A floor check reads and writes no file of the run's.                     *)
LEMMA FloorStepKeeps ==
  ASSUME IInv, NEW f \in Floors, command[f] = "alive", run[f].at # "none", Checking,
         NEW r \in RunRecord, run' = [run EXCEPT ![f] = r],
         r.at \in {"completion", "token", "summary", "void", "unreadable", "judged"},
         StillSo(f) =>
           /\ r.at \in {"token", "summary"} =>
                completion.headSha = head /\ r.token = completion.runToken
           /\ r.at = "summary" => runToken = r.token /\ runToken # NoOne
  PROVE  RunInv'
<1> USE DEF IInv
<1>1. f \in Wrappers /\ f \notin Workers
  BY LockAssumption DEF Wrappers
<1>2. UNCHANGED <<pc, seen, lock, latest, overlapped, command, completion, truncated, runToken,
                  summary, head>>
  BY DEF Checking, Keep
<1>3. /\ completion' \in [headSha : Heads \cup {NoOne}, runToken : Workers \cup {NoOne}]
      /\ truncated' \in SUBSET Markers /\ runToken' \in Workers \cup {NoOne}
      /\ summary' \in [run : Workers \cup {NoOne}, whole : BOOLEAN]
  BY <1>2 DEF RunInv, RunTypeOK
<1>4. /\ RunTypeOK' /\ PlacesInv' /\ EndedInv' /\ LatestInv' /\ run'[f] = r
      /\ \A v \in Wrappers : v # f => run'[v] = run[v]
  BY <1>1, <1>2, <1>3, CommandMoved
<1>5. ASSUME Apart PROVE Apart'
  <2>1. StillSo(f) /\ latest \in Wrappers /\ latest # f /\ MarkerOfLatest
    BY <1>1, <1>5 DEF Apart, StillSo, LatestOver, Wrappers
  <2>2. MarkerOfLatest' /\ (LatestOver => LatestOver')
    BY <1>2, <1>4, <2>1 DEF MarkerOfLatest, LatestOver
  <2>3. StillSo(f)'
    BY <1>2, <1>4, <2>1, <2>2 DEF StillSo
  <2>4. \A v \in Wrappers : command[v] = "alive" => v = f
    BY <1>1, <1>5 DEF Apart
  <2> QED BY <1>1, <1>2, <1>5, <2>2, <2>3, <2>4 DEF Apart, Wrappers
<1> QED BY <1>2, <1>4, <1>5 DEF RunInv


LEMMA FloorMoves ==
  ASSUME IInv, NEW f \in Floors, command[f] = "alive", run[f].at # "none", Checking,
         NEW place \in {"completion", "void", "unreadable", "judged", "summary"}, Moves(f, place),
         place = "summary" => run[f].at = "token" /\ runToken = run[f].token /\ runToken # NoOne
  PROVE  RunInv'
<1>1. run[f] \in RunRecord /\ RunTypeOK /\ f \in Wrappers /\ place \in Places
  BY DEF IInv, RunInv, RunTypeOK, Wrappers, Places
<1>2. PICK r \in RunRecord :
        run' = [run EXCEPT ![f] = r] /\ r.at = place /\ r = [run[f] EXCEPT !.at = place]
  BY <1>1, MovesInRun
<1>3. r.token = run[f].token
  BY <1>1, <1>2 DEF RunRecord
<1> QED BY <1>2, <1>3, FloorStepKeeps DEF StillSo

LEMMA CheckKeeps ==
  ASSUME IInv, NEW f \in Wrappers,
         CheckTruncation(f) \/ CheckCompletion(f) \/ CheckToken(f) \/ CheckFloors(f)
  PROVE  RunInv'
<1>1. command[f] = "alive" /\ Checking /\ run[f].at \in {"begin", "completion", "token", "summary"}
  BY DEF CheckTruncation, CheckCompletion, CheckToken, CheckFloors, Running
<1>2. f \in Floors
  <2>1. f \notin Workers \/ CheckTruncation(f)
    BY DEF CheckCompletion, CheckToken, CheckFloors, Running, IInv, RunInv, PlacesInv
  <2> QED BY <2>1 DEF CheckTruncation, Wrappers
<1>3. CASE CheckTruncation(f)
  BY <1>1, <1>2, <1>3, FloorMoves DEF CheckTruncation
<1>4. CASE CheckCompletion(f)
  <2>1. CASE Moves(f, "void")
    BY <1>1, <1>2, <2>1, FloorMoves
  <2>2. CASE /\ CompletedHere
             /\ run' = [run EXCEPT ![f].at = "token", ![f].token = completion.runToken]
    <3> DEFINE r == [run[f] EXCEPT !.at = "token", !.token = completion.runToken]
    <3>1. run[f] \in RunRecord /\ completion.runToken \in Workers \cup {NoOne}
      BY DEF IInv, RunInv, RunTypeOK
    <3>2. r \in RunRecord /\ r.at = "token" /\ r.token = completion.runToken
      BY <3>1 DEF RunRecord
    <3>3. run' = [run EXCEPT ![f] = r]
      BY <2>2 DEF IInv, RunInv, RunTypeOK
    <3> HIDE DEF r
    <3> QED BY <1>1, <1>2, <2>2, <3>2, <3>3, FloorStepKeeps DEF CompletedHere
  <2> QED BY <1>4, <2>1, <2>2 DEF CheckCompletion
<1>5. CASE CheckToken(f)
  BY <1>1, <1>2, <1>5, FloorMoves DEF CheckToken, TokenMatches, Running
<1>6. CASE CheckFloors(f)
  BY <1>1, <1>2, <1>6, FloorMoves DEF CheckFloors
<1> QED BY <1>3, <1>4, <1>5, <1>6

LEMMA Inductive == IInv /\ [Next]_vars => IInv'
<1> SUFFICES ASSUME IInv, [Next]_vars PROVE IInv'
  OBVIOUS
<1>1. LockInv'
  BY LockKeeps DEF IInv
<1>2. ASSUME NEW w \in Wrappers, CommandStep(w) PROVE RunInv'
  BY <1>2, BeginRunKeeps, BatchStepKeeps, CompleteKeeps, CutShortKeeps, ReportKeeps,
     CheckKeeps, EndKeepsRuns DEF CommandStep
<1>3. CASE UNCHANGED vars
  BY <1>1, <1>3 DEF vars, lockVars, runVars, IInv, RunInv, RunTypeOK, PlacesInv, EndedInv, LatestInv,
              OfLatest, LatestOver, Apart, MarkerOfLatest, StillSo, Active
<1> QED BY <1>1, <1>2, <1>3, LockStepKeepsRuns, StartKeepsRuns, SystemKeepsRuns DEF IInv, Next

LEMMA Initially == Init => IInv
<1> SUFFICES ASSUME Init PROVE RunInv
  BY LockInitially DEF IInv
<1>1. \A w \in Wrappers : run[w] = NoRun /\ command[w] = "unborn" /\ pc[w] = "idle"
  BY DEF Init, LockInit
<1>2. RunTypeOK
  BY DEF Init, RunTypeOK, NoRun, NoMarker, NoSummary, RunRecord, Markers
<1>3. PlacesInv /\ EndedInv
  BY <1>1 DEF PlacesInv, EndedInv, NoRun, Wrappers
<1>4. LatestInv
  BY <1>1 DEF Init, LockInit, LatestInv, NoMarker, OfLatest, NoRecord, Active, Returned, Wrappers
<1>5. Apart
  BY <1>1 DEF Apart, MarkerOfLatest, Init, Wrappers
<1> QED BY <1>2, <1>3, <1>4, <1>5 DEF RunInv

(* The inductive invariant of the lock, its wrappers and their commands.    *)
THEOREM Invariance == Spec => []IInv
  BY Initially, Inductive, PTL DEF Spec

-----------------------------------------------------------------------------
(* The lock.                                                                *)

LEMMA NoneBeside == IInv /\ [Next]_vars => StartsBesideOrphans
<1> SUFFICES ASSUME IInv, [Next]_vars, NEW w \in Wrappers, NEW v \in Wrappers,
                    command[w] = "unborn", command'[w] = "alive", command[v] = "alive"
             PROVE  pc[v] = "killed" /\ lock.floorJob # v
  BY DEF StartsBesideOrphans
<1>1. command \in [Wrappers -> ProcStates] /\ w # v
  BY DEF IInv, LockInv, LockTypeOK
<1>2. StartCommand(w)
  <2>1. ASSUME NEW u \in Wrappers, LockStep(u) PROVE FALSE
    BY <2>1, LockStepShape DEF IInv
  <2>2. ASSUME NEW u \in Wrappers, StartCommand(u) PROVE u = w
    BY <1>1, <2>2 DEF StartCommand, SpawnCommand
  <2>3. ASSUME NEW u \in Wrappers, CommandStep(u) PROVE FALSE
    BY <1>1, <2>3
       DEF CommandStep, Keep, Checking, BeginRun, StreamEnds, JunitFinishes, Complete, TimesOut,
           TestsKilled, Report, CheckTruncation, CheckCompletion, CheckToken, CheckFloors,
           EndCommand, CommandExits
  <2>4. ~Environment /\ ~UNCHANGED vars
    BY <1>1 DEF Environment, PidReused, Checkout, vars, lockVars
  <2> QED BY <2>1, <2>2, <2>3, <2>4 DEF Next
<1>3. pc[w] = "spawn" /\ Active(w)
  BY <1>2 DEF StartCommand, SpawnCommand, Active, Returned
<1>4. pc[v] \in Returned /\ CommandFits(pc[v], command[v])
  BY <1>1, <1>3, AWrapper DEF IInv, Alone, Active
<1>5. lock.floorJob = NoOne \/ command[lock.floorJob] # "alive"
  BY <1>3 DEF IInv, LockInv
<1> QED BY <1>4, <1>5, LockAssumption DEF CommandFits, Returned, Wrappers

LEMMA CauseFound == IInv /\ [Next]_vars => RefusesForCause
<1> SUFFICES ASSUME IInv, [Next]_vars, NEW w \in Workers, pc[w] # "refused",
                    pc'[w] = "refused", mishaps' = mishaps
             PROVE  CauseToRefuse(seen[w])
  BY DEF RefusesForCause
<1>1. /\ pc \in [Wrappers -> Steps] /\ mishaps \in Nat /\ w \in Wrappers /\ w \notin Floors
      /\ wrapper \in [Wrappers -> ProcStates] /\ command \in [Wrappers -> ProcStates]
  BY LockAssumption DEF IInv, LockInv, LockTypeOK, Wrappers
<1>2. ~Mishap
  BY <1>1 DEF Mishap
<1>3. CheckOwner(w) \/ CheckFloor(w)
  <2>1. PICK u \in Wrappers : LockStep(u) \/ StartCommand(u) \/ CommandStep(u)
    BY DEF Next, Environment, PidReused, Checkout, vars, lockVars
  <2>2. LockStep(u)
    <3>1. ~StartCommand(u)
      BY <1>1 DEF StartCommand, SpawnCommand, Goes
    <3>2. ~CommandStep(u)
      BY DEF CommandStep, Keep, Checking, BeginRun, StreamEnds, JunitFinishes, Complete, TimesOut,
             TestsKilled, Report, CheckTruncation, CheckCompletion, CheckToken, CheckFloors,
             EndCommand, CommandExits
    <3> QED BY <2>1, <3>1, <3>2
  <2>3. u = w
    BY <2>2, <1>1, LockStepShape DEF IInv
  <2>4. ~WorkerStarts(w) /\ ~FloorStarts(w)
    BY <1>1, <1>2 DEF WorkerStarts, FloorStarts, Goes
  <2>5. ~WriteWorking(w) /\ ~SpawnFails(w) /\ ~WritePid(w) /\ ~WritePublishing(w)
    BY <1>1 DEF WriteWorking, SpawnFails, WritePid, WritePublishing, Writes, Goes
  <2>6. ~WriteFloorPid(w) /\ ~WriteFloorIdentity(w) /\ ~WriteDone(w)
    BY <1>1 DEF WriteFloorPid, WriteFloorIdentity, WriteDone, Writes, Goes
  <2>7. /\ ~HeedsSigterm(w) /\ ~Abandon(w) /\ ~Release(w) /\ ~WrapperExits(w)
        /\ ~WrapperKilled(w)
    BY <1>1 DEF HeedsSigterm, Abandon, Release, WrapperExits, WrapperKilled, Goes
  <2> QED BY <2>2, <2>3, <2>4, <2>5, <2>6, <2>7 DEF LockStep
<1>4. CASE CheckOwner(w)
  <2> DEFINE r == seen[w]
             id == IF r.ownerKnown THEN r.owner ELSE NoOne
  <2>1. /\ pc[w] = "checkOwner" /\ Sound(r) /\ r.phase \notin {"none", "done"}
        /\ OwnerStands(r)
    BY <1>1, <1>4, AWrapper DEF IInv, CheckOwner, Carries, Active, Returned
  <2>2. r.owner \in Workers /\ r.owner # NoOne /\ r.ownerKnown \in BOOLEAN
    BY <2>1, LockAssumption DEF Sound, LockRecord
  <2>3. PICK verdict \in Verdicts(wrapper[r.owner], id, r.owner) :
          /\ Observed(verdict)
          /\ pc' = [pc EXCEPT ![w] = IF Blocks(verdict) THEN "refused"
                                     ELSE IF r.phase = "floor-running" THEN "checkFloor"
                                     ELSE "writeWorking"]
    BY <1>4 DEF CheckOwner, OwnerVerdicts, Goes
  <2>4. Blocks(verdict) /\ verdict # "observer-failure"
    BY <1>1, <1>2, <2>3 DEF Observed
  <2>5. wrapper[r.owner] \in ProcStates /\ id \in {NoOne, r.owner}
    BY <1>1, <2>2 DEF Wrappers
  <2>6. wrapper[r.owner] = "alive" \/ (wrapper[r.owner] = "recycled" /\ id = NoOne)
    BY <2>2, <2>3, <2>4, <2>5, VerdictsOfAPid
  <2>7. id = NoOne => ~r.ownerKnown
    BY <2>2
  <2> QED BY <2>1, <2>2, <2>6, <2>7 DEF CauseToRefuse, OwnerStands
<1>5. CASE CheckFloor(w)
  <2> DEFINE r == seen[w]
  <2>1. pc[w] = "checkFloor" /\ Sound(r) /\ r.phase = "floor-running"
    BY <1>1, <1>5, AWrapper DEF IInv, CheckFloor, Carries
  <2>2. r.floorJob \in Floors /\ r.floorJob # NoOne /\ r.floorIdentity \in {NoOne, r.floorJob}
    BY <2>1, LockAssumption DEF Sound
  <2>3. PICK verdict \in Verdicts(command[r.floorJob], r.floorIdentity, r.floorJob) :
          /\ Observed(verdict)
          /\ pc' = [pc EXCEPT ![w] = IF Blocks(verdict) THEN "refused"
                                     ELSE IF w \in Workers THEN "writeWorking" ELSE "spawn"]
    BY <1>5 DEF CheckFloor, FloorVerdicts, Goes
  <2>4. Blocks(verdict) /\ verdict # "observer-failure"
    BY <1>1, <1>2, <2>3 DEF Observed
  <2>5. command[r.floorJob] \in ProcStates
    BY <1>1, <2>2 DEF Wrappers
  <2>6. \/ command[r.floorJob] = "alive"
        \/ command[r.floorJob] = "recycled" /\ r.floorIdentity = NoOne
    BY <2>2, <2>3, <2>4, <2>5, VerdictsOfAPid
  <2> QED BY <2>1, <2>6 DEF CauseToRefuse
<1> QED BY <1>3, <1>4, <1>5

(* For any wrappers, one after the other, and any kills and reused pids: a  *)
(* command starts beside another only if that one's wrapper was killed and  *)
(* the lock does not name it; a worker is refused only for a process that   *)
(* still has its part to play or cannot be told from one; and the floor     *)
(* job's identity in the lock is that job's.                                *)
THEOREM LockStaysSound == Spec => LockIsSound
<1>1. IInv => IdentityIsTheJobs
  BY DEF IInv, LockInv, Sound, IdentityIsTheJobs
<1> QED BY <1>1, NoneBeside, CauseFound, Invariance, PTL
        DEF Spec, LockIsSound, OverlapIsUnrecorded, RefusedForCause

-----------------------------------------------------------------------------
(* The floor check.                                                         *)

LEMMA OwnRunOnly ==
  ASSUME run \in [Wrappers -> RunRecord], NEW w \in Wrappers, StartCommand(w) \/ CommandStep(w),
         NEW v \in Wrappers, v # w
  PROVE  run'[v] = run[v]
<1>1. CASE StartCommand(w) \/ BeginRun(w) \/ TimesOut(w) \/ TestsKilled(w) \/ Report(w)
  BY <1>1 DEF StartCommand, BeginRun, TimesOut, TestsKilled, Report, Moves
<1>2. CASE StreamEnds(w) \/ JunitFinishes(w)
  BY <1>2 DEF StreamEnds, JunitFinishes
<1>3. CASE Complete(w) \/ EndCommand(w)
  BY <1>3 DEF Complete, EndCommand
<1>4. CASE CheckTruncation(w) \/ CheckCompletion(w) \/ CheckToken(w) \/ CheckFloors(w)
  BY <1>4 DEF CheckTruncation, CheckCompletion, CheckToken, CheckFloors, Moves
<1> QED BY <1>1, <1>2, <1>3, <1>4 DEF CommandStep

LEMMA JudgedIsEarned == IInv /\ [Next]_vars => JudgesTheEarned
<1> SUFFICES ASSUME IInv, [Next]_vars, NEW f \in Floors, Judges(f), runToken = latest, ~overlapped
             PROVE  Earned
  BY DEF JudgesTheEarned
<1>1. /\ f \in Wrappers /\ run \in [Wrappers -> RunRecord] /\ run[f].at = "summary"
      /\ run'[f].at = "judged"
  BY DEF IInv, RunInv, RunTypeOK, Wrappers, Judges
<1>2. command[f] = "alive"
  <2>1. PICK u \in Wrappers : StartCommand(u) \/ CommandStep(u)
    BY <1>1 DEF Next, LockStep, Environment, vars, runVars
  <2>2. u = f
    BY <1>1, <2>1, OwnRunOnly
  <2>3. ~StartCommand(f)
    BY <1>1 DEF StartCommand, Moves, RunRecord
  <2> QED BY <2>1, <2>2, <2>3
          DEF CommandStep, Running, BeginRun, StreamEnds, JunitFinishes, Complete, TimesOut,
              TestsKilled, Report, CheckTruncation, CheckCompletion, CheckToken, CheckFloors,
              EndCommand, CommandExits
<1>3. StillSo(f) /\ MarkerOfLatest
  BY <1>2 DEF IInv, RunInv, Apart
<1>4. /\ latest \in Workers /\ latest # NoOne /\ run[latest].at = "none"
      /\ completion.runToken = latest /\ completion.headSha = head
  BY <1>1, <1>3, LockAssumption DEF StillSo, LatestOver
<1> QED BY <1>3, <1>4 DEF MarkerOfLatest, Earned

(* For any wrappers, batches and mishaps: with the last run's token on disk *)
(* and no two commands having overlapped, the floor check judges nothing    *)
(* but the whole summary that run wrote of the commit checked out now.      *)
THEOREM VerdictsStayEarned == Spec => VerdictIsEarned
<1> QED BY JudgedIsEarned, Invariance, PTL DEF Spec, VerdictIsEarned

-----------------------------------------------------------------------------
(* The pins.                                                                *)

Triple    == Nat \X Nat \X Nat
Ranges    == [shape : {">= <", "other"}, min : Triple, max : Triple]
PeerNames == PEER_RANGE_PACKAGES_TO_CHECK \cup {NewPeer}
Peers     ==
  [entry : {"none", "file", "directory", "symlink"}, manifest : {"readable", "missing", "unreadable"},
   peer : BOOLEAN, range : Ranges]
Entries   == [version : Specs, dev : BOOLEAN]

PinTypes ==
  /\ pinEdits \in Nat /\ pinStage \in {"editing", "accepted", "rejected"}
  /\ lockEntries \in [Packages -> Entries]
  /\ peers \in [PeerNames -> Peers] /\ typescript \in Triple

(* What the repository holds before anybody edits it.                       *)
AsItStands ==
  /\ manifest =
       [dependencies    |-> [p \in Packages |-> IF p = Server THEN REQUIRED_MCP_SDK_VERSION ELSE None0],
        devDependencies |-> [p \in Packages |-> IF p = Client THEN REQUIRED_MCP_SDK_VERSION ELSE None0]]
  /\ lockRoot = manifest
  /\ lockEntries =
       [p \in Packages |-> [version |-> IF p = UnknownPackage THEN None0 ELSE REQUIRED_MCP_SDK_VERSION,
                            dev |-> p = Client]]
  /\ requestOfServer = REQUIRED_MCP_SDK_VERSION
  /\ schema = "first" /\ digest = "first"
  /\ peers = [p \in PeerNames |->
                [entry |-> IF p = NewPeer THEN "none" ELSE "directory", manifest |-> "readable",
                 peer |-> TRUE, range |-> Below(<<1, 1, 0>>)]]
  /\ typescript = <<1, 0, 1>>

(* What is true of the dependencies that pass.                              *)
Pinned ==
  /\ InstalledForProduction = {<<p, REQUIRED_MCP_SDK_VERSION>> : p \in {Server, Core}}
  /\ lockEntries[Client] = [version |-> REQUIRED_MCP_SDK_VERSION, dev |-> TRUE]
  /\ schema = digest
  /\ \A p \in AsksForTypescript :
       ~Before(typescript, peers[p].range.min) /\ Before(typescript, peers[p].range.max)

PinInv == PinTypes /\ (pinEdits = 0 => AsItStands) /\ PinsHold

-----------------------------------------------------------------------------
LEMMA SpecsAre ==
  /\ REQUIRED_MCP_SDK_VERSION \in Specs /\ None0 \in Specs /\ REQUIRED_MCP_SDK_VERSION # None0
  /\ Packages = {Server, Core, Client, UnknownPackage}
  /\ Server # Core /\ Server # Client /\ Core # Client
  /\ UnknownPackage # Server /\ UnknownPackage # Core /\ UnknownPackage # Client
BY PinsAssumption DEF Specs, Packages, Server, Core, Client

LEMMA BelowIsRange == ASSUME NEW max \in Triple PROVE Below(max) \in Ranges
BY DEF Below, Ranges, Triple

(* compareSemver is the order of versions.                                  *)
LEMMA CompareIsBefore ==
  ASSUME NEW a \in Triple, NEW b \in Triple
  PROVE  Before(a, b) <=> compareSemver(a, b) < 0
<1>1. /\ a[1] \in Nat /\ a[2] \in Nat /\ a[3] \in Nat
      /\ b[1] \in Nat /\ b[2] \in Nat /\ b[3] \in Nat
  BY DEF Triple
<1>2. Before(a, b) <=> \/ a[1] < b[1]
                       \/ a[2] < b[2] /\ a[1] = b[1]
                       \/ a[3] < b[3] /\ a[1] = b[1] /\ a[2] = b[2]
  <2>1. (\A j \in 1 .. 1 - 1 : a[j] = b[j]) <=> TRUE OBVIOUS
  <2>2. (\A j \in 1 .. 2 - 1 : a[j] = b[j]) <=> a[1] = b[1] OBVIOUS
  <2>3. (\A j \in 1 .. 3 - 1 : a[j] = b[j]) <=> a[1] = b[1] /\ a[2] = b[2]
    <3>1. 1 .. 3 - 1 = {1, 2} OBVIOUS
    <3> QED BY <3>1
  <2>4. 1 .. 3 = {1, 2, 3} OBVIOUS
  <2> QED BY <2>1, <2>2, <2>3, <2>4 DEF Before
<1> QED BY <1>1, <1>2 DEF compareSemver

(* A package that asks for a TypeScript is on the list, or nothing passes.  *)
LEMMA AskersAreListed ==
  ASSUME PinTypes, verifyPeerPackageInventoryComplete, NEW p \in AsksForTypescript
  PROVE  p \in PEER_RANGE_PACKAGES_TO_CHECK /\ readAndParsePackageJson(p) = "yes"
<1>1. /\ p \in PeerNames /\ DOMAIN peers = PeerNames
      /\ peers[p].entry \in {"directory", "symlink"} /\ peers[p].manifest # "missing" /\ peers[p].peer
  BY DEF AsksForTypescript, PinTypes
<1>2. readAndParsePackageJson(p) # "indeterminate" BY <1>1 DEF verifyPeerPackageInventoryComplete
<1>3. ~(peers[p].entry \in {"none", "file"}) BY <1>1
<1>4. peers[p].manifest # "unreadable"
  <2> SUFFICES ASSUME peers[p].manifest = "unreadable" PROVE FALSE OBVIOUS
  <2> QED BY <1>2, <1>3 DEF readAndParsePackageJson
<1>5. readAndParsePackageJson(p) = "yes" BY <1>1, <1>3, <1>4 DEF readAndParsePackageJson
<1>6. p \in discoverInstalledTypescriptPeerPackages
  BY <1>1, <1>5 DEF discoverInstalledTypescriptPeerPackages
<1> QED BY <1>5, <1>6 DEF verifyPeerPackageInventoryComplete

LEMMA AcceptedIsPinned ==
  ASSUME PinTypes, checkSdkExactPin, checkTypescriptPeerRange
  PROVE  Pinned
<1> USE SpecsAre
<1>1. \A p \in {Server, Core} : lockEntries[p].version = REQUIRED_MCP_SDK_VERSION
  BY DEF checkSdkExactPin, PINNED_PACKAGES, PinnedExactly, resolveLockedVersion
<1>2. \A p \in {Server, Core} : ~lockEntries[p].dev
  <2> SUFFICES ASSUME NEW p \in {Server, Core}, lockEntries[p].dev PROVE FALSE OBVIOUS
  <2>1. p \in developmentModelContextProtocolPackages
    BY <1>1 DEF developmentModelContextProtocolPackages
  <2> QED BY <2>1 DEF checkSdkExactPin, PINNED_DEV_PACKAGES
<1>3. {q \in Packages : lockEntries[q].version # None0 /\ ~lockEntries[q].dev} = {Server, Core}
  <2>1. {q \in Packages : lockEntries[q].version # None0 /\ ~lockEntries[q].dev} \subseteq {Server, Core}
    BY DEF checkSdkExactPin, PINNED_PACKAGES, productionModelContextProtocolPackages
  <2> QED BY <1>1, <1>2, <2>1
<1>4. InstalledForProduction = {<<p, REQUIRED_MCP_SDK_VERSION>> : p \in {Server, Core}}
  BY <1>1, <1>3 DEF InstalledForProduction
<1>5. lockEntries[Client] = [version |-> REQUIRED_MCP_SDK_VERSION, dev |-> TRUE]
  <2>1. checkExpectedDevPackage(Client) BY DEF checkSdkExactPin, PINNED_DEV_PACKAGES
  <2>2. lockEntries[Client].version = REQUIRED_MCP_SDK_VERSION /\ lockEntries[Client].dev
    BY <2>1 DEF checkExpectedDevPackage
  <2>3. lockEntries[Client] \in Entries BY DEF PinTypes
  <2> QED BY <2>2, <2>3 DEF Entries
<1>6. schema = digest BY DEF checkSdkExactPin, checkTasksExtensionSchemaPin
<1>7. ASSUME NEW p \in AsksForTypescript
      PROVE  ~Before(typescript, peers[p].range.min) /\ Before(typescript, peers[p].range.max)
  <2>1. verifyPeerPackageInventoryComplete BY DEF checkTypescriptPeerRange
  <2>2. p \in PEER_RANGE_PACKAGES_TO_CHECK /\ readAndParsePackageJson(p) = "yes"
    BY <2>1, AskersAreListed
  <2>3. versionSatisfiesRange(typescript, peers[p].range) BY <2>2 DEF checkTypescriptPeerRange
  <2>4. typescript \in Triple /\ peers[p].range.min \in Triple /\ peers[p].range.max \in Triple
    BY <2>2 DEF PinTypes, PeerNames, Peers, Ranges
  <2>5. /\ compareSemver(typescript, peers[p].range.min) >= 0
        /\ compareSemver(typescript, peers[p].range.max) < 0
    BY <2>3 DEF versionSatisfiesRange
  <2>6. Before(typescript, peers[p].range.max) BY <2>4, <2>5, CompareIsBefore
  <2>7. Before(typescript, peers[p].range.min) => compareSemver(typescript, peers[p].range.min) < 0
    BY <2>4, CompareIsBefore
  <2>8. compareSemver(typescript, peers[p].range.min) \in Int BY <2>4 DEF Triple, compareSemver
  <2> QED BY <2>5, <2>6, <2>7, <2>8
<1> QED BY <1>4, <1>5, <1>6, <1>7 DEF Pinned

(* What nobody edited passes both guards.                                   *)
LEMMA UneditedPasses ==
  ASSUME AsItStands
  PROVE  checkSdkExactPin /\ checkTypescriptPeerRange
<1> USE SpecsAre
<1>1. /\ lockEntries[Server] = [version |-> REQUIRED_MCP_SDK_VERSION, dev |-> FALSE]
      /\ lockEntries[Core] = [version |-> REQUIRED_MCP_SDK_VERSION, dev |-> FALSE]
      /\ lockEntries[Client] = [version |-> REQUIRED_MCP_SDK_VERSION, dev |-> TRUE]
      /\ lockEntries[UnknownPackage].version = None0
  BY DEF AsItStands
<1>2. /\ manifest.dependencies[Server] = REQUIRED_MCP_SDK_VERSION
      /\ manifest.dependencies[Client] = None0 /\ lockRoot.dependencies[Client] = None0
      /\ manifest.devDependencies[Client] = REQUIRED_MCP_SDK_VERSION
      /\ lockRoot.devDependencies[Client] = REQUIRED_MCP_SDK_VERSION
  BY DEF AsItStands
<1>3. checkSdkExactPin
  <2>1. \A p \in PINNED_PACKAGES : PinnedExactly(p)
    BY <1>1, <1>2, PinsAssumption
    DEF PINNED_PACKAGES, PinnedExactly, resolveLockedVersion, resolveParentRequestedSpec, isExactSemver, AsItStands
  <2>2. productionModelContextProtocolPackages \subseteq PINNED_PACKAGES
    BY <1>1 DEF productionModelContextProtocolPackages, PINNED_PACKAGES
  <2>3. developmentModelContextProtocolPackages \subseteq PINNED_DEV_PACKAGES
    BY <1>1 DEF developmentModelContextProtocolPackages, PINNED_DEV_PACKAGES
  <2>4. checkExpectedDevPackage(Client)
    <3> DEFINE sites == {manifest.devDependencies[Client], lockRoot.devDependencies[Client],
                         lockEntries[Client].version}
    <3>1. lockEntries[Client].version = REQUIRED_MCP_SDK_VERSION /\ lockEntries[Client].dev = TRUE BY <1>1
    <3>2. sites = {REQUIRED_MCP_SDK_VERSION} BY <1>2, <3>1
    <3>3. Cardinality({REQUIRED_MCP_SDK_VERSION}) = 1 BY FS_Singleton
    <3>4. isExactSemver(REQUIRED_MCP_SDK_VERSION) BY PinsAssumption DEF isExactSemver
    <3>5. checkExpectedDevPackage(Client)
            <=> /\ manifest.dependencies[Client] = None0 /\ lockRoot.dependencies[Client] = None0
                /\ \A spec \in sites : isExactSemver(spec) /\ spec = REQUIRED_MCP_SDK_VERSION
                /\ lockEntries[Client].dev /\ Cardinality(sites) = 1
      BY DEF checkExpectedDevPackage
    <3> HIDE DEF sites
    <3>6. \A spec \in sites : isExactSemver(spec) /\ spec = REQUIRED_MCP_SDK_VERSION BY <3>2, <3>4
    <3>7. Cardinality(sites) = 1 BY <3>2, <3>3
    <3> QED BY <1>2, <3>1, <3>5, <3>6, <3>7
  <2>5. checkTasksExtensionSchemaPin BY DEF AsItStands, checkTasksExtensionSchemaPin, None0
  <2> QED BY <2>1, <2>2, <2>3, <2>4, <2>5 DEF checkSdkExactPin, PINNED_DEV_PACKAGES
<1>4. DOMAIN peers = PeerNames BY DEF AsItStands
<1>5. ASSUME NEW p \in PEER_RANGE_PACKAGES_TO_CHECK
      PROVE  readAndParsePackageJson(p) = "yes" /\ peers[p].range = Below(<<1, 1, 0>>)
  <2>1. p \in PeerNames /\ p # NewPeer BY PinsAssumption DEF PeerNames
  <2>2. peers[p] = [entry |-> "directory", manifest |-> "readable", peer |-> TRUE, range |-> Below(<<1, 1, 0>>)]
    BY <2>1 DEF AsItStands
  <2>3. /\ ~(peers[p].entry \in {"none", "file"})
        /\ peers[p].manifest # "unreadable" /\ peers[p].manifest # "missing"
        /\ peers[p].peer = TRUE
    BY <2>2
  <2> QED BY <2>2, <2>3 DEF readAndParsePackageJson
<1>6. readAndParsePackageJson(NewPeer) = "no"
  <2>1. peers[NewPeer].entry = "none" BY DEF AsItStands, PeerNames
  <2> QED BY <2>1 DEF readAndParsePackageJson
<1>7. verifyPeerPackageInventoryComplete
  BY <1>4, <1>5, <1>6 DEF verifyPeerPackageInventoryComplete, discoverInstalledTypescriptPeerPackages, PeerNames
<1>8. versionSatisfiesRange(typescript, Below(<<1, 1, 0>>))
  <2>1. Below(<<1, 1, 0>>).min = <<0, 1, 0>> /\ Below(<<1, 1, 0>>).max = <<1, 1, 0>>
        /\ Below(<<1, 1, 0>>).shape = ">= <"
    BY DEF Below
  <2>2. typescript = <<1, 0, 1>> BY DEF AsItStands
  <2>3. compareSemver(<<1, 0, 1>>, <<0, 1, 0>>) >= 0 BY DEF compareSemver
  <2>4. compareSemver(<<1, 0, 1>>, <<1, 1, 0>>) < 0 BY DEF compareSemver
  <2> QED BY <2>1, <2>2, <2>3, <2>4 DEF versionSatisfiesRange, Understood
<1>9. {peers[p].range : p \in {q \in PEER_RANGE_PACKAGES_TO_CHECK : readAndParsePackageJson(q) = "yes"}}
        = {Below(<<1, 1, 0>>)}
  BY <1>5, PinsAssumption
<1>10. Cardinality({Below(<<1, 1, 0>>)}) = 1 BY FS_Singleton
<1>11. checkTypescriptPeerRange BY <1>7, <1>8, <1>9, <1>10 DEF checkTypescriptPeerRange
<1> QED BY <1>3, <1>11

LEMMA PinsStart == PinInit => PinInv
<1> SUFFICES ASSUME PinInit PROVE PinInv OBVIOUS
<1> USE SpecsAre
<1>1. AsItStands BY DEF PinInit, AsItStands, PeerNames
<1>2. PinTypes
  <2>1. lockEntries \in [Packages -> Entries] BY <1>1 DEF AsItStands, Entries
  <2>2. <<1, 1, 0>> \in Triple BY DEF Triple
  <2>3. Below(<<1, 1, 0>>) \in Ranges BY <2>2, BelowIsRange
  <2>4. peers \in [PeerNames -> Peers] BY <1>1, <2>3 DEF AsItStands, Peers
  <2>5. typescript \in Triple BY <1>1 DEF AsItStands, Triple
  <2> QED BY <2>1, <2>4, <2>5 DEF PinTypes, PinInit
<1>3. PinsHold BY DEF PinsHold, PinInit
<1> QED BY <1>1, <1>2, <1>3 DEF PinInv

(* An edit leaves the guards to be asked again.                             *)
LEMMA EditKeepsPins ==
  ASSUME PinInv, PinEdit,
         lockEntries' \in [Packages -> Entries], peers' \in [PeerNames -> Peers], typescript' \in Triple
  PROVE  PinInv'
<1>1. pinEdits' \in Nat /\ pinEdits' > 0 /\ pinStage' = "editing"
  BY DEF PinInv, PinTypes, PinEdit
<1>2. PinTypes' BY <1>1 DEF PinTypes
<1>3. PinsHold' BY <1>1 DEF PinsHold
<1> QED BY <1>1, <1>2, <1>3 DEF PinInv

LEMMA EditedPeers ==
  ASSUME PinTypes, EditPeers
  PROVE  peers' \in [PeerNames -> Peers]
<1>1. peers \in [PeerNames -> Peers] /\ DOMAIN peers = PeerNames BY DEF PinTypes
<1>2. PICK p \in PeerNames :
        \/ \E entry \in {"none", "file", "directory", "symlink"}, read \in {"readable", "missing", "unreadable"},
             peer \in BOOLEAN : peers' = [peers EXCEPT ![p].entry = entry, ![p].manifest = read, ![p].peer = peer]
        \/ \E max \in Triples :
             \/ peers' = [peers EXCEPT ![p].range = Below(max)]
             \/ peers' = [q \in DOMAIN peers |-> [peers[q] EXCEPT !.range = Below(max)]]
        \/ peers' = [q \in DOMAIN peers |-> [peers[q] EXCEPT !.range.shape = "other"]]
  BY <1>1 DEF EditPeers
<1>3. ASSUME NEW entry \in {"none", "file", "directory", "symlink"},
             NEW read \in {"readable", "missing", "unreadable"}, NEW peer \in BOOLEAN,
             peers' = [peers EXCEPT ![p].entry = entry, ![p].manifest = read, ![p].peer = peer]
      PROVE  peers' \in [PeerNames -> Peers]
  <2>1. [peers[p] EXCEPT !.entry = entry, !.manifest = read, !.peer = peer] \in Peers
    BY <1>1 DEF Peers
  <2>2. peers' = [peers EXCEPT ![p] = [@ EXCEPT !.entry = entry, !.manifest = read, !.peer = peer]]
    BY <1>1, <1>3 DEF Peers
  <2> QED BY <1>1, <2>1, <2>2
<1>4. ASSUME NEW max \in Triples,
             \/ peers' = [peers EXCEPT ![p].range = Below(max)]
             \/ peers' = [q \in DOMAIN peers |-> [peers[q] EXCEPT !.range = Below(max)]]
      PROVE  peers' \in [PeerNames -> Peers]
  <2>1. Below(max) \in Ranges BY PinsAssumption, BelowIsRange DEF Triple
  <2> QED BY <1>1, <1>4, <2>1 DEF Peers
<1>5. CASE peers' = [q \in DOMAIN peers |-> [peers[q] EXCEPT !.range.shape = "other"]]
  <2>1. ASSUME NEW q \in PeerNames PROVE [peers[q] EXCEPT !.range.shape = "other"] \in Peers
    <3>1. peers[q] \in Peers BY <1>1
    <3>2. [peers[q].range EXCEPT !.shape = "other"] \in Ranges BY <3>1 DEF Peers, Ranges
    <3>3. [peers[q] EXCEPT !.range = [peers[q].range EXCEPT !.shape = "other"]] \in Peers
      BY <3>1, <3>2 DEF Peers
    <3> QED BY <3>1, <3>3 DEF Peers
  <2> QED BY <1>1, <1>5, <2>1
<1> QED BY <1>2, <1>3, <1>4, <1>5

LEMMA PinsGoOn == PinInv /\ [PinNext]_pinVars => PinInv'
<1> SUFFICES ASSUME PinInv, [PinNext]_pinVars PROVE PinInv' OBVIOUS
<1> USE SpecsAre
<1>0. PinTypes /\ (pinEdits = 0 => AsItStands) /\ PinsHold BY DEF PinInv
<1>1. CASE EditManifest
  <2>1. PinEdit /\ UNCHANGED <<lockEntries, peers, typescript>> BY <1>1 DEF EditManifest, peerVars
  <2> QED BY <1>0, <2>1, EditKeepsPins DEF PinTypes
<1>2. CASE EditLockfile
  <2>1. PinEdit /\ UNCHANGED <<peers, typescript>> BY <1>2 DEF EditLockfile, peerVars
  <2>2. lockEntries' \in [Packages -> Entries] BY <1>0, <1>2 DEF EditLockfile, PinTypes, Entries
  <2> QED BY <1>0, <2>1, <2>2, EditKeepsPins DEF PinTypes
<1>3. CASE MoveTogether
  <2>1. PinEdit /\ UNCHANGED <<peers, typescript>> BY <1>3 DEF MoveTogether, peerVars
  <2>2. PICK spec \in Specs, family \in SUBSET {Server, Core, Client} :
          lockEntries' = [p \in Packages |->
                            IF p \in family THEN [lockEntries[p] EXCEPT !.version = spec] ELSE lockEntries[p]]
    BY <1>3 DEF MoveTogether
  <2>3. lockEntries' \in [Packages -> Entries] BY <1>0, <2>2 DEF PinTypes, Entries
  <2> QED BY <1>0, <2>1, <2>3, EditKeepsPins DEF PinTypes
<1>4. CASE EditSchema
  <2>1. PinEdit /\ UNCHANGED <<lockEntries, peers, typescript>> BY <1>4 DEF EditSchema, peerVars
  <2> QED BY <1>0, <2>1, EditKeepsPins DEF PinTypes
<1>5. CASE EditPeers
  <2>1. PinEdit /\ UNCHANGED <<lockEntries, typescript>> BY <1>5 DEF EditPeers, sdkVars
  <2>2. peers' \in [PeerNames -> Peers] BY <1>0, <1>5, EditedPeers
  <2> QED BY <1>0, <2>1, <2>2, EditKeepsPins DEF PinTypes
<1>6. CASE EditTypescript
  <2>1. PinEdit /\ UNCHANGED <<lockEntries, peers>> /\ typescript' \in Triple
    BY <1>6, PinsAssumption DEF EditTypescript, sdkVars, Triple
  <2> QED BY <1>0, <2>1, EditKeepsPins DEF PinTypes
<1>7. CASE Guard
  <2>1. /\ pinStage' = IF checkSdkExactPin /\ checkTypescriptPeerRange THEN "accepted" ELSE "rejected"
        /\ UNCHANGED <<pinEdits, sdkVars, peerVars>>
    BY <1>7 DEF Guard
  <2>2. PinTypes' /\ (pinEdits' = 0 => AsItStands')
    <3>1. PinTypes' BY <1>0, <2>1 DEF PinTypes, sdkVars, peerVars
    <3>2. AsItStands => AsItStands' BY <2>1 DEF AsItStands, sdkVars, peerVars
    <3> QED BY <1>0, <2>1, <3>1, <3>2
  <2>3. pinStage' = "accepted" => Pinned'
    <3>1. pinStage' = "accepted" => Pinned BY <1>0, <2>1, AcceptedIsPinned
    <3>2. Pinned => Pinned'
      BY <2>1 DEF Pinned, InstalledForProduction, AsksForTypescript, sdkVars, peerVars
    <3> QED BY <3>1, <3>2
  <2>4. pinStage' = "rejected" => pinEdits' > 0
    <3>1. pinStage' = "rejected" => pinEdits # 0 BY <1>0, <2>1, UneditedPasses
    <3> QED BY <1>0, <2>1, <3>1 DEF PinTypes
  <2> QED BY <2>2, <2>3, <2>4 DEF PinInv, PinsHold, Pinned
<1>8. CASE UNCHANGED pinVars
  BY <1>0, <1>8 DEF PinInv, PinTypes, AsItStands, PinsHold, InstalledForProduction, AsksForTypescript,
                    pinVars, sdkVars, peerVars
<1> QED BY <1>1, <1>2, <1>3, <1>4, <1>5, <1>6, <1>7, <1>8 DEF PinNext

(* The inductive invariant of the pins: types, that what nobody edited      *)
(* stands as it stood, and what the guards let pass.                        *)
THEOREM PinsInvariance == PinSpec => []PinInv
BY PinsStart, PinsGoOn, PTL DEF PinSpec

-----------------------------------------------------------------------------
(* Least and greatest numbers.                                              *)

LessOnNat == {ss \in Nat \X Nat : ss[1] < ss[2]}

LEMMA LeastExists ==
  ASSUME NEW S, S \subseteq Nat, S # {}
  PROVE  \E n \in S : \A m \in S : n <= m
<1>1. IsWellFoundedOn(LessOnNat, Nat) BY NatLessThanWellFounded DEF OpToRel, LessOnNat
<1>2. PICK n \in S : \A m \in S : ~(<<m, n>> \in LessOnNat) BY <1>1, WFMin
<1>3. ASSUME NEW m \in S PROVE n <= m
  <2>1. ~(<<m, n>> \in LessOnNat) BY <1>2
  <2> QED BY <2>1 DEF LessOnNat
<1> QED BY <1>3

LEMMA GreatestExists ==
  ASSUME NEW S, S \subseteq Nat, S # {}, NEW b \in Nat, \A x \in S : x <= b
  PROVE  \E n \in S : \A m \in S : n >= m
<1> DEFINE Bounds == {c \in Nat : \A x \in S : x <= c}
<1>1. PICK n \in Bounds : \A c \in Bounds : n <= c
  <2>1. Bounds \subseteq Nat /\ b \in Bounds OBVIOUS
  <2> HIDE DEF Bounds
  <2> QED BY <2>1, LeastExists
<1>2. n \in S
  <2> SUFFICES ASSUME n \notin S PROVE FALSE OBVIOUS
  <2>1. PICK x \in S : TRUE OBVIOUS
  <2>2. n > 0 BY <1>1, <2>1
  <2>3. n - 1 \in Bounds BY <1>1, <2>2
  <2> QED BY <1>1, <2>3
<1> QED BY <1>1, <1>2

LEMMA MaxIs ==
  ASSUME NEW S, S \subseteq Nat, S # {}, NEW b \in Nat, \A x \in S : x <= b
  PROVE  Max(S) \in S /\ \A x \in S : Max(S) >= x
BY GreatestExists DEF Max

LEMMA MinIs ==
  ASSUME NEW S, S \subseteq Nat, S # {}
  PROVE  Min(S) \in S /\ \A x \in S : Min(S) <= x
BY LeastExists DEF Min

LEMMA Induction ==
  ASSUME NEW S, 0 \in S, \A n \in Nat : n \in S => n + 1 \in S
  PROVE  \A n \in Nat : n \in S
<1> SUFFICES ASSUME Nat \ S # {} PROVE FALSE OBVIOUS
<1>1. PICK n \in Nat \ S : \A m \in Nat \ S : n <= m BY LeastExists
<1>2. n # 0 /\ n - 1 \in Nat BY <1>1
<1>3. n - 1 \in S BY <1>1, <1>2
<1>4. (n - 1) + 1 \in S BY <1>2, <1>3
<1> QED BY <1>1, <1>4

LEMMA BoundExists ==
  ASSUME NEW n \in Nat, NEW f, \A i \in 1 .. n : f[i] \in Nat
  PROVE  \E b \in Nat : \A i \in 1 .. n : f[i] <= b
<1> DEFINE S == {m \in Nat : m <= n => \E b \in Nat : \A i \in 1 .. m : f[i] <= b}
<1>1. 0 \in S
  <2>1. 1 .. 0 = {} OBVIOUS
  <2> QED BY <2>1
<1>2. ASSUME NEW m \in Nat, m \in S PROVE m + 1 \in S
  <2> SUFFICES ASSUME m + 1 <= n PROVE \E b \in Nat : \A i \in 1 .. m + 1 : f[i] <= b OBVIOUS
  <2>1. PICK b \in Nat : \A i \in 1 .. m : f[i] <= b BY <1>2
  <2>2. f[m + 1] \in Nat OBVIOUS
  <2>3. PICK c \in Nat : b <= c /\ f[m + 1] <= c BY <2>2
  <2>4. ASSUME NEW i \in 1 .. m + 1 PROVE f[i] <= c
    <3>1. CASE i = m + 1 BY <2>3, <3>1
    <3>2. CASE i # m + 1
      <4>1. i \in 1 .. m /\ f[i] \in Nat BY <3>2
      <4>2. f[i] <= b BY <2>1, <4>1
      <4> QED BY <2>3, <4>1, <4>2
    <3> QED BY <3>1, <3>2
  <2> QED BY <2>4
<1> HIDE DEF S
<1>3. n \in S /\ n <= n BY <1>1, <1>2, Induction
<1> QED BY <1>3 DEF S

LEMMA FiniteHasMax ==
  ASSUME NEW S, S \subseteq Nat, S # {}, IsFiniteSet(S)
  PROVE  Max(S) \in S /\ \A x \in S : Max(S) >= x
<1>1. PICK n \in Nat : ExistsBijection(1 .. n, S) BY FS_CardinalityType
<1>2. PICK f \in Bijection(1 .. n, S) : TRUE BY <1>1 DEF ExistsBijection
<1>3. f \in [1 .. n -> S] /\ \A x \in S : \E i \in 1 .. n : f[i] = x
  BY <1>2 DEF Bijection, Surjection
<1>4. \A i \in 1 .. n : f[i] \in Nat BY <1>3
<1>5. PICK b \in Nat : \A i \in 1 .. n : f[i] <= b BY <1>4, BoundExists
<1>6. \A x \in S : x <= b BY <1>3, <1>5
<1> QED BY <1>6, MaxIs

-----------------------------------------------------------------------------
(* The test run.                                                            *)

FileStates == {"waiting", "running", "hung", "done"}
Kinds      == {"ran", "skip", "todo"}

TestTypes ==
  /\ runStage \in {"starting", "running", "complete", "exited"}
  /\ options \in [CLI_FLAGS -> Nat \ {0}]
  /\ discovered \subseteq TestFiles /\ batches \in Seq(SUBSET discovered)
  /\ now \in Nat /\ lastEvent \in Nat
  /\ fileState \in [TestFiles -> FileStates] /\ startedAt \in [TestFiles -> Nat]
  /\ skipResults \subseteq [identity : TestFiles, kind : Kinds]

(* What runs is of the batch, no longer than a test may, and was heard of   *)
(* no earlier than it started; when nothing runs something was just heard.  *)
ClockInv ==
  /\ UnderWay \subseteq batches[currentBatch]
  /\ lastEvent <= now
  /\ \A f \in UnderWay :
       fileState[f] = "running" => startedAt[f] <= lastEvent /\ now <= startedAt[f] + options["testTimeout"]
  /\ UnderWay # {} \/ lastEvent = now

StageInv ==
  /\ runStage = "starting" =>
       /\ exitCode = "none" /\ exitedBy = "none" /\ now = 0 /\ lastEvent = 0 /\ currentBatch = 1
       /\ \A f \in TestFiles : fileState[f] = "waiting"
  /\ runStage = "running" =>
       /\ exitCode = "none" /\ exitedBy = "none" /\ discovered # {}
       /\ currentBatch \in 1 .. Len(batches) /\ ClockInv
  /\ runStage = "complete" => exitedBy = "none" /\ discovered # {}

TestInv == TestTypes /\ StageInv /\ TestVerdictsAreTrue

-----------------------------------------------------------------------------
LEMMA FlagsAre ==
  /\ "testTimeout" \in CLI_FLAGS /\ "idleTimeout" \in CLI_FLAGS /\ "wallTimeout" \in CLI_FLAGS
  /\ "leakWindow" \in CLI_FLAGS /\ "concurrency" \in CLI_FLAGS
BY DEF CLI_FLAGS

ValueOf(argv, key) ==
  LET last == SelectLastInSeq(argv, LAMBDA arg : arg.flag = key)
  IN  IF last = 0 THEN Defaults[key] ELSE argv[last].value

(* The last of equal flags counts, and it is positive or the run is refused. *)
LEMMA ParsedOptions ==
  ASSUME NEW argv \in CommandLines, ~Refused(argv)
  PROVE  parseArgs(argv) \in [CLI_FLAGS -> Nat \ {0}]
<1>1. argv \in Seq([flag : STRING, value : Int]) /\ Defaults \in [CLI_FLAGS -> Nat \ {0}] BY RunnerAssumption
<1>2. DOMAIN argv = 1 .. Len(argv) /\ Len(argv) \in Nat BY <1>1
<1>3. ASSUME NEW key \in CLI_FLAGS
      PROVE  parseArgs(argv)[key] \in Nat \ {0}
  <2> DEFINE I == {i \in 1 .. Len(argv) : argv[i].flag = key}
             last == SelectLastInSeq(argv, LAMBDA arg : arg.flag = key)
  <2>1. last = IF I # {} THEN Max(I) ELSE 0 BY DEF SelectLastInSeq
  <2>2. parseArgs(argv)[key] = IF last = 0 THEN Defaults[key] ELSE argv[last].value
    BY DEF parseArgs
  <2>3. CASE I = {} BY <1>1, <2>1, <2>2, <2>3
  <2>4. CASE I # {}
    <3>1. I \subseteq Nat /\ \A x \in I : x <= Len(argv) BY <1>2
    <3>2. Max(I) \in I
      <4> HIDE DEF I
      <4> QED BY <1>2, <2>4, <3>1, MaxIs
    <3>3. last = Max(I) /\ last \in 1 .. Len(argv) /\ argv[last].flag = key BY <2>1, <2>4, <3>2
    <3> HIDE DEF last, I
    <3>4. argv[last] \in [flag : STRING, value : Int] BY <1>1, <3>3, ElementOfSeq
    <3>5. ~(argv[last].value <= 0) BY <1>2, <3>3 DEF Refused
    <3> QED BY <2>2, <3>3, <3>4, <3>5
  <2> QED BY <2>3, <2>4
<1>4. parseArgs(argv) = [key \in CLI_FLAGS |-> ValueOf(argv, key)] BY DEF parseArgs, ValueOf
<1>5. \A key \in CLI_FLAGS : ValueOf(argv, key) \in Nat \ {0}
  <2>1. \A key \in CLI_FLAGS : parseArgs(argv)[key] = ValueOf(argv, key) BY <1>4
  <2> QED BY <1>3, <2>1
<1> QED BY <1>4, <1>5

Split(D) == BatchOf(D \cap SERIAL_ONLY_TEST_FILES) \o BatchOf(D \ SERIAL_ONLY_TEST_FILES)

LEMMA BatchOfIs ==
  ASSUME NEW D, NEW files \in SUBSET D
  PROVE  BatchOf(files) \in Seq(SUBSET D) /\ (files # {} => Len(BatchOf(files)) = 1)
<1>1. CASE files = {} BY <1>1 DEF BatchOf
<1>2. CASE files # {}
  <2>1. BatchOf(files) = <<files>> BY <1>2 DEF BatchOf
  <2>2. <<files>> \in Seq(SUBSET D) /\ Len(<<files>>) = 1 OBVIOUS
  <2> QED BY <2>1, <2>2
<1> QED BY <1>1, <1>2

LEMMA SplitIs ==
  ASSUME NEW D
  PROVE  Split(D) \in Seq(SUBSET D) /\ (D # {} => Len(Split(D)) >= 1)
<1> DEFINE a == BatchOf(D \cap SERIAL_ONLY_TEST_FILES)
           b == BatchOf(D \ SERIAL_ONLY_TEST_FILES)
<1>1. a \in Seq(SUBSET D) /\ (D \cap SERIAL_ONLY_TEST_FILES # {} => Len(a) = 1) BY BatchOfIs
<1>2. b \in Seq(SUBSET D) /\ (D \ SERIAL_ONLY_TEST_FILES # {} => Len(b) = 1) BY BatchOfIs
<1>3. Split(D) = a \o b BY DEF Split
<1> HIDE DEF a, b
<1>4. Split(D) \in Seq(SUBSET D) /\ Len(Split(D)) = Len(a) + Len(b) BY <1>1, <1>2, <1>3
<1>5. D # {} => D \cap SERIAL_ONLY_TEST_FILES # {} \/ D \ SERIAL_ONLY_TEST_FILES # {} OBVIOUS
<1>6. Len(a) \in Nat /\ Len(b) \in Nat BY <1>1, <1>2
<1> QED BY <1>1, <1>2, <1>4, <1>5, <1>6

(* Nothing has been said yet.                                               *)
LEMMA Undecided ==
  ASSUME exitCode' = "none", exitedBy' = "none"
  PROVE  TestVerdictsAreTrue'
BY DEF TestVerdictsAreTrue

LEMMA TestsStart == TestRunInit => TestInv
<1> SUFFICES ASSUME TestRunInit PROVE TestInv OBVIOUS
<1>1. TestTypes
  <2>1. batches \in Seq(SUBSET discovered) BY DEF TestRunInit
  <2> QED BY <2>1, RunnerAssumption DEF TestRunInit, TestTypes, FileStates
<1>2. StageInv BY DEF TestRunInit, StageInv
<1>3. TestVerdictsAreTrue BY DEF TestRunInit, TestVerdictsAreTrue
<1> QED BY <1>1, <1>2, <1>3 DEF TestInv

LEMMA StartsKeeps ==
  ASSUME TestInv, Starts
  PROVE  TestInv'
<1>1. TestTypes /\ StageInv /\ runStage = "starting" BY DEF TestInv, Starts
<1>2. PICK argv \in CommandLines, unreadable \in Unreadable, repository \in Repositories, unparseable \in BOOLEAN :
        /\ options' = IF Refused(argv) THEN Defaults ELSE parseArgs(argv)
        /\ discovered' = walk(unreadable) /\ tracked' = getTrackedTestFiles(repository)
        /\ batches' = partitionTestFilesForBatches
        /\ IF Refused(argv) \/ discovered' = {} \/ ~checkTrackedFileParity \/ unparseable
           THEN ExitsBy("start", "1") /\ UNCHANGED timersArmed
           ELSE runStage' = "running" /\ timersArmed' = TRUE /\ UNCHANGED <<exitCode, exitedBy>>
  BY DEF Starts
<1>3. UNCHANGED <<currentBatch, now, fileState, startedAt, lastEvent, skipResults>>
  BY DEF Starts, fileVars, eventVars
<1>4. options' \in [CLI_FLAGS -> Nat \ {0}] BY <1>2, ParsedOptions, RunnerAssumption
<1>5. discovered' \subseteq TestFiles BY <1>2 DEF walk
<1>6. batches' = Split(discovered') BY <1>2 DEF partitionTestFilesForBatches, Split
<1>7. batches' \in Seq(SUBSET discovered') /\ (discovered' # {} => Len(batches') >= 1)
  BY <1>6, SplitIs
<1>8. runStage' \in {"running", "exited"} BY <1>2 DEF ExitsBy
<1>9. TestTypes' BY <1>1, <1>3, <1>4, <1>5, <1>7, <1>8 DEF TestTypes
<1>10. CASE runStage' = "running"
  <2>1. discovered' # {} /\ exitCode' = "none" /\ exitedBy' = "none"
    BY <1>1, <1>2, <1>10 DEF ExitsBy, StageInv
  <2>2. currentBatch' = 1 /\ now' = 0 /\ lastEvent' = 0 /\ \A f \in TestFiles : fileState'[f] = "waiting"
    BY <1>1, <1>3 DEF StageInv
  <2>3. UnderWay' = {} BY <1>5, <2>2 DEF UnderWay
  <2>4. ClockInv' BY <2>2, <2>3 DEF ClockInv
  <2>5. currentBatch' \in 1 .. Len(batches') BY <1>7, <2>1, <2>2
  <2>6. StageInv' BY <1>10, <2>1, <2>4, <2>5 DEF StageInv
  <2> QED BY <1>9, <2>1, <2>6, Undecided DEF TestInv
<1>11. CASE runStage' = "exited"
  <2>1. exitedBy' = "start" /\ exitCode' = "1" BY <1>2, <1>11 DEF ExitsBy
  <2>2. StageInv' BY <1>11 DEF StageInv
  <2>3. TestVerdictsAreTrue' BY <2>1 DEF TestVerdictsAreTrue
  <2> QED BY <1>9, <2>2, <2>3 DEF TestInv
<1> QED BY <1>8, <1>10, <1>11

(* The current batch is of the files that were found.                       *)
LEMMA CurrentBatch ==
  ASSUME TestTypes, StageInv, runStage = "running"
  PROVE  batches[currentBatch] \subseteq discovered /\ batches[currentBatch] \subseteq TestFiles
BY DEF TestTypes, StageInv

(* A file of the batch goes from one state to another; nothing is decided.  *)
FileMoves(f, from, to) ==
  /\ InBatch(f, from) /\ fileState' = [fileState EXCEPT ![f] = to]
  /\ UNCHANGED <<runStage, settingVars, currentBatch, now, timersArmed, verdictVars>>

LEMMA FileMovesKeeps ==
  ASSUME TestInv, NEW f \in TestFiles, NEW from \in FileStates, NEW to \in FileStates \ {"waiting"},
         FileMoves(f, from, to), startedAt' \in [TestFiles -> Nat],
         skipResults' \subseteq [identity : TestFiles, kind : Kinds], lastEvent' \in {lastEvent, now},
         \A g \in TestFiles \ {f} : startedAt'[g] = startedAt[g],
         to = "running" => from = "waiting" /\ startedAt'[f] = now /\ lastEvent' = now,
         to = "done" => lastEvent' = now \/ from = "waiting"
  PROVE  TestInv'
<1>1. TestTypes /\ StageInv /\ runStage = "running" BY DEF TestInv, FileMoves, InBatch
<1>2. /\ UNCHANGED <<runStage, options, discovered, batches, currentBatch, now, exitCode, exitedBy>>
      /\ f \in batches[currentBatch] /\ fileState[f] = from
      /\ fileState' = [fileState EXCEPT ![f] = to]
  BY DEF FileMoves, InBatch, settingVars, verdictVars
<1>3. lastEvent' \in Nat /\ fileState' \in [TestFiles -> FileStates] BY <1>1, <1>2 DEF TestTypes
<1>4. TestTypes' BY <1>1, <1>2, <1>3 DEF TestTypes
<1>5. ClockInv /\ currentBatch \in 1 .. Len(batches) BY <1>1 DEF StageInv
<1>6. fileState'[f] = to /\ \A g \in TestFiles \ {f} : fileState'[g] = fileState[g]
  BY <1>1, <1>2 DEF TestTypes
<1>7. UnderWay' \subseteq UnderWay \cup {f} /\ UnderWay \ {f} \subseteq UnderWay'
  BY <1>1, <1>2, <1>6 DEF UnderWay, TestTypes
<1>8. ClockInv'
  <2>1. UnderWay' \subseteq batches'[currentBatch'] BY <1>2, <1>5, <1>7 DEF ClockInv
  <2>2. lastEvent <= now /\ now \in Nat /\ lastEvent \in Nat BY <1>1, <1>5 DEF ClockInv, TestTypes
  <2>3. lastEvent' <= now' /\ lastEvent <= lastEvent' BY <1>2, <2>2
  <2>4. ASSUME NEW g \in UnderWay', fileState'[g] = "running"
        PROVE  startedAt'[g] <= lastEvent' /\ now' <= startedAt'[g] + options'["testTimeout"]
    <3>1. options["testTimeout"] \in Nat BY <1>1, FlagsAre DEF TestTypes
    <3>2. CASE g = f BY <1>2, <1>6, <2>2, <2>4, <3>1, <3>2
    <3>3. CASE g # f
      <4>1. g \in UnderWay /\ g \in TestFiles /\ fileState[g] = "running" /\ startedAt'[g] = startedAt[g]
        BY <1>1, <1>6, <1>7, <2>4, <3>3 DEF UnderWay, TestTypes
      <4>2. startedAt[g] <= lastEvent /\ now <= startedAt[g] + options["testTimeout"] BY <1>5, <4>1 DEF ClockInv
      <4>3. startedAt[g] \in Nat BY <1>1, <4>1 DEF TestTypes
      <4> QED BY <1>2, <1>3, <2>2, <2>3, <4>1, <4>2, <4>3
    <3> QED BY <3>2, <3>3
  <2>5. UnderWay' # {} \/ lastEvent' = now'
    <3> SUFFICES ASSUME lastEvent' # now' PROVE UnderWay' # {} OBVIOUS
    <3>1. lastEvent' = lastEvent /\ UnderWay # {} BY <1>2, <1>5 DEF ClockInv
    <3>2. CASE from = "waiting"
      <4>1. f \notin UnderWay BY <1>2, <3>2 DEF UnderWay
      <4> QED BY <1>7, <3>1, <4>1
    <3>3. CASE from # "waiting"
      <4>1. to = "hung" BY <1>2, <3>3 DEF FileStates
      <4>2. f \in UnderWay'
        <5>1. f \in discovered' BY <1>1, <1>2, CurrentBatch
        <5> QED BY <1>6, <4>1, <5>1 DEF UnderWay
      <4> QED BY <4>2
    <3> QED BY <3>2, <3>3
  <2> QED BY <2>1, <2>3, <2>4, <2>5 DEF ClockInv
<1>9. exitCode' = "none" /\ exitedBy' = "none" /\ discovered' # {} BY <1>1, <1>2 DEF StageInv
<1>10. StageInv' BY <1>1, <1>2, <1>5, <1>8, <1>9 DEF StageInv
<1> QED BY <1>4, <1>9, <1>10, Undecided DEF TestInv

LEMMA FilesGoOn ==
  ASSUME TestInv, TestsGoOn
  PROVE  TestInv'
<1>1. TestTypes /\ StageInv BY DEF TestInv
<1>2. PICK f \in TestFiles :
        FileStarts(f) \/ FileCompletes(f) \/ TestTimesOut(f) \/ FileHangs(f) \/ FilePassedOver(f)
  BY DEF TestsGoOn
<1>3. now \in Nat /\ startedAt \in [TestFiles -> Nat]
      /\ skipResults \subseteq [identity : TestFiles, kind : Kinds]
  BY <1>1 DEF TestTypes
<1>4. CASE FileStarts(f)
  <2>1. FileMoves(f, "waiting", "running") BY <1>4 DEF FileStarts, FileMoves
  <2>2. /\ startedAt' = [startedAt EXCEPT ![f] = now] /\ lastEvent' = now /\ skipResults' = skipResults
    BY <1>4 DEF FileStarts, noteEvent
  <2>3. startedAt' \in [TestFiles -> Nat] /\ startedAt'[f] = now
        /\ \A g \in TestFiles \ {f} : startedAt'[g] = startedAt[g]
    BY <1>3, <2>2
  <2>4. "waiting" \in FileStates /\ "running" \in FileStates \ {"waiting"} /\ "running" # "done"
    BY DEF FileStates
  <2> QED BY <1>3, <2>1, <2>2, <2>3, <2>4, FileMovesKeeps
<1>5. CASE FileCompletes(f) \/ TestTimesOut(f)
  <2>1. Done(f) /\ InBatch(f, "running") BY <1>5 DEF FileCompletes, TestTimesOut
  <2>2. FileMoves(f, "running", "done") BY <2>1 DEF Done, FileMoves
  <2>3. startedAt' = [startedAt EXCEPT ![f] = 0] /\ lastEvent' = now BY <2>1 DEF Done, noteEvent
  <2>4. startedAt' \in [TestFiles -> Nat] /\ \A g \in TestFiles \ {f} : startedAt'[g] = startedAt[g]
    BY <1>3, <2>3
  <2>5. skipResults' \subseteq [identity : TestFiles, kind : Kinds]
    <3>1. CASE TestTimesOut(f) BY <1>3, <3>1 DEF TestTimesOut
    <3>2. CASE FileCompletes(f)
      <4>1. PICK occurrences \in {{"suite"}, {"ran"}, {"skip"}, {"ran", "skip"}, {"todo"}} :
              skipResults' = skipResults \cup Completions(f, occurrences)
        BY <3>2 DEF FileCompletes
      <4>2. Completions(f, occurrences) \subseteq [identity : TestFiles, kind : Kinds]
        BY DEF Completions, Kinds
      <4> QED BY <1>3, <4>1, <4>2
    <3> QED BY <1>5, <3>1, <3>2
  <2>6. "running" \in FileStates /\ "done" \in FileStates \ {"waiting"} /\ "running" # "done"
    BY DEF FileStates
  <2> QED BY <2>2, <2>3, <2>4, <2>5, <2>6, FileMovesKeeps
<1>6. CASE FileHangs(f)
  <2>1. FileMoves(f, "running", "hung") BY <1>6 DEF FileHangs, FileMoves
  <2>2. /\ startedAt' = startedAt /\ lastEvent' \in {lastEvent, now} /\ skipResults' = skipResults
    BY <1>6 DEF FileHangs, noteEvent
  <2>3. /\ "running" \in FileStates /\ "hung" \in FileStates \ {"waiting"}
        /\ "hung" # "done" /\ "hung" # "running"
    BY DEF FileStates
  <2> QED BY <1>3, <2>1, <2>2, <2>3, FileMovesKeeps
<1>7. CASE FilePassedOver(f)
  <2>1. FileMoves(f, "waiting", "done") BY <1>7 DEF FilePassedOver, FileMoves
  <2>2. /\ startedAt' = startedAt /\ lastEvent' = lastEvent /\ skipResults' = skipResults
    BY <1>7 DEF FilePassedOver, eventVars
  <2>3. "waiting" \in FileStates /\ "done" \in FileStates \ {"waiting"} /\ "running" # "done"
    BY DEF FileStates
  <2> QED BY <1>3, <2>1, <2>2, <2>3, FileMovesKeeps
<1> QED BY <1>2, <1>4, <1>5, <1>6, <1>7

(* What a green end was asked is what it promises.                          *)
LEMMA GreenIsEarned ==
  ASSUME TestTypes, ~didFail, discovered # {}, missingFloor = {}, checkSkipDiscipline(Seen)
  PROVE  /\ ~didFail /\ discovered # {} /\ tracked.files \subseteq filesWithAnyEvent
         /\ \A r \in skipResults : r.kind = "skip" => r.identity \in Sanctioned
         /\ \A f \in CriticalTests : [identity |-> f, kind |-> "ran"] \in skipResults
<1>1. tracked.files \subseteq filesWithAnyEvent BY DEF missingFloor
<1>2. \A f \in TestFiles : Seen[f] = {r.kind : r \in {q \in skipResults : q.identity = f}} BY DEF Seen
<1>3. ASSUME NEW r \in skipResults, r.kind = "skip" PROVE r.identity \in Sanctioned
  <2>1. r.identity \in TestFiles BY DEF TestTypes
  <2>2. "skip" \in Seen[r.identity] BY <1>2, <1>3, <2>1
  <2> QED BY <2>1, <2>2 DEF checkSkipDiscipline, IsSkipped
<1>4. ASSUME NEW f \in CriticalTests PROVE [identity |-> f, kind |-> "ran"] \in skipResults
  <2>1. f \in TestFiles BY RunnerAssumption
  <2>2. Seen[f] # {} /\ "skip" \notin Seen[f] /\ "todo" \notin Seen[f]
    BY DEF checkSkipDiscipline, IsSkipped
  <2>3. PICK r \in skipResults : r.identity = f /\ r.kind # "skip" /\ r.kind # "todo"
    BY <1>2, <2>1, <2>2
  <2>4. r \in [identity : TestFiles, kind : Kinds] BY DEF TestTypes
  <2>5. r.kind = "ran" BY <2>3, <2>4 DEF Kinds
  <2>6. r = [identity |-> f, kind |-> "ran"] BY <2>3, <2>4, <2>5
  <2> QED BY <2>6
<1> QED BY <1>1, <1>3, <1>4

LEMMA BatchEndsKeeps ==
  ASSUME TestInv, BatchEnds
  PROVE  TestInv'
<1>1. TestTypes /\ StageInv /\ runStage = "running" BY DEF TestInv, BatchEnds
<1>2. /\ UNCHANGED <<options, tracked, discovered, batches, now, fileState, startedAt, exitedBy, leaked, named>>
      /\ UNCHANGED <<filesWithAnyEvent, filesWithOwnCompletion, skipResults, didFail, lastEvent>>
      /\ \A f \in batches[currentBatch] : fileState[f] = "done"
  BY DEF BatchEnds, settingVars, fileVars, eventVars
<1>3. ClockInv /\ currentBatch \in 1 .. Len(batches) /\ exitedBy = "none" /\ discovered # {}
  BY <1>1 DEF StageInv
<1>4. UnderWay = {} BY <1>2, <1>3 DEF ClockInv, UnderWay
<1>5. CASE currentBatch = Len(batches)
  <2>1. /\ runStage' = "complete"
        /\ exitCode' = IF ~didFail /\ missingFloor = {} /\ checkSkipDiscipline(Seen) THEN "0" ELSE "1"
    BY <1>5 DEF BatchEnds
  <2>2. TestTypes' BY <1>1, <1>2, <2>1 DEF TestTypes
  <2>3. StageInv' BY <1>2, <1>3, <2>1 DEF StageInv
  <2>4. exitCode' = "0" => ~didFail /\ missingFloor = {} /\ checkSkipDiscipline(Seen) BY <2>1
  <2>5. TestVerdictsAreTrue' BY <1>1, <1>2, <1>3, <2>4, GreenIsEarned DEF TestVerdictsAreTrue
  <2> QED BY <2>2, <2>3, <2>5 DEF TestInv
<1>6. CASE currentBatch # Len(batches)
  <2>1. currentBatch' = currentBatch + 1 /\ UNCHANGED <<runStage, exitCode>> BY <1>6 DEF BatchEnds
  <2>2. TestTypes' BY <1>1, <1>2, <2>1 DEF TestTypes
  <2>3. Len(batches) \in Nat BY <1>1 DEF TestTypes
  <2>4. currentBatch' \in 1 .. Len(batches') BY <1>2, <1>3, <1>6, <2>1, <2>3
  <2>5. UnderWay' = {} BY <1>2, <1>4 DEF UnderWay
  <2>6. lastEvent' = now' /\ lastEvent' <= now' BY <1>2, <1>3, <1>4 DEF ClockInv
  <2>7. ClockInv' BY <2>5, <2>6 DEF ClockInv
  <2>8. exitCode' = "none" /\ exitedBy' = "none" BY <1>1, <1>2, <2>1 DEF StageInv
  <2>9. StageInv' BY <1>1, <1>2, <1>3, <2>1, <2>4, <2>7, <2>8 DEF StageInv
  <2> QED BY <2>2, <2>8, <2>9, Undecided DEF TestInv
<1> QED BY <1>5, <1>6

(* The idle bound passes without an event only when a file hangs, if it is  *)
(* longer than a test's.                                                    *)
LEMMA IdleMeansHung ==
  ASSUME TestTypes, ClockInv, IdleDue, options["idleTimeout"] > options["testTimeout"]
  PROVE  {f \in discovered : fileState[f] = "hung"} # {}
<1>1. /\ now \in Nat /\ lastEvent \in Nat
      /\ options["idleTimeout"] \in Nat \ {0} /\ options["testTimeout"] \in Nat \ {0}
  BY FlagsAre DEF TestTypes
<1>2. now >= lastEvent + options["idleTimeout"] BY DEF IdleDue
<1>3. lastEvent # now BY <1>1, <1>2
<1>4. PICK f \in UnderWay : TRUE BY <1>3 DEF ClockInv
<1>5. f \in discovered /\ fileState[f] \in {"running", "hung"} /\ startedAt[f] \in Nat
  BY <1>4 DEF UnderWay, TestTypes
<1>6. fileState[f] # "running"
  <2> SUFFICES ASSUME fileState[f] = "running" PROVE FALSE OBVIOUS
  <2>1. startedAt[f] <= lastEvent /\ now <= startedAt[f] + options["testTimeout"] BY <1>4 DEF ClockInv
  <2> QED BY <1>1, <1>2, <1>5, <2>1
<1> QED BY <1>5, <1>6

LEMMA TimersKeep ==
  ASSUME TestInv, onIdleTimeout \/ onWallTimeout \/ onPostCompletionLeak \/ Drains
  PROVE  TestInv'
<1>1. TestTypes /\ StageInv /\ TestVerdictsAreTrue BY DEF TestInv
<1>2. /\ UNCHANGED <<options, tracked, discovered, batches, now, fileState, startedAt, leaked>>
      /\ UNCHANGED <<filesWithAnyEvent, filesWithOwnCompletion, skipResults, didFail, lastEvent>>
      /\ runStage' = "exited"
  BY DEF onIdleTimeout, onWallTimeout, onPostCompletionLeak, Drains, ExitsBy, settingVars, fileVars, eventVars
<1>3. TestTypes' BY <1>1, <1>2 DEF TestTypes
<1>4. StageInv' BY <1>2 DEF StageInv
<1>5. TestVerdictsAreTrue'
  <2>1. CASE onIdleTimeout
    <3>1. /\ exitedBy' = "idle" /\ exitCode' = "1" /\ IdleDue /\ runStage = "running"
          /\ named' = discovered \ filesWithOwnCompletion
      BY <2>1 DEF onIdleTimeout, ExitsBy
    <3>2. ClockInv BY <1>1, <3>1 DEF StageInv
    <3>3. options["idleTimeout"] > options["testTimeout"] => {f \in discovered : fileState[f] = "hung"} # {}
      BY <1>1, <3>1, <3>2, IdleMeansHung
    <3> QED BY <1>2, <3>1, <3>3 DEF TestVerdictsAreTrue
  <2>2. CASE onWallTimeout \/ onPostCompletionLeak
    <3>1. exitedBy' \in {"wall", "leak"} /\ exitCode' = "1"
      BY <2>2 DEF onWallTimeout, onPostCompletionLeak, ExitsBy
    <3> QED BY <3>1 DEF TestVerdictsAreTrue
  <2>3. CASE Drains
    <3>1. exitedBy' = "drain" /\ exitCode' = exitCode /\ ~leaked BY <2>3 DEF Drains, ExitsBy
    <3> QED BY <1>1, <1>2, <3>1 DEF TestVerdictsAreTrue
  <2> QED BY <2>1, <2>2, <2>3
<1> QED BY <1>3, <1>4, <1>5 DEF TestInv

LEMMA LeakClosesKeeps ==
  ASSUME TestInv, LeakCloses
  PROVE  TestInv'
<1>1. TestTypes /\ StageInv /\ TestVerdictsAreTrue BY DEF TestInv
<1>2. /\ UNCHANGED <<runStage, options, tracked, discovered, batches, now, fileState, startedAt>>
      /\ UNCHANGED <<filesWithAnyEvent, filesWithOwnCompletion, skipResults, didFail, lastEvent>>
      /\ UNCHANGED <<exitCode, exitedBy, named>> /\ leaked' = FALSE /\ runStage = "complete"
  BY DEF LeakCloses, settingVars, fileVars, eventVars
<1>3. TestTypes' BY <1>1, <1>2 DEF TestTypes
<1>4. StageInv' BY <1>1, <1>2 DEF StageInv
<1>5. TestVerdictsAreTrue' BY <1>1, <1>2 DEF TestVerdictsAreTrue
<1> QED BY <1>3, <1>4, <1>5 DEF TestInv

LEMMA TickKeeps ==
  ASSUME TestInv, Tick
  PROVE  TestInv'
<1>1. TestTypes /\ StageInv /\ TestVerdictsAreTrue BY DEF TestInv
<1>2. /\ UNCHANGED <<runStage, options, tracked, discovered, batches, currentBatch, fileState, startedAt>>
      /\ UNCHANGED <<filesWithAnyEvent, filesWithOwnCompletion, skipResults, didFail, lastEvent>>
      /\ UNCHANGED <<exitCode, exitedBy, named, leaked>>
      /\ now' = now + 1 /\ TestsWait /\ runStage \in {"running", "complete"}
  BY DEF Tick, settingVars, fileVars, eventVars, verdictVars
<1>3. TestTypes' BY <1>1, <1>2 DEF TestTypes
<1>4. runStage = "running" => ClockInv'
  <2> SUFFICES ASSUME runStage = "running" PROVE ClockInv' OBVIOUS
  <2>1. ClockInv BY <1>1 DEF StageInv
  <2>2. UnderWay' = UnderWay BY <1>2 DEF UnderWay
  <2>3. now \in Nat /\ lastEvent \in Nat BY <1>1 DEF TestTypes
  <2>4. UnderWay # {}
    <3>1. PICK f \in batches[currentBatch] : fileState[f] # "done" BY <1>2 DEF TestsWait
    <3>2. f \in discovered /\ f \in TestFiles BY <1>1, <3>1, CurrentBatch
    <3>3. CASE fileState[f] = "waiting"
      <4>1. Cardinality(UnderWay) >= Concurrency BY <1>2, <3>1, <3>2, <3>3 DEF TestsWait, InBatch
      <4>2. Concurrency \in Nat \ {0} BY <1>1, FlagsAre DEF Concurrency, TestTypes
      <4>3. Cardinality({}) = 0 BY FS_EmptySet
      <4> QED BY <4>1, <4>2, <4>3
    <3>4. CASE fileState[f] # "waiting"
      <4>1. fileState[f] \in FileStates BY <1>1, <3>2 DEF TestTypes
      <4> QED BY <3>1, <3>2, <3>4, <4>1 DEF FileStates, UnderWay
    <3> QED BY <3>3, <3>4
  <2>5. ASSUME NEW f \in UnderWay, fileState[f] = "running"
        PROVE  startedAt[f] <= lastEvent /\ now + 1 <= startedAt[f] + options["testTimeout"]
    <3>1. f \in TestFiles /\ f \in batches[currentBatch] BY <1>1, <2>1 DEF UnderWay, ClockInv, TestTypes
    <3>2. now - startedAt[f] < options["testTimeout"] BY <1>2, <2>5, <3>1 DEF TestsWait, InBatch
    <3>3. startedAt[f] \in Nat /\ options["testTimeout"] \in Nat BY <1>1, <3>1, FlagsAre DEF TestTypes
    <3>4. startedAt[f] <= lastEvent BY <2>1, <2>5 DEF ClockInv
    <3> QED BY <2>3, <3>2, <3>3, <3>4
  <2>6. lastEvent <= now + 1 BY <2>1, <2>3 DEF ClockInv
  <2> QED BY <1>2, <2>1, <2>2, <2>4, <2>5, <2>6 DEF ClockInv
<1>5. StageInv' BY <1>1, <1>2, <1>4 DEF StageInv
<1>6. TestVerdictsAreTrue' BY <1>1, <1>2 DEF TestVerdictsAreTrue
<1> QED BY <1>3, <1>5, <1>6 DEF TestInv

LEMMA TestsKeep == TestInv /\ [TestRunNext]_testRunVars => TestInv'
<1> SUFFICES ASSUME TestInv, [TestRunNext]_testRunVars PROVE TestInv' OBVIOUS
<1>1. CASE UNCHANGED testRunVars
  BY <1>1 DEF TestInv, TestTypes, StageInv, ClockInv, UnderWay, TestVerdictsAreTrue,
              testRunVars, settingVars, fileVars, eventVars, verdictVars
<1> QED BY <1>1, StartsKeeps, FilesGoOn, BatchEndsKeeps, TimersKeep, LeakClosesKeeps, TickKeeps DEF TestRunNext

(* The inductive invariant of a test run: its stages, and that the clock    *)
(* goes on only past files that run.                                        *)
THEOREM TestsInvariance == TestRunSpec => []TestInv
BY TestsStart, TestsKeep, PTL DEF TestRunSpec

-----------------------------------------------------------------------------
(* The sweep.                                                               *)

Wrongs == {"named", "synthetic", "skip", "error"}

SweepTypes ==
  /\ script \in {"ceiling", "hosted"} /\ values \in Seq(Int) /\ capacity \in Nat
  /\ at \in Nat \ {0} /\ repeat \in 1 .. Repeats
  /\ batch \in {"none", "serial", "concurrent"} /\ result \subseteq Wrongs /\ stray \in Nat
  /\ perValue \in Seq(Seq(SUBSET Wrongs))
  /\ witnessed \subseteq Nat \X Wrongs /\ crowded \in BOOLEAN

(* The repeats that are over.                                               *)
RowsInv ==
  /\ Len(perValue) = IF repeat = 1 THEN at - 1 ELSE at
  /\ \A i \in DOMAIN perValue : Len(perValue[i]) = IF i = at THEN repeat - 1 ELSE Repeats

(* The results of candidate i tell of what went wrong.                      *)
Told(i, kind) ==
  i \in DOMAIN perValue /\ \E k \in DOMAIN perValue[i] : {kind, "error"} \cap perValue[i][k] # {}

Explained(i, kind) ==
  kind \in {"named", "synthetic"} => values[i] > capacity \/ crowded

(* What was collected went wrong, and what went wrong was collected, at     *)
(* least as an error, or will be.                                           *)
WitnessInv ==
  /\ \A i \in DOMAIN perValue : \A k \in DOMAIN perValue[i] : \A kind \in perValue[i][k] : <<i, kind>> \in witnessed
  /\ \A kind \in result : <<at, kind>> \in witnessed
  /\ \A i \in Nat, kind \in Wrongs : <<i, kind>> \in witnessed =>
       Explained(i, kind) /\ (Told(i, kind) \/ (i = at /\ kind \in result))

(* A batch that runs beside a stray began beside it.                        *)
BatchInv ==
  /\ batch # "none" => at <= Len(values) /\ (stray > 0 => crowded)
  /\ at <= Len(values) + 1
  /\ at > Len(values) => batch = "none" /\ result = {} /\ repeat = 1

SweepInv ==
  /\ SweepTypes /\ RowsInv /\ WitnessInv
  /\ sweepStage \in {"asked", "sweeping", "reported", "refused"}
  /\ sweepStage \in {"sweeping", "reported"} => Candidates(values) /\ BatchInv
  /\ sweepStage = "asked" => at = 1 /\ repeat = 1 /\ batch = "none" /\ result = {}
  /\ sweepStage # "reported" => report = NoReport
  /\ RecommendationIsEarned

-----------------------------------------------------------------------------
LEMMA NothingReported == ASSUME report' = NoReport PROVE RecommendationIsEarned'
BY DEF NoReport, RecommendationIsEarned

LEMMA SweepStarts == SweepInit => SweepInv
<1> SUFFICES ASSUME SweepInit PROVE SweepInv OBVIOUS
<1>1. /\ script \in {"ceiling", "hosted"} /\ values \in Lists /\ capacity \in Capacities
      /\ sweepStage = "asked" /\ at = 1 /\ repeat = 1 /\ batch = "none" /\ result = {}
      /\ stray = 0 /\ perValue = <<>> /\ report = NoReport /\ witnessed = {} /\ crowded = FALSE
  BY DEF SweepInit
<1>2. perValue \in Seq(Seq(SUBSET Wrongs)) /\ Len(perValue) = 0 /\ DOMAIN perValue = {} BY <1>1
<1>3. SweepTypes
  <2>1. values \in Seq(Int) /\ capacity \in Nat BY <1>1, SweepAssumption
  <2>2. repeat \in 1 .. Repeats BY <1>1, SweepAssumption
  <2>3. witnessed \subseteq Nat \X Wrongs /\ result \subseteq Wrongs BY <1>1
  <2>4. crowded \in BOOLEAN BY <1>1
  <2>5. batch \in {"none", "serial", "concurrent"} /\ at \in Nat \ {0} /\ stray \in Nat BY <1>1
  <2>6. script \in {"ceiling", "hosted"} BY <1>1
  <2> QED BY <1>2, <2>1, <2>2, <2>3, <2>4, <2>5, <2>6 DEF SweepTypes
<1>4. RowsInv BY <1>1, <1>2 DEF RowsInv
<1>5. WitnessInv BY <1>1, <1>2 DEF WitnessInv
<1>6. RecommendationIsEarned BY <1>1 DEF RecommendationIsEarned, NoReport
<1> QED BY <1>1, <1>3, <1>4, <1>5, <1>6 DEF SweepInv

(* A step that collects nothing.                                            *)
LEMMA NoRowKeeps ==
  ASSUME SweepInv, SweepTypes', sweepStage = "sweeping", sweepStage' = "sweeping",
         UNCHANGED <<script, values, capacity, at, repeat, perValue, report>>,
         crowded => crowded',
         UNCHANGED <<result, witnessed>>
           \/ \E kind \in Wrongs :
                /\ result = {} /\ result' = {kind} /\ witnessed' = witnessed \cup {<<at, kind>>}
                /\ (values[at] > capacity \/ crowded') /\ at <= Len(values),
         batch' # "none" => at <= Len(values) /\ (stray' > 0 => crowded')
  PROVE  SweepInv'
<1>1. /\ SweepTypes /\ RowsInv /\ WitnessInv /\ Candidates(values) /\ BatchInv /\ report = NoReport
  BY DEF SweepInv
<1>2. RowsInv' BY <1>1 DEF RowsInv
<1>3. ASSUME NEW i \in Nat, NEW kind \in Wrongs, Explained(i, kind)
      PROVE  Explained(i, kind)'
  BY <1>3 DEF Explained
<1>4. \A i \in Nat, kind \in Wrongs : Told(i, kind)' <=> Told(i, kind) BY DEF Told
<1>5. WitnessInv'
  <2>1. CASE UNCHANGED <<result, witnessed>> BY <1>1, <1>3, <1>4, <2>1 DEF WitnessInv
  <2>2. ASSUME NEW kind \in Wrongs,
               result = {}, result' = {kind}, witnessed' = witnessed \cup {<<at, kind>>},
               values[at] > capacity \/ crowded'
        PROVE  WitnessInv'
    <3>1. \A i \in DOMAIN perValue' : \A k \in DOMAIN perValue'[i] : \A k2 \in perValue'[i][k] :
            <<i, k2>> \in witnessed'
      BY <1>1, <2>2 DEF WitnessInv
    <3>2. \A k2 \in result' : <<at', k2>> \in witnessed' BY <2>2
    <3>3. ASSUME NEW i \in Nat, NEW k2 \in Wrongs, <<i, k2>> \in witnessed'
          PROVE  Explained(i, k2)' /\ (Told(i, k2)' \/ (i = at' /\ k2 \in result'))
      <4>1. CASE <<i, k2>> \in witnessed
        <5>1. Explained(i, k2) /\ Told(i, k2) BY <1>1, <2>2, <4>1 DEF WitnessInv
        <5> QED BY <1>3, <1>4, <5>1
      <4>2. CASE <<i, k2>> \notin witnessed
        <5>1. i = at /\ k2 = kind BY <2>2, <3>3, <4>2
        <5>2. Explained(i, k2)' BY <2>2, <5>1 DEF Explained
        <5> QED BY <2>2, <5>1, <5>2
      <4> QED BY <4>1, <4>2
    <3> QED BY <3>1, <3>2, <3>3 DEF WitnessInv
  <2> QED BY <2>1, <2>2
<1>6. Candidates(values)' BY <1>1 DEF Candidates
<1>7. BatchInv'
  <2>1. at > Len(values) => batch' = "none" /\ result' = {} /\ repeat' = 1
    BY <1>1 DEF BatchInv, SweepTypes
  <2> QED BY <1>1, <2>1 DEF BatchInv
<1>8. RecommendationIsEarned' BY <1>1, NothingReported
<1> QED BY <1>1, <1>2, <1>5, <1>6, <1>7, <1>8 DEF SweepInv

-----------------------------------------------------------------------------
(* A repeat is over: its row has one more result.                           *)
LEMMA RowAdded ==
  ASSUME SweepTypes, RowsInv, NEW r \in SUBSET Wrongs, Collects(r)
  PROVE  /\ perValue' \in Seq(Seq(SUBSET Wrongs)) /\ Len(perValue') = at
         /\ \A i \in 1 .. at - 1 : i \in DOMAIN perValue /\ perValue'[i] = perValue[i]
         /\ Len(perValue'[at]) = repeat /\ perValue'[at][repeat] = r
         /\ \A k \in 1 .. repeat - 1 :
              /\ at \in DOMAIN perValue /\ k \in DOMAIN perValue[at]
              /\ perValue'[at][k] = perValue[at][k]
         /\ DOMAIN perValue \subseteq 1 .. at
         /\ at \in DOMAIN perValue => Len(perValue[at]) = repeat - 1
<1> DEFINE Row == Seq(SUBSET Wrongs)
<1>1. /\ perValue \in Seq(Row) /\ at \in Nat \ {0} /\ repeat \in Nat \ {0}
      /\ DOMAIN perValue = 1 .. Len(perValue) /\ Len(perValue) \in Nat
  BY SweepAssumption DEF SweepTypes
<1>2. perValue' = IF Len(perValue) < at THEN Append(perValue, <<r>>)
                  ELSE [perValue EXCEPT ![at] = Append(@, r)]
  BY DEF Collects
<1>3. <<r>> \in Row /\ Len(<<r>>) = 1 /\ <<r>>[1] = r OBVIOUS
<1>4. CASE repeat = 1
  <2>1. Len(perValue) = at - 1 BY <1>4 DEF RowsInv
  <2> DEFINE row == <<r>>
  <2>2. perValue' = Append(perValue, row) BY <1>1, <1>2, <2>1
  <2>3. row \in Row /\ Len(row) = 1 /\ row[1] = r BY <1>3
  <2> HIDE DEF Row, row
  <2>4. /\ perValue' \in Seq(Row) /\ Len(perValue') = at /\ perValue'[at] = row
        /\ \A i \in 1 .. at - 1 : perValue'[i] = perValue[i]
    BY <1>1, <2>1, <2>2, <2>3
  <2>5. 1 .. repeat - 1 = {} BY <1>4
  <2>6. at \notin DOMAIN perValue BY <1>1, <2>1
  <2>7. \A i \in 1 .. at - 1 : i \in DOMAIN perValue /\ perValue'[i] = perValue[i]
    BY <1>1, <2>1, <2>4
  <2>8. Len(perValue'[at]) = repeat /\ perValue'[at][repeat] = r BY <1>4, <2>3, <2>4
  <2>9. DOMAIN perValue \subseteq 1 .. at BY <1>1, <2>1
  <2>10. perValue' \in Seq(Seq(SUBSET Wrongs)) BY <2>4 DEF Row
  <2> QED BY <2>4, <2>5, <2>6, <2>7, <2>8, <2>9, <2>10
<1>5. CASE repeat # 1
  <2>1. Len(perValue) = at BY <1>5 DEF RowsInv
  <2>2. at \in DOMAIN perValue /\ Len(perValue[at]) = repeat - 1
    <3>1. at \in DOMAIN perValue BY <1>1, <2>1
    <3> QED BY <3>1 DEF RowsInv
  <2> DEFINE old == perValue[at]
             row == Append(old, r)
  <2>3. old \in Row /\ Len(old) = repeat - 1 BY <1>1, <2>2
  <2>4. perValue' = [perValue EXCEPT ![at] = row] BY <1>1, <1>2, <2>1
  <2>5. /\ row \in Row /\ Len(row) = repeat /\ row[repeat] = r
        /\ \A k \in 1 .. repeat - 1 : row[k] = old[k] /\ k \in DOMAIN old
    <3> HIDE DEF old
    <3> QED BY <1>1, <2>3
  <2> HIDE DEF row, Row
  <2>6. /\ perValue' \in Seq(Row) /\ Len(perValue') = at /\ perValue'[at] = row
        /\ \A i \in 1 .. at - 1 : perValue'[i] = perValue[i]
    BY <1>1, <2>1, <2>2, <2>4, <2>5
  <2> QED BY <1>1, <2>1, <2>2, <2>5, <2>6 DEF Row
<1> QED BY <1>4, <1>5

LEMMA CollectsKeeps ==
  ASSUME SweepInv, NEW r \in SUBSET Wrongs, Collects(r), stray' \in Nat,
         sweepStage = "sweeping", UNCHANGED <<script, values, capacity, sweepStage, report, crowded>>,
         batch # "none", result \subseteq r \/ "error" \in r,
         r \cap {"named", "synthetic"} \subseteq result
  PROVE  SweepInv'
<1>1. /\ SweepTypes /\ RowsInv /\ WitnessInv /\ Candidates(values) /\ BatchInv /\ report = NoReport
  BY DEF SweepInv
<1>2. /\ at \in Nat \ {0} /\ repeat \in Nat \ {0} /\ repeat <= Repeats /\ Repeats \in Nat
      /\ at <= Len(values) /\ Len(values) \in Nat
  BY <1>1, SweepAssumption DEF SweepTypes, BatchInv
<1>3. /\ batch' = "none" /\ result' = {}
      /\ repeat' = IF repeat < Repeats THEN repeat + 1 ELSE 1
      /\ at' = IF repeat < Repeats THEN at ELSE at + 1
      /\ witnessed' = witnessed \cup ({at} \X r)
  BY DEF Collects
<1>4. /\ perValue' \in Seq(Seq(SUBSET Wrongs)) /\ Len(perValue') = at
      /\ \A i \in 1 .. at - 1 : i \in DOMAIN perValue /\ perValue'[i] = perValue[i]
      /\ Len(perValue'[at]) = repeat /\ perValue'[at][repeat] = r
      /\ \A k \in 1 .. repeat - 1 :
           /\ at \in DOMAIN perValue /\ k \in DOMAIN perValue[at]
           /\ perValue'[at][k] = perValue[at][k]
      /\ DOMAIN perValue \subseteq 1 .. at
      /\ at \in DOMAIN perValue => Len(perValue[at]) = repeat - 1
  BY <1>1, RowAdded
<1>5. DOMAIN perValue' = 1 .. at /\ DOMAIN perValue'[at] = 1 .. repeat
  BY <1>2, <1>4
<1>6. SweepTypes'
  <2>1. witnessed' \subseteq Nat \X Wrongs BY <1>1, <1>2, <1>3 DEF SweepTypes
  <2>2. at' \in Nat \ {0} /\ repeat' \in 1 .. Repeats BY <1>2, <1>3
  <2> QED BY <1>1, <1>3, <1>4, <2>1, <2>2 DEF SweepTypes
<1>7. RowsInv'
  <2>1. ASSUME NEW i \in 1 .. at - 1 PROVE Len(perValue'[i]) = Repeats
    <3>1. i # at /\ i \in DOMAIN perValue /\ perValue'[i] = perValue[i] BY <1>2, <1>4
    <3> QED BY <1>1, <3>1 DEF RowsInv
  <2>2. CASE repeat < Repeats
    <3>1. at' = at /\ repeat' = repeat + 1 /\ repeat' # 1 BY <1>2, <1>3, <2>2
    <3>2. ASSUME NEW i \in DOMAIN perValue'
          PROVE  Len(perValue'[i]) = IF i = at' THEN repeat' - 1 ELSE Repeats
      <4>1. i = at \/ i \in 1 .. at - 1 BY <1>2, <1>5
      <4> QED BY <1>2, <1>4, <2>1, <3>1, <4>1
    <3> QED BY <1>4, <3>1, <3>2 DEF RowsInv
  <2>3. CASE ~(repeat < Repeats)
    <3>1. at' = at + 1 /\ repeat' = 1 /\ repeat = Repeats BY <1>2, <1>3, <2>3
    <3>2. ASSUME NEW i \in DOMAIN perValue'
          PROVE  Len(perValue'[i]) = IF i = at' THEN repeat' - 1 ELSE Repeats
      <4>1. (i = at \/ i \in 1 .. at - 1) /\ i # at' BY <1>2, <1>5, <3>1
      <4> QED BY <1>2, <1>4, <2>1, <3>1, <4>1
    <3>3. Len(perValue') = at' - 1 BY <1>2, <1>4, <3>1
    <3> QED BY <3>1, <3>2, <3>3 DEF RowsInv
  <2> QED BY <2>2, <2>3
<1>8. WitnessInv'
  <2>1. ASSUME NEW i \in DOMAIN perValue', NEW k \in DOMAIN perValue'[i], NEW kind \in perValue'[i][k]
        PROVE  <<i, kind>> \in witnessed'
    <3>1. CASE i \in 1 .. at - 1
      <4>1. i \in DOMAIN perValue /\ perValue'[i] = perValue[i] BY <1>4, <3>1
      <4>2. <<i, kind>> \in witnessed BY <1>1, <2>1, <4>1 DEF WitnessInv
      <4> QED BY <1>3, <4>2
    <3>2. CASE i = at /\ k = repeat BY <1>3, <1>4, <2>1, <3>2
    <3>3. CASE i = at /\ k # repeat
      <4>1. k \in 1 .. repeat - 1 BY <1>2, <1>5, <2>1, <3>3
      <4>2. at \in DOMAIN perValue /\ k \in DOMAIN perValue[at] /\ kind \in perValue[at][k]
        BY <1>4, <2>1, <3>3, <4>1
      <4>3. <<at, kind>> \in witnessed BY <1>1, <4>2 DEF WitnessInv
      <4> QED BY <1>3, <3>3, <4>3
    <3> QED BY <1>2, <1>5, <3>1, <3>2, <3>3
  <2>2. \A kind \in result' : <<at', kind>> \in witnessed' BY <1>3
  <2>3. ASSUME NEW i \in Nat, NEW kind \in Wrongs, <<i, kind>> \in witnessed'
        PROVE  Explained(i, kind)' /\ Told(i, kind)'
    <3>1. ASSUME Explained(i, kind) PROVE Explained(i, kind)' BY <3>1 DEF Explained
    <3>2. ASSUME Told(i, kind) PROVE Told(i, kind)'
      <4>1. PICK k \in DOMAIN perValue[i] : {kind, "error"} \cap perValue[i][k] # {} BY <3>2 DEF Told
      <4>2. i \in DOMAIN perValue /\ i \in 1 .. at BY <1>4, <3>2 DEF Told
      <4>3. CASE i # at
        <5>1. i \in 1 .. at - 1 BY <1>2, <4>2, <4>3
        <5>2. perValue'[i] = perValue[i] /\ i \in DOMAIN perValue' BY <1>4, <1>5, <4>2, <5>1
        <5> QED BY <4>1, <5>2 DEF Told
      <4>4. CASE i = at
        <5>1. perValue[at] \in Seq(SUBSET Wrongs) BY <1>1, <4>2, <4>4 DEF SweepTypes
        <5>2. DOMAIN perValue[at] = 1 .. repeat - 1 BY <1>2, <1>4, <4>2, <4>4, <5>1
        <5>3. k \in 1 .. repeat - 1 /\ k \in DOMAIN perValue'[at] BY <1>2, <1>5, <4>1, <4>4, <5>2
        <5>4. perValue'[at][k] = perValue[at][k] BY <1>4, <5>3
        <5>5. {kind, "error"} \cap perValue'[at][k] # {} BY <4>1, <4>4, <5>4
        <5> QED BY <1>5, <4>2, <4>4, <5>3, <5>5 DEF Told
      <4> QED BY <4>3, <4>4
    <3>3. ASSUME i = at, kind \in r \/ "error" \in r PROVE Told(i, kind)'
      <4>1. at \in DOMAIN perValue' /\ repeat \in DOMAIN perValue'[at] BY <1>2, <1>5
      <4>2. {kind, "error"} \cap perValue'[at][repeat] # {} BY <1>4, <3>3
      <4> QED BY <3>3, <4>1, <4>2 DEF Told
    <3>4. CASE <<i, kind>> \in witnessed
      <4>1. Explained(i, kind) /\ (Told(i, kind) \/ (i = at /\ kind \in result))
        BY <1>1, <3>4 DEF WitnessInv
      <4> QED BY <3>1, <3>2, <3>3, <4>1
    <3>5. CASE <<i, kind>> \notin witnessed
      <4>1. i = at /\ kind \in r BY <1>3, <2>3, <3>5
      <4>2. kind \notin {"named", "synthetic"}
        <5>1. kind \in result => <<at, kind>> \in witnessed BY <1>1 DEF WitnessInv
        <5> QED BY <3>5, <4>1, <5>1
      <4>3. Explained(i, kind)' BY <4>2 DEF Explained
      <4> QED BY <3>3, <4>1, <4>3
    <3> QED BY <3>4, <3>5
  <2> QED BY <2>1, <2>2, <2>3 DEF WitnessInv
<1>9. Candidates(values)' BY <1>1 DEF Candidates
<1>10. BatchInv'
  <2>1. at' <= Len(values) + 1 BY <1>2, <1>3
  <2>2. at' > Len(values) => repeat' = 1 BY <1>2, <1>3
  <2> QED BY <1>3, <2>1, <2>2 DEF BatchInv
<1>11. RecommendationIsEarned' BY <1>1, NothingReported
<1> QED BY <1>1, <1>6, <1>7, <1>8, <1>9, <1>10, <1>11 DEF SweepInv

-----------------------------------------------------------------------------
(* The width of a batch, and the load of a machine.                         *)
LEMMA WidthIs ==
  ASSUME SweepTypes, Candidates(values), BatchInv, batch # "none"
  PROVE  Width \in Nat /\ Width <= values[at] /\ at \in DOMAIN values
<1>1. at \in DOMAIN values BY DEF SweepTypes, BatchInv
<1>2. values[at] \in Int /\ values[at] > 0 BY <1>1 DEF SweepTypes, Candidates
<1>3. CASE batch = "serial" BY <1>1, <1>2, <1>3 DEF Width
<1>4. CASE batch = "concurrent" BY <1>1, <1>2, <1>4 DEF Width
<1> QED BY <1>3, <1>4 DEF SweepTypes

LEMMA TooMuchIsNat == TooMuch \in Nat
<1>1. Max(Capacities) \in Nat BY SweepAssumption, FiniteHasMax
<1> QED BY <1>1 DEF TooMuch

(* Without a stray, what is overloaded is too wide.                         *)
LEMMA OverloadedIs ==
  ASSUME SweepTypes, Candidates(values), BatchInv, batch # "none", Overloaded
  PROVE  values[at] > capacity \/ crowded
<1>1. Width \in Nat /\ Width <= values[at] /\ at \in DOMAIN values BY WidthIs
<1>2. values[at] \in Int /\ capacity \in Nat /\ stray \in Nat BY <1>1 DEF SweepTypes
<1>3. stray > 0 => crowded BY DEF BatchInv
<1>4. Width + stray > capacity BY DEF Overloaded
<1>5. CASE stray = 0 BY <1>1, <1>2, <1>4, <1>5
<1> QED BY <1>2, <1>3, <1>5

LEMMA BeginsSweepKeeps ==
  ASSUME SweepInv, BeginsSweep
  PROVE  SweepInv'
<1>1. /\ SweepTypes /\ RowsInv /\ WitnessInv /\ report = NoReport /\ sweepStage = "asked"
      /\ at = 1 /\ repeat = 1 /\ batch = "none" /\ result = {}
  BY DEF SweepInv, BeginsSweep
<1>2. /\ UNCHANGED <<script, values, capacity, at, repeat, batch, result, stray, perValue, report, witnessed, crowded>>
      /\ sweepStage' = IF Candidates(values) THEN "sweeping" ELSE "refused"
  BY DEF BeginsSweep, given, running
<1>3. SweepTypes' BY <1>1, <1>2 DEF SweepTypes
<1>4. RowsInv' BY <1>1, <1>2 DEF RowsInv
<1>5. WitnessInv' BY <1>1, <1>2 DEF WitnessInv, Told, Explained
<1>6. BatchInv'
  <2>1. Len(values) \in Nat BY <1>1 DEF SweepTypes
  <2> QED BY <1>1, <1>2, <2>1 DEF BatchInv
<1>7. Candidates(values)' <=> Candidates(values) BY <1>2 DEF Candidates
<1>8. RecommendationIsEarned' BY <1>1, <1>2, NothingReported
<1> QED BY <1>1, <1>2, <1>3, <1>4, <1>5, <1>6, <1>7, <1>8 DEF SweepInv

LEMMA RunsKeep ==
  ASSUME SweepInv, BeginsBatch \/ TestFails \/ Hangs \/ StrayEnds \/ SerialBatchEnds
  PROVE  SweepInv'
<1>1. /\ SweepTypes /\ Candidates(values) /\ BatchInv /\ sweepStage = "sweeping"
  BY DEF SweepInv, BeginsBatch, TestFails, Hangs, StrayEnds, SerialBatchEnds
<1>2. /\ at \in Nat \ {0} /\ Len(values) \in Nat /\ stray \in Nat /\ crowded \in BOOLEAN
      /\ batch # "none" => at <= Len(values) /\ (stray > 0 => crowded)
  BY <1>1 DEF SweepTypes, BatchInv
<1>3. CASE BeginsBatch
  <2>1. /\ UNCHANGED <<script, values, capacity, sweepStage, at, repeat, result, stray, perValue, report, witnessed>>
        /\ batch' \in {"serial", "concurrent"} /\ crowded' = (crowded \/ stray > 0) /\ at <= Len(values)
    BY <1>3 DEF BeginsBatch, given, ceilingBatch, hostedBatch
  <2>2. crowded' \in BOOLEAN BY <2>1
  <2>3. SweepTypes' BY <1>1, <2>1, <2>2 DEF SweepTypes
  <2> QED BY <1>1, <2>1, <2>3, NoRowKeeps
<1>4. CASE TestFails
  <2>1. /\ UNCHANGED <<script, values, capacity, sweepStage, at, repeat, batch, stray, perValue, report, crowded>>
        /\ batch # "none" /\ Overloaded
    BY <1>4 DEF TestFails, given
  <2>2. PICK kind \in {"named", "synthetic"} :
          result = {} /\ result' = {kind} /\ witnessed' = witnessed \cup {<<at, kind>>}
    BY <1>4 DEF TestFails
  <2>3. kind \in Wrongs BY DEF Wrongs
  <2>4. SweepTypes' BY <1>1, <1>2, <2>1, <2>2, <2>3 DEF SweepTypes
  <2>5. values[at] > capacity \/ crowded' BY <1>1, <2>1, OverloadedIs
  <2> QED BY <1>1, <1>2, <2>1, <2>2, <2>3, <2>4, <2>5, NoRowKeeps
<1>5. CASE Hangs
  <2>1. UNCHANGED <<script, values, capacity, sweepStage, at, repeat, batch, result, stray, perValue, report,
                    witnessed, crowded>>
    BY <1>5 DEF Hangs, given
  <2>2. SweepTypes' BY <1>1, <2>1 DEF SweepTypes
  <2> QED BY <1>1, <1>2, <2>1, <2>2, NoRowKeeps
<1>6. CASE StrayEnds
  <2>1. /\ UNCHANGED <<script, values, capacity, sweepStage, at, repeat, batch, result, perValue, report,
                       witnessed, crowded>>
        /\ stray > 0 /\ stray' \in 0 .. stray - 1
    BY <1>6 DEF StrayEnds, given, running
  <2>2. stray' \in Nat BY <1>2, <2>1
  <2>3. SweepTypes' BY <1>1, <2>1, <2>2 DEF SweepTypes
  <2> QED BY <1>1, <1>2, <2>1, <2>3, NoRowKeeps
<1>7. CASE SerialBatchEnds
  <2>1. /\ UNCHANGED <<script, values, capacity, sweepStage, at, repeat, result, stray, perValue, report,
                       witnessed, crowded>>
        /\ batch' = "none"
    BY <1>7 DEF SerialBatchEnds, given
  <2>2. SweepTypes' BY <1>1, <2>1 DEF SweepTypes
  <2> QED BY <1>1, <2>1, <2>2, NoRowKeeps
<1> QED BY <1>3, <1>4, <1>5, <1>6, <1>7

LEMMA EndsOfRunsKeep ==
  ASSUME SweepInv, RunEnds \/ StreamErrors \/ WallCap
  PROVE  SweepInv'
<1>1. /\ SweepTypes /\ Candidates(values) /\ BatchInv /\ sweepStage = "sweeping" /\ batch # "none"
  BY DEF SweepInv, RunEnds, StreamErrors, WallCap, Capped
<1>2. /\ UNCHANGED <<script, values, capacity, sweepStage, report, crowded>>
  BY DEF RunEnds, StreamErrors, WallCap, given
<1>3. CASE RunEnds
  <2>1. PICK skips \in {{}, {"skip"}} : Collects(result \cup skips) BY <1>3 DEF RunEnds
  <2>2. stray' \in Nat BY <1>1, <1>3 DEF RunEnds, SweepTypes
  <2>3. result \cup skips \in SUBSET Wrongs BY <1>1 DEF SweepTypes, Wrongs
  <2>4. (result \cup skips) \cap {"named", "synthetic"} \subseteq result OBVIOUS
  <2> QED BY <1>1, <1>2, <2>1, <2>2, <2>3, <2>4, CollectsKeeps
<1>4. CASE StreamErrors \/ WallCap
  <2>1. Collects({"error"}) BY <1>4 DEF StreamErrors, WallCap
  <2>2. stray' \in Nat
    <3>1. CASE StreamErrors BY <1>1, <3>1 DEF StreamErrors, SweepTypes
    <3>2. CASE WallCap
      <4>1. Width \in Nat /\ stray \in Nat /\ TooMuch \in Nat
        BY <1>1, WidthIs, TooMuchIsNat DEF SweepTypes
      <4> DEFINE S == {stray + Width, TooMuch}
      <4>2. S \subseteq Nat /\ S # {} BY <4>1
      <4>3. Min(S) \in S
        <5> HIDE DEF S
        <5> QED BY <4>2, MinIs
      <4> QED BY <3>2, <4>2, <4>3 DEF WallCap
    <3> QED BY <1>4, <3>1, <3>2
  <2>3. {"error"} \in SUBSET Wrongs /\ {"error"} \cap {"named", "synthetic"} \subseteq result BY DEF Wrongs
  <2> QED BY <1>1, <1>2, <2>1, <2>2, <2>3, CollectsKeeps
<1> QED BY <1>3, <1>4

-----------------------------------------------------------------------------
(* A candidate's results are clean just if it held.                         *)
LEMMA CleanMeansHeld ==
  ASSUME SweepTypes, WitnessInv, result = {}, NEW i \in DOMAIN perValue
  PROVE  allClean(i) <=> Held(i)
<1>1. i \in Nat /\ perValue[i] \in Seq(SUBSET Wrongs) BY DEF SweepTypes
<1>2. Against \subseteq Wrongs /\ "error" \in Against BY DEF Against, Wrongs
<1>3. allClean(i) <=> \A k \in DOMAIN perValue[i] : perValue[i][k] \cap Against = {}
  BY DEF allClean, Against, ceilingClean, hostedClean, SweepTypes
<1>4. ASSUME allClean(i) PROVE Held(i)
  <2> SUFFICES ASSUME NEW kind \in Against, <<i, kind>> \in witnessed PROVE FALSE BY DEF Held
  <2>1. Told(i, kind) BY <1>1, <1>2 DEF WitnessInv
  <2>2. PICK k \in DOMAIN perValue[i] : {kind, "error"} \cap perValue[i][k] # {} BY <2>1 DEF Told
  <2> QED BY <1>2, <1>3, <1>4, <2>2
<1>5. ASSUME Held(i) PROVE allClean(i)
  <2> SUFFICES ASSUME NEW k \in DOMAIN perValue[i], NEW kind \in perValue[i][k] \cap Against PROVE FALSE
    BY <1>3
  <2>1. <<i, kind>> \in witnessed BY DEF WitnessInv
  <2> QED BY <1>5, <2>1 DEF Held
<1> QED BY <1>4, <1>5

LEMMA ReportsKeeps ==
  ASSUME SweepInv, Reports
  PROVE  SweepInv'
<1>1. /\ SweepTypes /\ RowsInv /\ WitnessInv /\ Candidates(values) /\ BatchInv /\ at > Len(values)
  BY DEF SweepInv, Reports
<1>2. /\ UNCHANGED <<script, values, capacity, at, repeat, batch, result, stray, perValue, witnessed, crowded>>
      /\ sweepStage' = "reported" /\ report' = selectRecommendation
  BY DEF Reports, given, running
<1>3. /\ result = {} /\ repeat = 1 /\ at = Len(values) + 1 /\ Len(values) \in Nat
  BY <1>1 DEF BatchInv, SweepTypes
<1>4. DOMAIN perValue = DOMAIN values /\ DOMAIN values = 1 .. Len(values)
      /\ \A i \in DOMAIN values : Len(perValue[i]) = Repeats
  BY <1>1, <1>3 DEF RowsInv, SweepTypes
<1>5. \A i \in DOMAIN values : values[i] \in Nat /\ values[i] > 0 /\ (allClean(i) <=> Held(i))
  BY <1>1, <1>3, <1>4, CleanMeansHeld DEF SweepTypes, Candidates
<1>6. cleanValues = {values[i] : i \in {j \in DOMAIN values : Held(j)}}
  BY <1>4, <1>5 DEF cleanValues
<1>7. dirtyValues = {values[i] : i \in {j \in DOMAIN values : ~Held(j)}}
  BY <1>4, <1>5 DEF dirtyValues
<1>8. PICK b \in Nat : \A i \in DOMAIN values : values[i] <= b BY <1>3, <1>4, <1>5, BoundExists
<1> DEFINE highestClean == Max(cleanValues)
           above == {v \in dirtyValues : v > highestClean}
<1>9. ASSUME cleanValues # {}
      PROVE  highestClean \in cleanValues /\ \A v \in cleanValues : highestClean >= v
  <2>1. cleanValues \subseteq Nat /\ \A v \in cleanValues : v <= b BY <1>5, <1>6, <1>8
  <2> QED BY <1>9, <2>1, MaxIs
<1>10. report' = CASE cleanValues = {} -> [verdict |-> "no-safe-value", recommended |-> 0, above |-> 0]
                   [] cleanValues # {} /\ above = {} ->
                        [verdict |-> "inconclusive-no-ceiling-found", recommended |-> 0, above |-> 0]
                   [] OTHER -> [verdict |-> "recommended", recommended |-> highestClean, above |-> Min(above)]
  BY <1>2 DEF selectRecommendation
<1>11. RecommendationIsEarned'
  <2>1. CASE cleanValues = {}
    <3>1. report' = [verdict |-> "no-safe-value", recommended |-> 0, above |-> 0] BY <1>10, <2>1
    <3>2. \A i \in DOMAIN values : ~Held(i) BY <1>6, <2>1
    <3>3. \A i \in DOMAIN values' : ~Held(i)' BY <1>2, <3>2 DEF Held, Against
    <3>4. report'.verdict = "no-safe-value" /\ report'.verdict # "recommended" BY <3>1
    <3> QED BY <3>3, <3>4 DEF RecommendationIsEarned
  <2>2. CASE cleanValues # {} /\ above = {}
    <3>1. report'.verdict = "inconclusive-no-ceiling-found" BY <1>10, <2>2
    <3> QED BY <3>1 DEF RecommendationIsEarned
  <2>3. CASE cleanValues # {} /\ above # {}
    <3>1. report' = [verdict |-> "recommended", recommended |-> highestClean, above |-> Min(above)]
      BY <1>10, <2>3
    <3>2. Min(above) \in above /\ \A v \in above : Min(above) <= v
      <4>1. above \subseteq Nat BY <1>5, <1>7
      <4> HIDE DEF above
      <4> QED BY <2>3, <4>1, MinIs
    <3>3. highestClean \in cleanValues /\ \A v \in cleanValues : highestClean >= v BY <1>9, <2>3
    <3> DEFINE high == Max(cleanValues)
               low  == Min(above)
    <3>4. /\ report'.verdict = "recommended" /\ report'.recommended = high /\ report'.above = low
      BY <3>1
    <3>5. /\ high \in cleanValues /\ \A v \in cleanValues : high >= v
          /\ low \in dirtyValues /\ low > high /\ \A v \in dirtyValues : v > high => low <= v
      BY <3>2, <3>3
    <3> HIDE DEF highestClean, above, high, low
    <3>6. PICK i \in DOMAIN values : values[i] = high /\ Held(i) BY <1>6, <3>5
    <3>7. high \in Nat BY <1>5, <3>6
    <3>8. ASSUME NEW j \in DOMAIN values, values[j] > high PROVE ~Held(j)
      <4>1. Held(j) => values[j] \in cleanValues BY <1>6
      <4> QED BY <1>5, <3>5, <3>7, <3>8, <4>1
    <3>9. PICK j \in DOMAIN values : values[j] = low /\ ~Held(j) BY <1>7, <3>5
    <3>10. low > capacity \/ crowded \/ {<<j, "skip">>, <<j, "error">>} \cap witnessed # {}
      <4>1. PICK kind \in Against : <<j, kind>> \in witnessed BY <3>9 DEF Held
      <4>2. kind \in Wrongs /\ j \in Nat BY <1>4 DEF Against, Wrongs
      <4>3. CASE kind \in {"named", "synthetic"}
        <5>1. Explained(j, kind) BY <1>1, <4>1, <4>2 DEF WitnessInv
        <5> QED BY <3>9, <4>3, <5>1 DEF Explained
      <4>4. CASE kind \in {"skip", "error"} BY <4>1, <4>4
      <4> QED BY <4>2, <4>3, <4>4 DEF Wrongs
    <3>11. ASSUME NEW k \in DOMAIN values PROVE values[k] <= high \/ values[k] >= low
      <4> SUFFICES ASSUME values[k] > high PROVE values[k] >= low BY <1>5, <3>7
      <4>1. values[k] \in dirtyValues BY <1>7, <3>8
      <4>2. low \in Nat BY <1>5, <3>9
      <4> QED BY <1>5, <3>5, <4>1, <4>2
    <3>12. values' = values /\ capacity' = capacity /\ crowded' = crowded /\ witnessed' = witnessed
           /\ perValue' = perValue
      BY <1>2
    <3>13. \A k \in DOMAIN values : Held(k)' <=> Held(k) BY <1>2 DEF Held, Against
    <3>14. \E k \in DOMAIN values' :
             values'[k] = report'.recommended /\ Held(k)' /\ Len(perValue'[k]) = Repeats
      BY <1>4, <3>4, <3>6, <3>12, <3>13
    <3>15. \A k \in DOMAIN values' : values'[k] > report'.recommended => ~Held(k)'
      BY <3>4, <3>8, <3>12, <3>13
    <3>16. \E k \in DOMAIN values' :
             /\ values'[k] = report'.above /\ report'.above > report'.recommended
             /\ \/ report'.above > capacity' \/ crowded'
                \/ {<<k, "skip">>, <<k, "error">>} \cap witnessed' # {}
      BY <3>4, <3>5, <3>9, <3>10, <3>12
    <3>17. \A k \in DOMAIN values' : values'[k] <= report'.recommended \/ values'[k] >= report'.above
      BY <3>4, <3>11, <3>12
    <3>18. report'.verdict # "no-safe-value" BY <3>4
    <3> QED BY <3>14, <3>15, <3>16, <3>17, <3>18 DEF RecommendationIsEarned
  <2> QED BY <2>1, <2>2, <2>3
<1>12. SweepTypes' /\ RowsInv' BY <1>1, <1>2 DEF SweepTypes, RowsInv
<1>13. WitnessInv' BY <1>1, <1>2 DEF WitnessInv, Told, Explained
<1>14. BatchInv' /\ Candidates(values)' BY <1>1, <1>2 DEF BatchInv, Candidates
<1> QED BY <1>2, <1>11, <1>12, <1>13, <1>14 DEF SweepInv

LEMMA SweepGoesOn == SweepInv /\ [SweepNext]_sweepVars => SweepInv'
<1> SUFFICES ASSUME SweepInv, [SweepNext]_sweepVars PROVE SweepInv' OBVIOUS
<1>1. CASE UNCHANGED sweepVars
  <2>1. UNCHANGED <<script, values, capacity, sweepStage, at, repeat, batch, result, stray, perValue, report,
                    witnessed, crowded>>
    BY <1>1 DEF sweepVars, given, running
  <2>2. SweepTypes' /\ RowsInv' BY <2>1 DEF SweepInv, SweepTypes, RowsInv
  <2>3. WitnessInv' BY <2>1 DEF SweepInv, WitnessInv, Told, Explained
  <2>4. (Candidates(values)' <=> Candidates(values)) /\ (BatchInv' <=> BatchInv) BY <2>1 DEF BatchInv, Candidates
  <2>5. RecommendationIsEarned'
    <3>1. \A i : Held(i)' <=> Held(i) BY <2>1 DEF Held, Against
    <3> QED BY <2>1, <3>1 DEF SweepInv, RecommendationIsEarned
  <2> QED BY <2>1, <2>2, <2>3, <2>4, <2>5 DEF SweepInv
<1> QED BY <1>1, BeginsSweepKeeps, RunsKeep, EndsOfRunsKeep, ReportsKeeps DEF SweepNext

(* The inductive invariant of a sweep: every repeat that is over has its    *)
(* result, and each result tells of what went wrong in its run.             *)
THEOREM SweepInvariance == SweepSpec => []SweepInv
BY SweepStarts, SweepGoesOn, PTL DEF SweepSpec

-----------------------------------------------------------------------------
(* VerdictsAreEarned: whatever the edits, the SDK, the schema and the       *)
(* TypeScript that the guards accept are the pinned ones; a test run that   *)
(* exits green ran and passed all it had to, and its idle watchdog fires on *)
(* a file that hangs; a recommended concurrency held in each of its runs,   *)
(* and the boundary above it did not.                                       *)
THEOREM ProgramsVerdictsAreEarned ==
  PinSpec /\ TestRunSpec /\ SweepSpec => []VerdictsAreEarned
<1>1. PinInv /\ TestInv /\ SweepInv => VerdictsAreEarned
  BY DEF PinInv, TestInv, SweepInv, VerdictsAreEarned
<1> QED BY <1>1, PinsInvariance, TestsInvariance, SweepInvariance, PTL

=============================================================================
