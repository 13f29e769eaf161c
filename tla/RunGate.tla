------------------------------- MODULE RunGate -------------------------------
(***************************************************************************)
(* One call of run(): its handler judges the arguments, the disk and the    *)
(* policy as they are at that moment, and the process is started there and  *)
(* then, or when a slot comes free, on the disk as it is by then.           *)
(* JobSlots says when a slot is free; here the answer is arbitrary.         *)
(***************************************************************************)
EXTENDS RunRequest, SpawnPolicy

CONSTANTS
  Requests, Disks, Policies, Roots,   \* what a behaviour begins with
  Changes                             \* bound on the changes of disk and policy

VARIABLES
  args, disk, policy,
  roots,        \* the option of GHANTIKA_CWD_ROOTS
  stage,        \* "asked", "refused", "failed", "denied", "rejected", "queued" or "started"
  judged,       \* what the handler resolved: the working directory and the executable
  started,      \* history: the file and the directory the process began with
  changes,
  drifted       \* history: a change came between the judgement and the start

runVars == <<args, disk, policy, roots, stage, judged, started, changes, drifted>>

Unjudged == [cwd |-> {}, executable |-> {}]

GateInit ==
  /\ args \in Requests /\ disk \in Disks /\ policy \in Policies /\ roots \in Roots
  /\ stage = "asked" /\ judged = Unjudged /\ started = {} /\ changes = 0 /\ drifted = FALSE

-----------------------------------------------------------------------------
(* Texts that are paths, and lists of them.                                 *)

SplitOn(text, sep) ==
  LET cuts == SelectSeq([i \in 1 .. Len(text) + 2 |-> i - 1],
                        LAMBDA i : i \in {0, Len(text) + 1} \/ text[i] = sep)
  IN  SelectSeq([k \in 1 .. Len(cuts) - 1 |-> SubSeq(text, cuts[k] + 1, cuts[k + 1] - 1)],
                LAMBDA part : part # <<>>)

PathOf(text) == SelectSeq(SplitOn(text, "/"), LAMBDA part : part # <<".">>)

PlaceOf(text) ==
  [bare |-> ~Contains(text, "/") /\ text # <<".">>,
   relative |-> text[1] # "/", path |-> PathOf(text)]

PlacesOf(text) == LET dirs == SplitOn(text, ":") IN [i \in DOMAIN dirs |-> PlaceOf(dirs[i])]

-----------------------------------------------------------------------------
(* The arguments of a request that was found valid.                         *)

rawCwd ==
  IF args.cwd = Absent THEN {} ELSE {Against(TRUSTED_SERVER_CWD, PlaceOf(args.cwd.chars))}

envVars ==
  LET vars == IF args.env = Absent THEN Absent ELSE Field(args.env, "vars")
  IN  IF vars = Absent THEN <<>>
      ELSE [k \in DOMAIN vars.fields |-> PlacesOf(vars.fields[k].chars)]

envMode ==
  IF args.env # Absent /\ Field(args.env, "mode") = Text(<<"replace">>) THEN "replace" ELSE "merge"

resolvedEnv == buildChildEnv(envMode, envVars)

resolvedCwd == resolveCwd(disk, rawCwd, roots)

(* What the system starts, on the disk as it is: the shell by the path that *)
(* was judged, a program by a search of its own.                            *)
Executable(cwd) ==
  IF WantsShell(args) THEN {SHELL}
  ELSE resolveExecutable(disk, PlaceOf(Argv(args)[1]), cwd, resolvedEnv)

Allowed(executable) ==
  IF WantsShell(args) THEN decideShellPolicy(disk, policy)
  ELSE decideRunPolicy(disk, policy, executable)

-----------------------------------------------------------------------------
Settles(s) == stage' = s /\ UNCHANGED <<args, disk, policy, roots, judged, started, changes, drifted>>

(* spawn() fails where the directory or the program is no longer there.     *)
Start(cwd) ==
  LET dir   == {e \in statSync(disk, cwd) : e.is = "dir"}
      files == UNION {{e \in statSync(disk, p) : e.is = "exec"} : p \in Executable(cwd)}
  IN  IF dir = {} \/ files = {} THEN stage' = "failed" /\ UNCHANGED started
      ELSE stage' = "started" /\ started' = {[file |-> f, cwd |-> d] : f \in files, d \in dir}

Valid == stage = "asked" /\ validateRunInput(args)

Refuses ==
  /\ stage = "asked" /\ ~validateRunInput(args)
  /\ Settles("refused")

(* createFailedJob: there is no directory, or no such command.              *)
Fails ==
  /\ Valid
  /\ \/ resolvedCwd = {}
     \/ ~WantsShell(args) /\ \E cwd \in resolvedCwd : Executable(cwd) = {}
  /\ Settles("failed")

Denies ==
  /\ Valid
  /\ \E cwd \in resolvedCwd : \E executable \in Executable(cwd) : ~Allowed(executable)
  /\ Settles("denied")

Passes(cwd, executable) ==
  /\ cwd \in resolvedCwd /\ executable \in Executable(cwd) /\ Allowed(executable)

Rejects ==
  /\ Valid
  /\ \E cwd \in resolvedCwd : \E executable \in Executable(cwd) : Passes(cwd, executable)
  /\ Settles("rejected")

Queue ==
  Valid /\ \E cwd \in resolvedCwd : \E executable \in Executable(cwd) :
    /\ Passes(cwd, executable)
    /\ judged' = [cwd |-> {cwd}, executable |-> {executable}]
    /\ stage' = "queued"
    /\ UNCHANGED <<args, disk, policy, roots, started, changes, drifted>>

Admit ==
  Valid /\ \E cwd \in resolvedCwd : \E executable \in Executable(cwd) :
    /\ Passes(cwd, executable)
    /\ judged' = [cwd |-> {cwd}, executable |-> {executable}]
    /\ Start(cwd)
    /\ UNCHANGED <<args, disk, policy, roots, changes, drifted>>

Dequeue ==
  /\ stage = "queued"
  /\ \E cwd \in judged.cwd : Start(cwd)
  /\ UNCHANGED <<args, disk, policy, roots, judged, changes, drifted>>

Handle == stage = "asked" /\ (Refuses \/ Fails \/ Denies \/ Rejects \/ Queue \/ Admit)

(* Someone edits the disk or the policy, before the call or while it waits. *)
Change ==
  /\ stage \in {"asked", "queued"} /\ changes < Changes
  /\ changes' = changes + 1
  /\ \/ disk' \in Disks /\ UNCHANGED policy
     \/ policy' \in Policies /\ UNCHANGED disk
  /\ drifted' = (drifted \/ stage = "queued")
  /\ UNCHANGED <<args, roots, stage, judged, started>>

GateNext == Handle \/ Dequeue \/ Change

-----------------------------------------------------------------------------
(* The files the operator names, as the server finds them.                  *)
AllowedFiles ==
  IF policy.read \in BrokenPolicies THEN {}
  ELSE UNION {statSync(disk, p) :
                p \in UNION {resolveExecutable(disk, e, TRUSTED_SERVER_CWD,
                                               [PATH |-> TRUSTED_SERVER_PATH]) : e \in policy.allow}}

AtOrBelow(path, root) == IsPrefix(root, path)

(* A process starts with a file the operator named, whatever the spelling,  *)
(* the PATH and the directory of the request, and in a directory at or      *)
(* below one of the roots; unless the disk or the policy changed while the  *)
(* job was queued, which the code discloses.                                *)
StartsWhatIsAllowed ==
  stage = "started" /\ ~drifted =>
    \A s \in started :
      /\ s.file \in AllowedFiles
      /\ \A given \in roots : \E root \in given : \E e \in statSync(disk, root) :
           AtOrBelow(s.cwd.at, e.at)

(* A request is denied only for a file the operator did not name, however   *)
(* either of them spells it, on a disk whose names are all or none of them  *)
(* case-sensitive.                                                          *)
SpellingDoesNotDeny ==
  stage = "denied" /\ (disk.folds = 0 \/ \A e \in disk.entries : Len(e.at) <= disk.folds) =>
    \A cwd \in resolvedCwd : \A p \in Executable(cwd) :
      statSync(disk, p) \cap AllowedFiles = {}

(* The schema and the handler agree, and a shell is never implied.          *)
ArgumentsAreUnderstood == SchemaIsHonoured(args) /\ ShellIsAskedFor(args)

(* What is started is what the operator allows, and nothing else is denied. *)
JudgedAsAllowed == StartsWhatIsAllowed /\ SpellingDoesNotDeny

=============================================================================
