----------------------------- MODULE SpawnPolicy -----------------------------
(***************************************************************************)
(* What a run() may start: the working directory within the operator's      *)
(* roots, the child's environment, the executable its command resolves to,  *)
(* and the allowlist that executable is judged by.  All are functions of a  *)
(* disk, as it is at one moment.                                            *)
(*                                                                         *)
(* A path is the sequence of its components and a component the sequence of *)
(* its letters, so that letter case and string prefixes are what they are.  *)
(* disk.entries holds what exists, disk.folds is the depth below which the  *)
(* names are case-insensitive: another volume may be mounted there.         *)
(* Windows is left out.                                                     *)
(***************************************************************************)
EXTENDS Integers, Sequences, SequencesExt, TLC

CONSTANTS
  POSIX_DEFAULT_PATH,    \* /usr/bin:/bin
  TRUSTED_SERVER_PATH,   \* PATH of the server when it was loaded
  TRUSTED_SERVER_CWD,
  SHELL                  \* /bin/sh

-----------------------------------------------------------------------------
(* The disk.                                                                *)

Pairs == {<<"a", "A">>, <<"b", "B">>}

LowerLetter(c) == IF \E p \in Pairs : p[2] = c THEN (CHOOSE p \in Pairs : p[2] = c)[1] ELSE c
UpperLetter(c) == IF \E p \in Pairs : p[1] = c THEN (CHOOSE p \in Pairs : p[1] = c)[2] ELSE c

flipCase(path) ==
  [i \in DOMAIN path |->
     [k \in DOMAIN path[i] |->
        LET c == path[i][k] IN IF c = LowerLetter(c) THEN UpperLetter(c) ELSE LowerLetter(c)]]

toLowerCase(path) ==
  [i \in DOMAIN path |-> [k \in DOMAIN path[i] |-> LowerLetter(path[i][k])]]

(* The entry a spelling leads to, itself possibly a link: at most one.      *)
Named(disk, path) ==
  {e \in disk.entries :
     /\ Len(e.at) = Len(path)
     /\ \A i \in DOMAIN path :
          \/ path[i] = e.at[i]
          \/ i > disk.folds /\ toLowerCase(<<path[i]>>) = toLowerCase(<<e.at[i]>>)}

(* stat: the file or directory a spelling leads to, through one link.       *)
statSync(disk, path) ==
  UNION {IF e.is = "link" THEN Named(disk, e.to) ELSE {e} : e \in Named(disk, path)}

(* realpath replaces a link and keeps the spelling of everything else.      *)
realpathSync(disk, path) ==
  {IF e.is = "link" THEN e.to ELSE path : e \in {e \in Named(disk, path) : statSync(disk, path) # {}}}

-----------------------------------------------------------------------------
(* The working directory.  An option is a set of at most one element.       *)

Spelled(path) ==
  IF path = <<>> THEN <<"/">> ELSE FlattenSeq([i \in DOMAIN path |-> <<"/">> \o path[i]])

LiesBelow(cwd, root) ==
  LET realRootWithSep == IF Last(Spelled(root)) = "/" THEN Spelled(root)
                         ELSE Spelled(root) \o <<"/">>
  IN  cwd = root \/ IsPrefix(realRootWithSep, Spelled(cwd))

isWithinConfiguredRoots(disk, cwd, roots) ==
  \E root \in roots : \E realRoot \in realpathSync(disk, root) : LiesBelow(cwd, realRoot)

(* configured is the option of the set of roots; raw that of the argument.  *)
CwdRefusal(disk, target, configured) ==
  CASE statSync(disk, target) = {} -> "does not exist"
    [] \E e \in statSync(disk, target) : e.is # "dir" -> "not a directory"
    [] \E roots \in configured : \A real \in realpathSync(disk, target) :
         ~isWithinConfiguredRoots(disk, real, roots) -> "outside the roots"
    [] OTHER -> "none"

resolveCwd(disk, raw, configured) ==
  LET target == IF raw = {} THEN TRUSTED_SERVER_CWD ELSE CHOOSE p \in raw : TRUE
  IN  IF CwdRefusal(disk, target, configured) = "none" THEN realpathSync(disk, target) ELSE {}

-----------------------------------------------------------------------------
(* The environment and the executable.  A PATH is a sequence of directories *)
(* that may be relative; so may a command that names a path.                *)

computeMinimalBaseEnv == [PATH |-> TRUSTED_SERVER_PATH]

buildChildEnv(mode, vars) ==
  IF mode = "replace" THEN vars ELSE vars @@ computeMinimalBaseEnv

effectivePathForLookup(env) ==
  IF "PATH" \in DOMAIN env THEN env.PATH ELSE POSIX_DEFAULT_PATH

isExecutableFile(disk, path) == \E e \in statSync(disk, path) : e.is = "exec"

Against(cwd, place) == IF place.relative THEN cwd \o place.path ELSE place.path

Candidates(command, cwd, env) ==
  IF command.bare
  THEN [i \in DOMAIN effectivePathForLookup(env) |->
          Against(cwd, effectivePathForLookup(env)[i]) \o command.path]
  ELSE <<Against(cwd, command)>>

resolveExecutable(disk, command, cwd, env) ==
  LET found == SelectSeq(Candidates(command, cwd, env), LAMBDA p : isExecutableFile(disk, p))
  IN  IF found = <<>> THEN {} ELSE {found[1]}

-----------------------------------------------------------------------------
(* The allowlist.                                                           *)

(* Fault: only the name of the file is probed, not the whole path.          *)
ProbesTheNameAlone(disk, path) ==
  LET flipped == Front(path) \o flipCase(<<Last(path)>>)
  IN  statSync(disk, path) # {} /\ statSync(disk, flipped) = statSync(disk, path)

isPathOnCaseInsensitiveFilesystem(disk, path) ==
  statSync(disk, path) # {} /\ statSync(disk, flipCase(path)) = statSync(disk, path)

canonicalizeForComparison(disk, path) ==
  {IF isPathOnCaseInsensitiveFilesystem(disk, real) THEN toLowerCase(real) ELSE real
     : real \in realpathSync(disk, path)}

(* The environment of the job is of no consequence here.                    *)
resolveAllowlistEntry(disk, entry) ==
  UNION {canonicalizeForComparison(disk, p) :
           p \in resolveExecutable(disk, entry, TRUSTED_SERVER_CWD, [PATH |-> TRUSTED_SERVER_PATH])}

(* What the file named by GHANTIKA_POLICY_FILE may turn out to be.          *)
BrokenPolicies == {"unset", "unreadable", "not JSON", "not an object", "other fields", "not strings"}

loadPolicy(disk, policy) ==
  IF policy.read \in BrokenPolicies THEN [ok |-> FALSE, allowed |-> {}]
  ELSE [ok |-> TRUE,
        allowed |-> UNION {resolveAllowlistEntry(disk, e) : e \in policy.allow}]

decideRunPolicy(disk, policy, executable) ==
  LET loaded == loadPolicy(disk, policy)
  IN  loaded.ok /\ \E c \in canonicalizeForComparison(disk, executable) : c \in loaded.allowed

resolveManagedShellBinaryPath == SHELL

decideShellPolicy(disk, policy) ==
  decideRunPolicy(disk, policy, resolveManagedShellBinaryPath)

=============================================================================
