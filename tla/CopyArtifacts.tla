--------------------------- MODULE CopyArtifacts ---------------------------
(***************************************************************************)
(* The currency check of committed generated files                         *)
(* (.github/workflows/rainix-copy-artifacts.yaml): the tracked files are   *)
(* marked, the repository's codegen hooks run, the staged config is        *)
(* installed, every path the hooks declare must have been written since    *)
(* the mark (codegen-declaration), and the tree must not have changed.     *)
(* The hooks belong to the repository and are external: each writes what   *)
(* its emitters still emit and prints its declarations to one log.         *)
(***************************************************************************)
EXTENDS Integers, Sequences

CONSTANTS
  Path,    \* files of the repository
  Config,  \* foundry.toml
  Hooks    \* the codegen steps, in order; the second is script/Build.sol

ASSUME CopyAssumption ==
  Config \in Path /\ Hooks \in Seq(STRING) /\ Len(Hooks) >= 2

VARIABLES
  project,  \* the checkout and what its hooks do
  stage,    \* the step running
  check,    \* the job's conclusion
  hook,     \* the next hook
  disk,     \* the content and modification time of each path
  marks,    \* the modification times `mark` wrote down
  log,      \* the lines the hooks printed
  staged,   \* the files in .staged-config, not installed yet
  now       \* the clock of the file system

copyVars == <<project, stage, check, hook, disk, marks, log, staged, now>>

Absent == [content |-> "absent", mtime |-> 0]
Committed(p) == IF p \in project.stale THEN "stale" ELSE "current"

\* A project: the paths git tracks, those of them that are out of date, whether
\* foundry.toml has a generated block and src/generated exists; and for each
\* hook whether it exists, the paths it removes and writes, the ones it stages
\* (it may make the directory and stage none) and the lines it prints.
CopyInit(projects) ==
  /\ project \in projects
  /\ stage = "mark"
  /\ check = "running"
  /\ hook = 1
  /\ disk = [p \in Path |-> IF p \in project.tracked
                            THEN [content |-> Committed(p), mtime |-> 1] ELSE Absent]
  /\ marks = [p \in Path |-> 0]
  /\ log = {}
  /\ staged = {}
  /\ now = 1

On(s) == check = "running" /\ stage = s
Red == check' = "red" /\ UNCHANGED <<stage, hook, disk, marks, log, staged, now>>
Fails(s) == On(s) /\ Red /\ UNCHANGED project

\* run_mark: a path that is not tracked, or does not exist, has no mark.
Mark ==
  /\ On("mark")
  /\ marks' = [p \in Path |-> IF p \in project.tracked THEN disk[p].mtime ELSE 0]
  /\ stage' = "hooks"
  /\ UNCHANGED <<project, check, hook, disk, log, staged, now>>

\* One hook. src/generated without script/Build.sol fails; a hook that is not
\* there is skipped. The staged config is installed after Build.sol.
H == project.hooks[hook]
IsBuild == hook = 2
AfterHook ==
  IF IsBuild THEN "install" ELSE IF hook = Len(Hooks) THEN "verify" ELSE "hooks"
RunHook ==
  /\ On("hooks")
  /\ IF IsBuild /\ project.generated /\ ~H.exists
     THEN Red
     ELSE /\ disk' = IF H.exists
                     THEN [p \in Path |->
                             IF p \in H.writes THEN [content |-> "current", mtime |-> now + 1]
                             ELSE IF p \in H.removes THEN Absent ELSE disk[p]]
                     ELSE disk
          /\ log' = IF H.exists THEN log \union H.prints ELSE log
          /\ staged' = IF H.exists THEN staged \union H.stages ELSE staged
          /\ now' = now + 1
          /\ hook' = hook + 1
          /\ stage' = AfterHook
          /\ UNCHANGED <<check, marks>>
  /\ UNCHANGED project

\* install: without a staging directory, or with an empty one, a generated block
\* in foundry.toml could not be refreshed. The files are copied one by one, and
\* the directory is removed when all of them are.
StagesConfig == project.marker
MakesDir == \E i \in 1 .. hook - 1 : project.hooks[i].exists /\ project.hooks[i].makesDir
AfterInstall == IF hook > Len(Hooks) THEN "verify" ELSE "hooks"
InstallStaged ==
  /\ On("install")
  /\ IF staged = {}
     THEN IF StagesConfig \/ MakesDir
          THEN Red
          ELSE /\ stage' = AfterInstall
               /\ UNCHANGED <<check, hook, disk, marks, log, staged, now>>
     ELSE /\ stage' = "copy"
          /\ UNCHANGED <<check, hook, disk, marks, log, staged, now>>
  /\ UNCHANGED project
CopyStaged ==
  /\ On("copy")
  /\ \E p \in staged :
       /\ disk' = [disk EXCEPT ![p] = [content |-> "current", mtime |-> now + 1]]
       /\ staged' = staged \ {p}
  /\ now' = now + 1
  /\ stage' = IF staged' = {} THEN AfterInstall ELSE "copy"
  /\ UNCHANGED <<project, check, hook, marks, log>>

\* parse: a line declares a path of the repository with the verb `owns`; any
\* other line with the prefix is malformed.
IsDeclaration(line) == line.verb = "owns" /\ line.relative
Owns == {line.path : line \in {l \in log : IsDeclaration(l)}}
Malformed == {line \in log : ~IsDeclaration(line)}

\* written: it exists with another modification time than the mark.
Exists(p) == disk[p].content # "absent"
WrittenIfThere(p) == Exists(p)
Written(p) == Exists(p) /\ disk[p].mtime # marks[p]
Verify ==
  /\ On("verify")
  /\ IF Malformed = {} /\ \A p \in Owns : Written(p)
     THEN stage' = "diff" /\ UNCHANGED <<check, hook, disk, marks, log, staged, now>>
     ELSE Red
  /\ UNCHANGED project

\* git diff, after forge fmt: the tracked files only.
Diff ==
  /\ On("diff")
  /\ check' = IF \A p \in project.tracked : disk[p].content = Committed(p)
              THEN "green" ELSE "red"
  /\ UNCHANGED <<project, stage, hook, disk, marks, log, staged, now>>

CopyNext ==
  \/ Mark
  \/ RunHook
  \/ InstallStaged
  \/ CopyStaged
  \/ Verify
  \/ Diff
  \/ \E s \in {"mark", "hooks", "copy", "verify", "diff"} : Fails(s)

CopySpec(projects) == CopyInit(projects) /\ [][CopyNext]_copyVars

-----------------------------------------------------------------------------
(* Properties *)

Ran == {i \in DOMAIN Hooks : project.hooks[i].exists}
Declared == {line.path : line \in UNION {project.hooks[i].prints : i \in Ran}}

\* A green check vouches for every committed file that a hook declares, writes or
\* stages, foundry.toml among them: it is what the sources generate now, and a
\* hook wrote the declared ones. A dead emitter whose path is declared, a hook
\* that failed halfway, a file removed and not written again or a declaration
\* nobody could read does not pass. Where foundry.toml has a generated block a
\* run that staged no file at all does not pass either; that foundry.toml is
\* among the staged files nobody asks, so a block no hook stages is not vouched
\* for. Whatever was staged is installed before the tree is looked at.
GreenIsCurrent ==
  check = "green" =>
    /\ Declared \intersect project.tracked \intersect project.stale = {}
    /\ \A i \in Ran : (project.hooks[i].writes \union project.hooks[i].stages)
                        \intersect project.tracked \intersect project.stale = {}
    /\ \A p \in Declared :
         /\ disk[p].content = "current"
         /\ \E i \in Ran : p \in project.hooks[i].writes \union project.hooks[i].stages
    /\ \A i \in Ran : \A line \in project.hooks[i].prints : IsDeclaration(line)
    /\ project.marker => \E i \in Ran : project.hooks[i].stages # {}
    /\ staged = {}
=============================================================================
