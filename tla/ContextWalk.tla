----------------------------- MODULE ContextWalk -----------------------------
(***************************************************************************)
(* The traversal of the byte caps: agent-context-cap and prompt-cap        *)
(* (rainix-static/src/context_bytes.rs, agent_context_cap.rs and           *)
(* prompt_cap.rs). Root files are charged, the references in them are      *)
(* followed depth first for at most MaxDepth hops, every file is taken at  *)
(* most once, and then the rules found by walking .claude/rules are        *)
(* charged as leaves. The call stack of `follow` is a variable, so that    *)
(* each iteration of its loop is a step.                                   *)
(*                                                                         *)
(* A file is its canonical path. The references of a file are the files    *)
(* its tokens resolve to, in order of appearance; a token that resolves to *)
(* nothing is not among them.                                              *)
(***************************************************************************)
EXTENDS Integers, Sequences, FiniteSets, FiniteSetsExt

CONSTANTS
  File,       \* the files a repository may hold
  Dir,        \* the directories under .claude/rules, it included
  RulesRoot,  \* .claude/rules itself
  MaxDepth,   \* MAX_IMPORT_DEPTH (4) or MAX_REFERENCE_DEPTH (1)
  Size,       \* the bytes a file adds to the context, as the loader strips it
  Cap         \* the largest total that passes

ASSUME WalkAssumption ==
  /\ RulesRoot \in Dir
  /\ IsFiniteSet(Dir)
  /\ MaxDepth \in Nat \ {0}
  /\ Size \in [File -> Nat]
  /\ Cap \in Nat

VARIABLES
  tree,     \* the repository: its files, their references, its rules
  phase,    \* which part of `collect` is running
  todo,     \* the root files that have not been taken yet, in order
  stack,    \* the calls of `follow` in progress, innermost last
  seen,     \* the files taken so far, charged or not
  charged,  \* the contributors, in the order they were pushed
  pending,  \* the stack of `rules_files`: directories not listed yet
  walked,   \* the real directories `rules_files` has listed
  rules     \* the rule files found and not yet taken

walkVars == <<tree, phase, todo, stack, seen, charged, pending, walked, rules>>

Phases == {"memory", "scan", "rules", "done"}

Contributor == [file : File, hop : 0 .. MaxDepth, leaf : BOOLEAN]
Frame == [file : File, next : Nat \ {0}, hop : 0 .. MaxDepth]

\* roots:    the root files, in the order `collect` or `check` names them
\* refs:     the references of each file
\* readable: the files that exist, are regular and are text
\* subdirs, holds: the entries of each directory under .claude/rules
\* scoped:   the files whose frontmatter has a `paths:` key
Tree == [roots    : Seq(File),
         refs     : [File -> Seq(File)],
         readable : SUBSET File,
         subdirs  : [Dir -> SUBSET Dir],
         holds    : [Dir -> SUBSET File],
         scoped   : SUBSET File]

-----------------------------------------------------------------------------
\* The walk starts with nothing taken and the root files to do.
WalkInit(t) ==
  /\ tree = t
  /\ phase = "memory"
  /\ todo = t.roots
  /\ stack = <<>>
  /\ seen = {}
  /\ charged = <<>>
  /\ pending = {}
  /\ walked = {}
  /\ rules = {}

\* `take` returns the text of a readable file that no call took before. It
\* marks the file in any case; marking an absent one too changes nothing,
\* since it is refused again.
TakesAgain(f) == f \in tree.readable
Takes(f) == f \in tree.readable \ seen
Charge(f, hop, leaf) ==
  charged' = Append(charged, [file |-> f, hop |-> hop, leaf |-> leaf])
Call(f, hop) == [file |-> f, next |-> 1, hop |-> hop]

\* root_file: charge the next root, then follow what it references.
RootFile ==
  /\ phase = "memory"
  /\ stack = <<>>
  /\ todo # <<>>
  /\ LET f == Head(todo) IN
       /\ todo' = Tail(todo)
       /\ seen' = seen \union {f}
       /\ IF Takes(f)
          THEN Charge(f, 0, FALSE) /\ stack' = <<Call(f, 0)>>
          ELSE UNCHANGED <<charged, stack>>
  /\ UNCHANGED <<tree, phase, pending, walked, rules>>

Top == stack[Len(stack)]
Below == SubSeq(stack, 1, Len(stack) - 1)
ExhaustedEarly(frame) ==
  frame.hop >= MaxDepth \/ frame.next >= Len(tree.refs[frame.file])
Exhausted(frame) ==
  frame.hop >= MaxDepth \/ frame.next > Len(tree.refs[frame.file])

\* One reference of the file on top: taken, charged and followed in its turn.
Follow ==
  /\ stack # <<>>
  /\ ~Exhausted(Top)
  /\ LET f == tree.refs[Top.file][Top.next]
         caller == [Top EXCEPT !.next = @ + 1]
     IN  /\ seen' = seen \union {f}
         /\ IF Takes(f)
            THEN /\ Charge(f, Top.hop + 1, FALSE)
                 /\ stack' = Below \o <<caller, Call(f, Top.hop + 1)>>
            ELSE /\ stack' = Append(Below, caller)
                 /\ UNCHANGED charged
  /\ UNCHANGED <<tree, phase, todo, pending, walked, rules>>

\* The loop of `follow` is over, or the depth bound stops it before it begins.
Return ==
  /\ stack # <<>>
  /\ Exhausted(Top)
  /\ stack' = Below
  /\ UNCHANGED <<tree, phase, todo, seen, charged, pending, walked, rules>>

\* The roots are done: list the rules.
ScanRules ==
  /\ phase = "memory"
  /\ stack = <<>>
  /\ todo = <<>>
  /\ phase' = "scan"
  /\ pending' = {RulesRoot}
  /\ UNCHANGED <<tree, todo, stack, seen, charged, walked, rules>>

WasListedNever(d) == FALSE
WasListed(d) == d \in walked

\* One directory popped from the stack of `rules_files`; a real directory met
\* before, through a link or a loop of links, is not listed again.
ListDir ==
  /\ phase = "scan"
  /\ \E d \in pending :
       /\ walked' = walked \union {d}
       /\ IF WasListed(d)
          THEN pending' = pending \ {d} /\ UNCHANGED rules
          ELSE /\ pending' = (pending \ {d}) \union tree.subdirs[d]
               /\ rules' = rules \union tree.holds[d]
  /\ UNCHANGED <<tree, phase, todo, stack, seen, charged>>

ScanEnds ==
  /\ phase = "scan"
  /\ pending = {}
  /\ phase' = "rules"
  /\ UNCHANGED <<tree, todo, stack, seen, charged, pending, walked, rules>>

\* A rule is a leaf: taken, and charged unless its frontmatter scopes it.
ChargeRule ==
  /\ phase = "rules"
  /\ \E f \in rules :
       /\ rules' = rules \ {f}
       /\ seen' = seen \union {f}
       /\ IF Takes(f) /\ f \notin tree.scoped
          THEN Charge(f, 0, TRUE)
          ELSE UNCHANGED charged
  /\ UNCHANGED <<tree, phase, todo, stack, pending, walked>>

WalkEnds ==
  /\ phase = "rules"
  /\ rules = {}
  /\ phase' = "done"
  /\ UNCHANGED <<tree, todo, stack, seen, charged, pending, walked, rules>>

WalkNext ==
  \/ RootFile
  \/ Follow
  \/ Return
  \/ ScanRules
  \/ ListDir
  \/ ScanEnds
  \/ ChargeRule
  \/ WalkEnds

-----------------------------------------------------------------------------
\* The bytes charged so far, and the verdict on them: at the cap passes.
Total == MapThenSumSet(LAMBDA i : Size[charged[i].file], DOMAIN charged)
WithinCap == Total <= Cap

-----------------------------------------------------------------------------
(* Properties *)

\* Every variable holds a value of its kind: a contributor is a file with the
\* hops it was reached by, a frame a file with the reference it is at.
WalkTypeOK ==
  /\ tree \in Tree
  /\ phase \in Phases
  /\ todo \in Seq(File)
  /\ stack \in Seq(Frame)
  /\ seen \subseteq File
  /\ charged \in Seq(Contributor)
  /\ pending \subseteq Dir
  /\ walked \subseteq Dir
  /\ rules \subseteq File

ChargedFiles == {charged[i].file : i \in DOMAIN charged}
Targets(f) == {tree.refs[f][i] : i \in DOMAIN tree.refs[f]}

\* When `collect` returns, nothing a charged file loads escaped the bill:
\* every readable reference of a file that was followed (not a rule, and
\* reached before the last hop) was charged, as itself or as a root.
FollowedWhole ==
  phase = "done" =>
    \A i \in DOMAIN charged :
      ~charged[i].leaf /\ charged[i].hop < MaxDepth =>
        Targets(charged[i].file) \intersect tree.readable \subseteq ChargedFiles

\* The files within n references of the roots, by definition and not by search.
Reach[n \in Nat] ==
  IF n = 0
  THEN {tree.roots[i] : i \in DOMAIN tree.roots} \intersect tree.readable
  ELSE Reach[n - 1] \union
         ((UNION {Targets(f) : f \in Reach[n - 1]}) \intersect tree.readable)

\* A rule file stands in a directory that .claude/rules leads to.
RuleDirs[n \in Nat] ==
  IF n = 0 THEN {RulesRoot}
  ELSE RuleDirs[n - 1] \union UNION {tree.subdirs[d] : d \in RuleDirs[n - 1]}
LaunchRules ==
  ((UNION {tree.holds[d] : d \in RuleDirs[Cardinality(Dir)]}) \ tree.scoped)
    \intersect tree.readable

\* The bill is exact. A file is billed once, however many files, rules and
\* links lead to it; only what loads at launch is billed, a rule without
\* `paths:` or a file within MaxDepth references of a root; and every such rule
\* is on it when `collect` returns.
BillIsExact ==
  /\ \A i, j \in DOMAIN charged : charged[i].file = charged[j].file => i = j
  /\ ChargedFiles \subseteq Reach[MaxDepth] \union LaunchRules
  /\ phase = "done" => LaunchRules \subseteq ChargedFiles
=============================================================================
