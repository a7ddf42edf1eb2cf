---------------------------- MODULE MCStaticJob ----------------------------
(***************************************************************************)
(* The static job, the two gates of it that have a history or a search of  *)
(* their own, and the scanners. They share no state: `turn` picks the one  *)
(* a behaviour explores, and the others rest.                              *)
(***************************************************************************)
EXTENDS StaticJob, MutationLedger, FrozenSnapshots, TextScanners, TLC

CONSTANTS f1, f2, f3, f4, rulesDir, subDir

VARIABLE turn

-----------------------------------------------------------------------------
(* The job: a clean repository with one part of it varied, its imports     *)
(* among agent context files, its rules, its source lines, or what the     *)
(* other checks look at.                                                   *)

MCSize == [f \in File |-> IF f = f4 THEN 2 ELSE 1]

Lists(n) == {<<>>} \union {<<f>> : f \in File}
              \union (IF n = 1 THEN {} ELSE {<<f, g>> : f, g \in File})

EmptyTree ==
  [roots |-> <<f1, f2>>, refs |-> [f \in File |-> <<>>], readable |-> File,
   subdirs |-> [d \in Dir |-> {}], holds |-> [d \in Dir |-> {}], scoped |-> {}]

\* Every way for four files to import each other, the first up to two of them.
ImportTrees ==
  {[EmptyTree EXCEPT !.roots = roots, !.refs = (f1 :> a) @@ (f2 :> b) @@ (f3 :> c) @@ (f4 :> d)] :
     roots \in {<<f1>>, <<f1, f2>>}, a \in Lists(2),
     b \in Lists(1), c \in Lists(1), d \in Lists(1)}

\* Every link between two rule directories, with rules scoped or unreadable.
RuleTrees ==
  {[EmptyTree EXCEPT !.refs[f1] = list, !.readable = readable, !.scoped = scoped,
      !.subdirs = links, !.holds = (rulesDir :> {f3}) @@ (subDir :> {f3, f4})] :
     list \in {<<>>, <<f4>>}, readable \in {File, File \ {f3}, File \ {f1}},
     scoped \in SUBSET {f3, f4}, links \in [Dir -> SUBSET Dir]}

SourceFile(dir, comment, code) ==
  [dir |-> dir, source |-> TRUE, deprecated |-> FALSE, comment |-> comment, code |-> code]

CleanRepository ==
  [tree       |-> [EmptyTree EXCEPT !.roots = <<>>],
   entries    |-> {"src"},
   gitmodules |-> FALSE,
   gitlinks   |-> FALSE,
   files      |-> {SourceFile("src", 2, 1)},
   buckets    |-> <<>>,
   lock       |-> FALSE,
   imports    |-> {".", "forge-std-1.17.0"},
   rule       |-> [pattern |-> "ignore", tracked |-> TRUE],
   envTracked |-> FALSE]

SourceFiles ==
  {SourceFile("src", 3, 1), SourceFile("src", 2, 1), SourceFile("test", 3, 1),
   SourceFile("test", 0, 2), SourceFile(".github", 0, 1),
   [SourceFile("src", 4, 0) EXCEPT !.deprecated = TRUE],
   [SourceFile("test", 9, 0) EXCEPT !.source = FALSE]}

MCRepositories ==
  {[CleanRepository EXCEPT !.tree = t] : t \in ImportTrees \union RuleTrees}
    \union {[CleanRepository EXCEPT !.files = files, !.buckets = buckets] :
              files \in SUBSET SourceFiles,
              buckets \in {<<>>, <<{"src", "test"}>>, <<{"src"}, {"test"}>>}}
    \union {[CleanRepository EXCEPT !.lock = lock, !.imports = imports, !.entries = entries] :
              lock \in BOOLEAN, imports \in SUBSET {".", "src", "dependencies", "forge-std-1.17.0"},
              entries \in {{"src"}, {"src", "test"}}}
    \union {[CleanRepository EXCEPT !.gitmodules = modules, !.gitlinks = links,
                          !.rule = rule, !.envTracked = env] :
              modules, links, env \in BOOLEAN,
              rule \in [pattern : {"none", "ignore", "negate"}, tracked : BOOLEAN]}

-----------------------------------------------------------------------------
(* The ledger: four commits are enough for a record on a branch that main  *)
(* does not hold, a merge or a squash of it, and a check of either side.   *)
Good == [f \in Fields |-> IF f \in Optional THEN "absent" ELSE "good"]
MCForms == {Good, [Good EXCEPT !["timestamp"] = "wrong"]}

-----------------------------------------------------------------------------
(* The append-only gate: up to three deletions and three additions over a  *)
(* chain of three texts, which gives augmenting paths of every length up   *)
(* to three, a second tag directory, and the changes in place.             *)
MCTexts == {<<1>>, <<1, 2>>, <<1, 2, 3>>}
Snapshots ==
  [tag : {1}, content : Contents] \union {[tag |-> 2, content |-> <<1>>]}
Branch(gone, new, changed) == [deleted |-> gone, added |-> new, modified |-> changed]
MCBranches ==
  {Branch(gone, new, <<>>) : gone, new \in BoundedSeq(Snapshots, 3)}
    \union {Branch(<<[tag |-> 1, content |-> <<1>>]>>, new, <<[base |-> base, head |-> head]>>) :
              new \in BoundedSeq(Snapshots, 1), base, head \in Contents}

-----------------------------------------------------------------------------
(* The scanners: every short text, and declarations in every surrounding.  *)
Tokens == {"space", "natspec", "comment", "other", "semicolon", "open", "close"}
Heads ==
  {Declaration, <<"other", "bytes", "constant", "DEPENDENCIES", "=">>,
   <<"bytes", "comment", "constant", "natspec", "DEPENDENCIES", "space", "=">>,
   <<"bytes", "constant", "=">>}
MCSamples ==
  {[scan |-> "metadata", text |-> lines] : lines \in BoundedSeq({"metadata", "header", "comment", "line"}, 5)}
    \union {[scan |-> "dependencies", text |-> before \o head \o value \o after] :
              before \in BoundedSeq(Tokens, 2), head \in Heads,
              value \in {<<"other">>, <<"open", "semicolon", "close">>},
              after \in {<<>>, <<"semicolon">>, <<"semicolon", "natspec">>}}
    \union {[scan |-> "imports", text |-> words] :
              words \in BoundedSeq({"import", "string", "semicolon", "other"}, 5)}
    \union {[scan |-> "glob", text |-> pattern, name |-> name] :
              pattern \in BoundedSeq({"a", "b", "*", "?"}, 4), name \in BoundedSeq({"a", "b"}, 3)}
NoSample == [scan |-> "metadata", text |-> <<>>]

-----------------------------------------------------------------------------
\* A machine whose turn it is not is at the end or the start of its run.
JobRests ==
  /\ WalkInit(EmptyTree)
  /\ repo = CleanRepository
  /\ step = 1 /\ job = "red" /\ disk = {} /\ failed = {}
DiffRests ==
  /\ deleted = <<>> /\ added = <<>> /\ modified = <<>>
  /\ carrier = <<>> /\ next = 1 /\ visited = {} /\ calls = <<>>

MCInit ==
  /\ turn \in {"job", "ledger", "snapshots", "text"}
  /\ LedgerInit
  /\ IF turn = "text" THEN ScanInit ELSE sample = NoSample /\ ScanStarts
  /\ \/ turn = "job" /\ Init /\ DiffRests
     \/ turn \in {"ledger", "text"} /\ JobRests /\ DiffRests
     \/ turn = "snapshots" /\ JobRests /\ DiffInit

JobTurn == turn = "job" /\ Next /\ UNCHANGED <<turn, ledgerVars, diffVars, scanVars>>
LedgerTurn == turn = "ledger" /\ LedgerNext /\ UNCHANGED <<turn, vars, diffVars, scanVars>>
DiffTurn == turn = "snapshots" /\ DiffNext /\ UNCHANGED <<turn, vars, ledgerVars, scanVars>>
TextTurn == turn = "text" /\ ScanNext /\ UNCHANGED <<turn, vars, ledgerVars, diffVars>>

\* The runner executes the job, as in FairSpec.
MCSpec ==
  /\ MCInit
  /\ [][JobTurn \/ LedgerTurn \/ DiffTurn \/ TextTurn]_<<turn, vars, ledgerVars, diffVars, scanVars>>
  /\ WF_vars(turn = "job" /\ Next)
=============================================================================
