--------------------------- MODULE MutationLedger ---------------------------
(***************************************************************************)
(* The mutation-test ledger, audit/mutation-test-scans.json: runs appended *)
(* by hand on branches, each naming commits, merged into main by a merge   *)
(* commit or by a squash, and the gate that reads it in some checkout      *)
(* (rainix-static/src/mutation_ledger.rs and its composite action).        *)
(***************************************************************************)
EXTENDS Integers, FiniteSets

CONSTANTS
  MaxCommit,  \* commits are numbered 1 .. MaxCommit (a bound)
  Forms       \* the forms a hand-written record may have

Commit == 1 .. MaxCommit
Unknown == 0     \* a well-formed name of no commit here
NoName == -1     \* no testsAfterCommit, or a commit that is missing
Malformed == -2  \* a prefix, a capital, a number: not a full object name

\* What a record's other fields may be.
Fields == {"timestamp", "tool", "scope", "skillVersion", "summary"}
Optional == {"skillVersion"}
Record == [commit : Commit \union {Unknown, NoName, Malformed},
           testsAfterCommit : Commit \union {Unknown, NoName, Malformed},
           form : [Fields -> {"good", "absent", "wrong"}]]

\* A file that is not a JSON array of objects is "other".
NoLedger == [kind |-> "absent", records |-> {}]

ASSUME LedgerAssumption ==
  /\ MaxCommit \in Nat \ {0}
  /\ Forms \subseteq [Fields -> {"good", "absent", "wrong"}]

VARIABLES
  last,     \* the newest commit
  parents,  \* the parents of each commit
  ledger,   \* the ledger in the tree of each commit
  main,     \* the head of main
  branch,   \* the head of a branch
  gate      \* the run of the gate: its checkout and how far it has come

history == <<last, parents, ledger, main, branch>>
ledgerVars == <<history, gate>>

Idle == [at |-> "idle", head |-> 1, shallow |-> FALSE, todo |-> {}, offended |-> FALSE]

\* The ancestors of a commit, itself included; a parent has a smaller number.
Ancestors[c \in Commit] == {c} \union UNION {Ancestors[p] : p \in parents[c]}

-----------------------------------------------------------------------------
LedgerInit ==
  /\ last = 1
  /\ parents = [c \in Commit |-> {}]
  /\ ledger = [c \in Commit |-> NoLedger]
  /\ main = 1
  /\ branch = 1
  /\ gate = Idle

\* A new commit with these parents and this ledger. A run of the gate reads
\* commits only, which never change: history may as well wait for it to end.
Add(ps, file) ==
  /\ gate.at = "idle"
  /\ last < MaxCommit
  /\ last' = last + 1
  /\ parents' = [parents EXCEPT ![last + 1] = ps]
  /\ ledger' = [ledger EXCEPT ![last + 1] = file]
  /\ UNCHANGED gate

Work ==
  /\ Add({branch}, ledger[branch])
  /\ branch' = last + 1
  /\ UNCHANGED main

\* The skill's run is appended by hand: the record names what its writer typed.
AppendRecord ==
  /\ \E commit \in 1 .. last \union {Unknown, NoName, Malformed},
        tests \in {branch, NoName}, form \in Forms :
       Add({branch}, [kind |-> "array",
                      records |-> ledger[branch].records \union
                        {[commit |-> commit, testsAfterCommit |-> tests, form |-> form]}])
  /\ branch' = last + 1
  /\ UNCHANGED main

\* The array is emptied, or the file stops being an array.
Mangle ==
  /\ \E kind \in {"array", "other"} : Add({branch}, [kind |-> kind, records |-> {}])
  /\ branch' = last + 1
  /\ UNCHANGED main

Merged(a, b) ==
  IF a.kind = "absent" THEN b ELSE IF b.kind = "absent" THEN a
  ELSE [kind    |-> IF a.kind = b.kind THEN a.kind ELSE "other",
        records |-> a.records \union b.records]

\* The branch enters main with its commits, or squashed into one new commit.
Merge ==
  /\ branch # main
  /\ \/ Add({main, branch}, Merged(ledger[main], ledger[branch]))
     \/ Add({main}, Merged(ledger[main], ledger[branch]))
  /\ main' = last + 1
  /\ branch' = last + 1

-----------------------------------------------------------------------------
\* check_shape: the offences of a record, and the names it gives.
RequiredName(n) == n # NoName /\ n # Malformed
RecordOffends(r) ==
  \/ ~RequiredName(r.commit)
  \/ r.testsAfterCommit = Malformed
  \/ \E f \in Fields : r.form[f] = "wrong" \/ (r.form[f] = "absent" /\ f \notin Optional)
ShapeOffends(file) ==
  \/ file.kind = "other"
  \/ file.records = {}
  \/ \E r \in file.records : RecordOffends(r)
Shas(file) ==
  (UNION {{r.commit, r.testsAfterCommit} : r \in file.records}) \ {NoName, Malformed}

\* A checkout of main or of the branch, by the workflow or by hand, in full or
\* shallow. Without a ledger the gate has nothing to say.
Start ==
  /\ gate.at = "idle"
  /\ \E head \in {main, branch}, shallow \in BOOLEAN :
       gate' = [at       |-> IF ledger[head].kind = "absent" THEN "skipped" ELSE "action",
                head     |-> head,
                shallow  |-> shallow,
                todo     |-> {},
                offended |-> FALSE]
  /\ UNCHANGED history

\* The composite action fetches the history of a shallow checkout first; the
\* fetch may fail, and a caller of the binary has no such step.
Unshallow ==
  /\ gate.at = "action"
  /\ \/ gate' = [gate EXCEPT !.at = "shape", !.shallow = FALSE]
     \/ gate' = [gate EXCEPT !.at = "shape"]
     \/ gate.shallow /\ gate' = [gate EXCEPT !.at = "refused"]
  /\ UNCHANGED history

\* The shape is checked; names are only asked about on a full history.
AnswerableAnyway(file) == TRUE
Answerable(file) == Shas(file) # {} => ~gate.shallow
CheckShape ==
  /\ gate.at = "shape"
  /\ LET file == ledger[gate.head] IN
       gate' = [gate EXCEPT
         !.at       = IF Answerable(file) THEN "ancestry" ELSE "refused",
         !.todo     = Shas(file),
         !.offended = ShapeOffends(file)]
  /\ UNCHANGED history

\* git_probe: what HEAD knows of one name, in a shallow checkout nothing but
\* itself. Unknown and NotAncestor both offend.
IsAncestor(n) == n \in (IF gate.shallow THEN {gate.head} ELSE Ancestors[gate.head])
Probe ==
  /\ gate.at = "ancestry"
  /\ \E n \in gate.todo :
       gate' = [gate EXCEPT !.todo = @ \ {n}, !.offended = @ \/ ~IsAncestor(n)]
  /\ UNCHANGED history

\* git itself failed: the question is unanswerable.
ProbeFails ==
  /\ gate.at = "ancestry"
  /\ gate.todo # {}
  /\ gate' = [gate EXCEPT !.at = "refused"]
  /\ UNCHANGED history

Answer ==
  /\ gate.at = "ancestry"
  /\ gate.todo = {}
  /\ gate' = [gate EXCEPT !.at = IF gate.offended THEN "red" ELSE "green"]
  /\ UNCHANGED history

Again ==
  /\ gate.at \in {"skipped", "refused", "red", "green"}
  /\ gate' = Idle
  /\ UNCHANGED history

LedgerNext ==
  \/ Work
  \/ AppendRecord
  \/ Mangle
  \/ Merge
  \/ Start
  \/ Unshallow
  \/ CheckShape
  \/ Probe
  \/ ProbeFails
  \/ Answer
  \/ Again

LedgerSpec == LedgerInit /\ [][LedgerNext]_ledgerVars

-----------------------------------------------------------------------------
(* Properties *)

\* Every variable holds a value of its kind, and history only looks back.
LedgerTypeOK ==
  /\ last \in Commit
  /\ parents \in [Commit -> SUBSET Commit]
  /\ \A c \in Commit : \A p \in parents[c] : p < c
  /\ ledger \in [Commit -> [kind : {"absent", "array", "other"}, records : SUBSET Record]]
  /\ main \in 1 .. last
  /\ branch \in 1 .. last
  /\ gate.head \in 1 .. last
  /\ gate.todo \subseteq Commit \union {Unknown}

\* A record its readers can base a comparison on: whole, and naming commits of
\* the history it is read in.
Sound(file, c) ==
  /\ file.kind = "array" /\ file.records # {}
  /\ \A r \in file.records :
       /\ r.commit \in Ancestors[c]
       /\ r.testsAfterCommit \in Ancestors[c] \union {NoName}
       /\ \A f \in Fields : r.form[f] = "good" \/ (f \in Optional /\ r.form[f] = "absent")

\* The gate is right in both directions, whatever branches and merges did to
\* the history: green means every record is whole and names only ancestors of
\* HEAD, and red means one is not. A shallow checkout, in which old commits
\* look unreachable, is refused and never answered red.
VerdictIsTrue ==
  /\ gate.at = "green" => Sound(ledger[gate.head], gate.head)
  /\ gate.at = "red" => ~Sound(ledger[gate.head], gate.head)
  /\ gate.at = "skipped" => ledger[gate.head].kind = "absent"

=============================================================================
