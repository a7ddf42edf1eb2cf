---------------------------- MODULE StaticJobProofs ----------------------------
(***************************************************************************)
(* For any repository, any caps and any depth of references: the walk of   *)
(* the byte caps bills what loads at launch, each file once (module        *)
(* ContextWalk), and a green static job says what its steps are for        *)
(* (module StaticJob). For any history of any number of commits: the       *)
(* verdict of the mutation-ledger gate is true (module MutationLedger).    *)
(***************************************************************************)
EXTENDS StaticJob, MutationLedger, Induction, SequenceTheorems

-----------------------------------------------------------------------------
(* The recursive definitions of ContextWalk. *)

\* What is within a number of references of the roots, by their equations.
LEMMA ReachSteps ==
  ASSUME tree \in Tree
  PROVE  /\ Reach \in [Nat -> SUBSET File]
         /\ Reach[0] = {tree.roots[i] : i \in DOMAIN tree.roots} \intersect tree.readable
         /\ \A n \in Nat : Reach[n + 1] =
              Reach[n] \union
                ((UNION {Targets(f) : f \in Reach[n]}) \intersect tree.readable)
<1> DEFINE x0 == {tree.roots[i] : i \in DOMAIN tree.roots} \intersect tree.readable
           Next1(X) == X \union ((UNION {Targets(f) : f \in X}) \intersect tree.readable)
           F == [X \in SUBSET File |-> Next1(X)]
<1>1. x0 \in SUBSET File /\ F \in [SUBSET File -> SUBSET File]
  BY DEF Tree
<1>2. PICK g : g \in [Nat -> SUBSET File] /\ g[0] = x0 /\ \A n \in Nat : g[n + 1] = F[g[n]]
  <2>1. MapsInto(F, SUBSET File)
    BY <1>1 DEF MapsInto
  <2> HIDE DEF F, x0
  <2>2. \E g : IsIteration(g, SUBSET File, F, x0)
    BY <1>1, <2>1, IterationExists
  <2> QED
    BY <2>2 DEF IsIteration
<1>3. \A n \in Nat : g[n + 1] = Next1(g[n])
  <2> HIDE DEF Next1
  <2> QED
    BY <1>2
<1>4. g = [n \in Nat |-> IF n = 0 THEN x0 ELSE Next1(g[n - 1])]
  <2> HIDE DEF Next1, x0
  <2>1. \A n \in Nat : n # 0 => n - 1 \in Nat /\ (n - 1) + 1 = n
    OBVIOUS
  <2>2. \A n \in Nat : g[n] = IF n = 0 THEN x0 ELSE Next1(g[n - 1])
    BY <1>2, <1>3, <2>1
  <2> QED
    BY <1>2, <2>2
<1>5. Reach = [n \in Nat |-> IF n = 0 THEN x0 ELSE Next1(Reach[n - 1])]
  BY <1>4 DEF Reach
<1>6. Reach[0] = x0 /\ \A n \in Nat : Reach[n + 1] = Next1(Reach[n])
  <2> HIDE DEF Next1, x0
  <2>1. \A n \in Nat : n + 1 \in Nat /\ n + 1 # 0 /\ (n + 1) - 1 = n
    OBVIOUS
  <2> QED
    BY <1>5, <2>1
<1>7. \A n \in Nat : Reach[n] \in SUBSET File
  <2> DEFINE T == {n \in Nat : Reach[n] \in SUBSET File}
  <2>1. 0 \in T
    BY <1>1, <1>6
  <2>2. \A n \in Nat : n \in T => n + 1 \in T
    BY <1>6 DEF Tree
  <2> HIDE DEF T
  <2>3. Nat \subseteq T
    BY <2>1, <2>2, SetInduction
  <2> QED
    BY <2>3 DEF T
<1>8. Reach \in [Nat -> SUBSET File]
  <2> HIDE DEF Next1, x0
  <2> QED
    BY <1>5, <1>7
<1> QED
  BY <1>6, <1>8

\* What is reached in fewer hops is reached within the depth.
LEMMA ReachGrows ==
  ASSUME tree \in Tree
  PROVE  \A n \in Nat : n <= MaxDepth => Reach[n] \subseteq Reach[MaxDepth]
<1> DEFINE T == {k \in Nat : \A n \in Nat : Reach[n] \subseteq Reach[n + k]}
<1>1. 0 \in T
  OBVIOUS
<1>2. ASSUME NEW k \in Nat, k \in T PROVE k + 1 \in T
  <2> SUFFICES ASSUME NEW n \in Nat PROVE Reach[n] \subseteq Reach[n + (k + 1)]
    OBVIOUS
  <2>1. n + k \in Nat /\ n + (k + 1) = (n + k) + 1
    OBVIOUS
  <2>2. Reach[n + k] \subseteq Reach[(n + k) + 1]
    BY <2>1, ReachSteps
  <2> QED
    BY <1>2, <2>1, <2>2
<1> HIDE DEF T
<1>3. Nat \subseteq T
  BY <1>1, <1>2, SetInduction
<1> SUFFICES ASSUME NEW n \in Nat, n <= MaxDepth PROVE Reach[n] \subseteq Reach[MaxDepth]
  OBVIOUS
<1>4. MaxDepth - n \in Nat /\ n + (MaxDepth - n) = MaxDepth
  BY WalkAssumption
<1>5. Reach[n] \subseteq Reach[n + (MaxDepth - n)]
  BY <1>3, <1>4 DEF T
<1> QED
  BY <1>4, <1>5

\* The directories within a number of steps of .claude/rules.
LEMMA RuleDirsSteps ==
  ASSUME tree \in Tree
  PROVE  /\ RuleDirs \in [Nat -> SUBSET Dir]
         /\ RuleDirs[0] = {RulesRoot}
         /\ \A n \in Nat : RuleDirs[n + 1] =
              RuleDirs[n] \union UNION {tree.subdirs[d] : d \in RuleDirs[n]}
<1> DEFINE Next1(X) == X \union UNION {tree.subdirs[d] : d \in X}
           F == [X \in SUBSET Dir |-> Next1(X)]
<1>1. {RulesRoot} \in SUBSET Dir /\ F \in [SUBSET Dir -> SUBSET Dir]
  BY WalkAssumption DEF Tree
<1>2. PICK g : g \in [Nat -> SUBSET Dir] /\ g[0] = {RulesRoot} /\ \A n \in Nat : g[n + 1] = F[g[n]]
  <2>1. MapsInto(F, SUBSET Dir)
    BY <1>1 DEF MapsInto
  <2> HIDE DEF F
  <2>2. \E g : IsIteration(g, SUBSET Dir, F, {RulesRoot})
    BY <1>1, <2>1, IterationExists
  <2> QED
    BY <2>2 DEF IsIteration
<1>3. \A n \in Nat : g[n + 1] = Next1(g[n])
  <2> HIDE DEF Next1
  <2> QED
    BY <1>2
<1>4. g = [n \in Nat |-> IF n = 0 THEN {RulesRoot} ELSE Next1(g[n - 1])]
  <2> HIDE DEF Next1
  <2>1. \A n \in Nat : n # 0 => n - 1 \in Nat /\ (n - 1) + 1 = n
    OBVIOUS
  <2>2. \A n \in Nat : g[n] = IF n = 0 THEN {RulesRoot} ELSE Next1(g[n - 1])
    BY <1>2, <1>3, <2>1
  <2> QED
    BY <1>2, <2>2
<1>5. RuleDirs = [n \in Nat |-> IF n = 0 THEN {RulesRoot} ELSE Next1(RuleDirs[n - 1])]
  BY <1>4 DEF RuleDirs
<1>6. RuleDirs[0] = {RulesRoot} /\ \A n \in Nat : RuleDirs[n + 1] = Next1(RuleDirs[n])
  <2> HIDE DEF Next1
  <2>1. \A n \in Nat : n + 1 \in Nat /\ n + 1 # 0 /\ (n + 1) - 1 = n
    OBVIOUS
  <2> QED
    BY <1>5, <2>1
<1>7. \A n \in Nat : RuleDirs[n] \in SUBSET Dir
  <2> DEFINE T == {n \in Nat : RuleDirs[n] \in SUBSET Dir}
  <2>1. 0 \in T
    BY <1>1, <1>6
  <2>2. \A n \in Nat : n \in T => n + 1 \in T
    BY <1>6 DEF Tree
  <2> HIDE DEF T
  <2>3. Nat \subseteq T
    BY <2>1, <2>2, SetInduction
  <2> QED
    BY <2>3 DEF T
<1>8. RuleDirs \in [Nat -> SUBSET Dir]
  <2> HIDE DEF Next1
  <2> QED
    BY <1>5, <1>7
<1> QED
  BY <1>6, <1>8

\* The directories that .claude/rules leads to: within as many steps as there
\* are directories, since each step that finds no new one is the last to.
LedTo == RuleDirs[Cardinality(Dir)]

\* The directories that RulesRoot leads to lead to no other.
LEMMA LedToIsClosed ==
  ASSUME tree \in Tree
  PROVE  /\ LedTo \subseteq Dir
         /\ RulesRoot \in LedTo
         /\ \A d \in LedTo : tree.subdirs[d] \subseteq LedTo
<1> DEFINE N == Cardinality(Dir)
           T == {n \in Nat : RulesRoot \in RuleDirs[n] /\
                   (RuleDirs[n + 1] = RuleDirs[n] \/ Cardinality(RuleDirs[n]) >= n + 1)}
<1>1. \A n \in Nat :
        /\ RuleDirs[n] \subseteq Dir
        /\ RuleDirs[n] \subseteq RuleDirs[n + 1]
        /\ IsFiniteSet(RuleDirs[n])
        /\ Cardinality(RuleDirs[n]) \in Nat
        /\ Cardinality(RuleDirs[n]) <= N
  BY RuleDirsSteps, WalkAssumption, FS_Subset, FS_CardinalityType
<1>2. 0 \in T
  <2>1. RuleDirs[0] = {RulesRoot} /\ Cardinality({RulesRoot}) = 1
    BY RuleDirsSteps, FS_Singleton
  <2> QED
    BY <2>1
<1>3. ASSUME NEW n \in Nat, n \in T PROVE n + 1 \in T
  <2>1. n + 1 \in Nat /\ RulesRoot \in RuleDirs[n + 1]
    BY <1>1, <1>3
  <2>2. CASE RuleDirs[n + 1] = RuleDirs[n]
    <3>1. RuleDirs[(n + 1) + 1] = RuleDirs[n + 1]
      BY <2>1, <2>2, RuleDirsSteps
    <3> QED
      BY <2>1, <3>1
  <2>3. CASE RuleDirs[n + 1] # RuleDirs[n]
    <3>1. Cardinality(RuleDirs[n]) >= n + 1
      BY <1>3, <2>3
    <3>2. Cardinality(RuleDirs[n]) <= Cardinality(RuleDirs[n + 1])
          /\ Cardinality(RuleDirs[n]) # Cardinality(RuleDirs[n + 1])
      BY <1>1, <2>1, <2>3, FS_Subset
    <3>3. Cardinality(RuleDirs[n + 1]) >= (n + 1) + 1
      BY <1>1, <2>1, <3>1, <3>2
    <3> QED
      BY <2>1, <3>3
  <2> QED
    BY <2>2, <2>3
<1>4. N \in Nat
  BY WalkAssumption, FS_CardinalityType
<1>5. Nat \subseteq T
  <2> HIDE DEF T, N
  <2> QED
    BY <1>2, <1>3, SetInduction
<1>6. RulesRoot \in RuleDirs[N] /\ RuleDirs[N + 1] = RuleDirs[N]
  <2> HIDE DEF N
  <2>1. RulesRoot \in RuleDirs[N]
        /\ (RuleDirs[N + 1] = RuleDirs[N] \/ Cardinality(RuleDirs[N]) >= N + 1)
    <3> HIDE DEF T
    <3>1. N \in T
      BY <1>4, <1>5
    <3> QED
      BY <3>1 DEF T
  <2>2. Cardinality(RuleDirs[N]) \in Nat /\ Cardinality(RuleDirs[N]) <= N
    BY <1>1, <1>4
  <2>3. ~(Cardinality(RuleDirs[N]) >= N + 1)
    BY <1>4, <2>2
  <2> QED
    BY <2>1, <2>3
<1> QED
  BY <1>1, <1>4, <1>6, RuleDirsSteps DEF LedTo

\* Any set with RulesRoot that links do not leave has them all.
LEMMA LedToIsLeast ==
  ASSUME tree \in Tree, NEW W, RulesRoot \in W,
         \A d \in W : tree.subdirs[d] \subseteq W
  PROVE  LedTo \subseteq W
<1> DEFINE T == {n \in Nat : RuleDirs[n] \subseteq W}
<1>1. 0 \in T
  BY RuleDirsSteps
<1>2. ASSUME NEW n \in Nat, n \in T PROVE n + 1 \in T
  BY <1>2, RuleDirsSteps
<1> HIDE DEF T
<1>3. Nat \subseteq T
  BY <1>1, <1>2, SetInduction
<1>4. Cardinality(Dir) \in Nat
  BY WalkAssumption, FS_CardinalityType
<1> QED
  BY <1>3, <1>4 DEF LedTo, T

-----------------------------------------------------------------------------
(* The inductive invariant of the walk. *)

\* The references of f before the n-th are on the bill, if they are readable.
Behind(f, n) ==
  \A m \in DOMAIN tree.refs[f] :
    m < n /\ tree.refs[f][m] \in tree.readable => tree.refs[f][m] \in ChargedFiles
Whole(f) == Targets(f) \intersect tree.readable \subseteq ChargedFiles

PhaseInv ==
  /\ phase # "memory" => stack = <<>> /\ todo = <<>>
  /\ phase = "memory" => pending = {} /\ walked = {} /\ rules = {}
  /\ phase \in {"rules", "done"} => pending = {}
  /\ phase = "done" => rules = {}

\* A file is billed once; what was taken and is not on the bill cannot be read,
\* or is a scoped rule.
TakenInv ==
  /\ \A i, j \in DOMAIN charged : charged[i].file = charged[j].file => i = j
  /\ ChargedFiles \subseteq seen \intersect tree.readable
  /\ phase \in {"memory", "scan"} => seen \intersect tree.readable \subseteq ChargedFiles
  /\ (seen \intersect tree.readable) \ tree.scoped \subseteq ChargedFiles

\* A file that was followed has all its references behind it, or is still on
\* the call stack with those before `next` behind it.
FollowInv ==
  /\ \A k \in DOMAIN stack : Behind(stack[k].file, stack[k].next)
  /\ \A i \in DOMAIN charged :
       ~charged[i].leaf /\ charged[i].hop < MaxDepth =>
         \/ Whole(charged[i].file)
         \/ \E k \in DOMAIN stack :
              stack[k].file = charged[i].file /\ stack[k].hop = charged[i].hop

\* Nothing is followed or billed that the definitions do not reach.
ReachInv ==
  /\ \A j \in DOMAIN todo : \E i \in DOMAIN tree.roots : todo[j] = tree.roots[i]
  /\ \A k \in DOMAIN stack : stack[k].file \in Reach[stack[k].hop]
  /\ \A i \in DOMAIN charged :
       charged[i].file \in IF charged[i].leaf THEN LaunchRules ELSE Reach[charged[i].hop]

\* The first root is taken before anything else, so nothing can keep it off the
\* bill or put it there as a rule.
RootInv ==
  tree.roots # <<>> /\ tree.roots[1] \in tree.readable =>
    \/ phase = "memory" /\ todo = tree.roots /\ stack = <<>> /\ seen = {}
    \/ \E i \in DOMAIN charged :
         charged[i].file = tree.roots[1] /\ charged[i].hop = 0 /\ ~charged[i].leaf

\* The directories listed or pending are those .claude/rules leads to, and
\* the rules found are the files they hold.
RulesInv ==
  /\ pending \union walked \subseteq LedTo
  /\ rules \subseteq UNION {tree.holds[d] : d \in walked}
  /\ phase # "memory" => RulesRoot \in pending \union walked
  /\ \A d \in walked : tree.subdirs[d] \subseteq pending \union walked
  /\ phase = "scan" => \A d \in walked : tree.holds[d] \subseteq rules
  /\ phase \in {"rules", "done"} => LaunchRules \subseteq rules \union ChargedFiles

WalkInv ==
  /\ WalkTypeOK
  /\ PhaseInv
  /\ TakenInv
  /\ FollowInv
  /\ ReachInv
  /\ RootInv
  /\ RulesInv

-----------------------------------------------------------------------------
(* Taking a file, the part that three actions share. *)

TakeStep(f, hop, leaf) ==
  /\ tree' = tree
  /\ seen' = seen \union {f}
  /\ IF Takes(f) /\ ~(leaf /\ f \in tree.scoped)
     THEN Charge(f, hop, leaf) ELSE charged' = charged

\* A charge adds one contributor and its file.
LEMMA Charging ==
  ASSUME charged \in Seq(Contributor), NEW c \in Contributor, charged' = Append(charged, c)
  PROVE  /\ charged' \in Seq(Contributor)
         /\ DOMAIN charged' = DOMAIN charged \union {Len(charged) + 1}
         /\ \A i \in DOMAIN charged : charged'[i] = charged[i]
         /\ charged'[Len(charged) + 1] = c
         /\ ChargedFiles' = ChargedFiles \union {c.file}
<1>1. /\ charged' \in Seq(Contributor)
      /\ DOMAIN charged' = DOMAIN charged \union {Len(charged) + 1}
      /\ \A i \in DOMAIN charged : charged'[i] = charged[i]
      /\ charged'[Len(charged) + 1] = c
  OBVIOUS
<1>2. ChargedFiles' = ChargedFiles \union {c.file}
  BY <1>1 DEF ChargedFiles
<1> QED
  BY <1>1, <1>2

\* What taking a file changes on the bill.
LEMMA Taken ==
  ASSUME WalkTypeOK, TakenInv,
         NEW f \in File, NEW hop \in 0 .. MaxDepth, NEW leaf \in BOOLEAN,
         TakeStep(f, hop, leaf)
  PROVE  /\ charged' \in Seq(Contributor)
         /\ seen' \subseteq File
         /\ \A i \in DOMAIN charged : i \in DOMAIN charged' /\ charged'[i] = charged[i]
         /\ \A i \in DOMAIN charged' : i \notin DOMAIN charged =>
              /\ charged'[i] = [file |-> f, hop |-> hop, leaf |-> leaf]
              /\ Takes(f) /\ ~(leaf /\ f \in tree.scoped)
         /\ Takes(f) /\ ~(leaf /\ f \in tree.scoped) =>
              \E i \in DOMAIN charged' : charged'[i] = [file |-> f, hop |-> hop, leaf |-> leaf]
         /\ ChargedFiles \subseteq ChargedFiles'
         /\ f \in tree.readable /\ f \notin tree.scoped => f \in ChargedFiles'
         /\ f \in tree.readable /\ ~leaf /\ phase \in {"memory", "scan"} => f \in ChargedFiles'
         /\ ~leaf /\ phase' = phase => TakenInv'
         /\ phase' = "rules" => TakenInv'
<1> DEFINE c == [file |-> f, hop |-> hop, leaf |-> leaf]
<1>1. c \in Contributor
  BY DEF Contributor
<1>2. CASE Takes(f) /\ ~(leaf /\ f \in tree.scoped)
  <2>1. charged' = Append(charged, c)
    BY <1>2 DEF TakeStep, Charge
  <2>2. /\ charged' \in Seq(Contributor)
        /\ DOMAIN charged' = DOMAIN charged \union {Len(charged) + 1}
        /\ \A i \in DOMAIN charged : charged'[i] = charged[i]
        /\ charged'[Len(charged) + 1] = c
        /\ ChargedFiles' = ChargedFiles \union {c.file}
    <3> HIDE DEF c
    <3> QED
      BY <1>1, <2>1, Charging DEF WalkTypeOK
  <2>3. f \notin ChargedFiles /\ f \in tree.readable /\ c.file = f
    BY <1>2 DEF Takes, TakenInv
  <2>4. \A i, j \in DOMAIN charged' : charged'[i].file = charged'[j].file => i = j
    <3>1. \A i \in DOMAIN charged : charged[i].file \in ChargedFiles
      BY DEF ChargedFiles
    <3> HIDE DEF c
    <3> QED
      BY <2>2, <2>3, <3>1 DEF TakenInv
  <2>5. /\ ~leaf /\ phase' = phase => TakenInv'
        /\ phase' = "rules" => TakenInv'
    <3> HIDE DEF c
    <3> QED
      BY <2>2, <2>3, <2>4 DEF TakenInv, TakeStep
  <2> QED
    BY <1>2, <2>2, <2>3, <2>5 DEF TakeStep, WalkTypeOK
<1>3. CASE ~(Takes(f) /\ ~(leaf /\ f \in tree.scoped))
  <2>1. charged' = charged /\ ChargedFiles' = ChargedFiles
    BY <1>3 DEF TakeStep, ChargedFiles
  <2> QED
    BY <1>3, <2>1 DEF TakeStep, WalkTypeOK, TakenInv, Takes
<1> QED
  BY <1>2, <1>3

-----------------------------------------------------------------------------
(* Every action of the walk preserves the invariant. *)

\* On a tree that stays, so does what is reachable in it.
LEMMA TreeStands ==
  ASSUME tree' = tree
  PROVE  /\ Reach' = Reach
         /\ LaunchRules' = LaunchRules
         /\ LedTo' = LedTo
         /\ \A f : Targets(f)' = Targets(f)
<1>1. \A f : Targets(f)' = Targets(f)
  BY DEF Targets
<1>2. RuleDirs' = RuleDirs
  BY DEF RuleDirs
<1> QED
  BY <1>1, <1>2 DEF Reach, Targets, LaunchRules, LedTo

\* A stack without its top, and with that replaced, or replaced and called on.
Under(q) == SubSeq(q, 1, Len(q) - 1)

\* The stack without its innermost call.
LEMMA UnderTheTop ==
  ASSUME NEW S, NEW q \in Seq(S), q # <<>>
  PROVE  /\ Len(q) \in Nat \ {0} /\ DOMAIN q = 1 .. Len(q)
         /\ Under(q) \in Seq(S) /\ DOMAIN Under(q) = 1 .. Len(q) - 1
         /\ Len(Under(q)) = Len(q) - 1
         /\ \A k \in 1 .. Len(q) - 1 : k \in DOMAIN q /\ Under(q)[k] = q[k]
<1> DEFINE n == Len(q)
<1>1. n \in Nat \ {0} /\ DOMAIN q = 1 .. n /\ \A k \in 1 .. n : q[k] \in S
  BY EmptySeq, LenProperties, ElementOfSeq
<1>2. /\ Under(q) \in Seq(S) /\ Len(Under(q)) = n - 1
      /\ \A k \in 1 .. n - 1 : Under(q)[k] = q[k]
  <2> HIDE DEF n
  <2>1. 1 \in Int /\ n - 1 \in Int /\ \A k \in 1 .. n - 1 : q[k] \in S
    BY <1>1
  <2>2. /\ SubSeq(q, 1, n - 1) \in Seq(S)
        /\ Len(SubSeq(q, 1, n - 1)) = IF 1 <= n - 1 THEN (n - 1) - 1 + 1 ELSE 0
        /\ \A k \in 1 .. (n - 1) - 1 + 1 : SubSeq(q, 1, n - 1)[k] = q[1 + k - 1]
    BY <2>1, SubSeqProperties
  <2>3. Under(q) = SubSeq(q, 1, n - 1)
    BY DEF n, Under
  <2> QED
    BY <1>1, <2>2, <2>3
<1> HIDE DEF n
<1>3. DOMAIN Under(q) = 1 .. n - 1 /\ \A k \in 1 .. n - 1 : k \in DOMAIN q
  BY <1>1, <1>2, LenProperties
<1> QED
  BY <1>1, <1>2, <1>3 DEF n

\* The stack with its innermost call replaced, and with a call on top of
\* that.
LEMMA TopOfStack ==
  ASSUME NEW S, NEW q \in Seq(S), q # <<>>, NEW a \in S, NEW b \in S
  PROVE  /\ Len(q) \in Nat \ {0} /\ DOMAIN q = 1 .. Len(q)
         /\ \A k \in 1 .. Len(q) - 1 : k \in DOMAIN q
         /\ Append(Under(q), a) \in Seq(S) /\ DOMAIN Append(Under(q), a) = 1 .. Len(q)
         /\ \A k \in 1 .. Len(q) - 1 : Append(Under(q), a)[k] = q[k]
         /\ Append(Under(q), a)[Len(q)] = a
         /\ Under(q) \o <<a, b>> \in Seq(S) /\ DOMAIN (Under(q) \o <<a, b>>) = 1 .. Len(q) + 1
         /\ \A k \in 1 .. Len(q) - 1 : (Under(q) \o <<a, b>>)[k] = q[k]
         /\ (Under(q) \o <<a, b>>)[Len(q)] = a
         /\ (Under(q) \o <<a, b>>)[Len(q) + 1] = b
<1> DEFINE p == Under(q)
           n == Len(q)
<1>1. n \in Nat \ {0} /\ DOMAIN q = 1 .. n
  BY UnderTheTop
<1>2. /\ p \in Seq(S) /\ Len(p) = n - 1
      /\ \A k \in 1 .. n - 1 : k \in DOMAIN q /\ p[k] = q[k]
  BY UnderTheTop
<1> HIDE DEF p, n
<1>4. /\ Append(p, a) \in Seq(S) /\ DOMAIN Append(p, a) = 1 .. n
      /\ \A k \in 1 .. n - 1 : Append(p, a)[k] = q[k]
      /\ Append(p, a)[n] = a
  BY <1>1, <1>2, AppendProperties, LenProperties
<1>5. <<a, b>> \in Seq(S) /\ Len(<<a, b>>) = 2 /\ <<a, b>>[1] = a /\ <<a, b>>[2] = b
  OBVIOUS
<1>6. /\ p \o <<a, b>> \in Seq(S) /\ DOMAIN (p \o <<a, b>>) = 1 .. n + 1
      /\ \A k \in 1 .. n - 1 : (p \o <<a, b>>)[k] = q[k]
      /\ (p \o <<a, b>>)[n] = a
      /\ (p \o <<a, b>>)[n + 1] = b
  <2> DEFINE r == <<a, b>>
  <2> HIDE DEF r
  <2>1. r \in Seq(S) /\ Len(r) = 2 /\ r[1] = a /\ r[2] = b
    BY <1>5 DEF r
  <2>2. /\ p \o r \in Seq(S) /\ Len(p \o r) = n + 1
        /\ \A k \in 1 .. n + 1 : (p \o r)[k] = IF k <= n - 1 THEN p[k] ELSE r[k - (n - 1)]
    <3>1. /\ p \o r \in Seq(S) /\ Len(p \o r) = Len(p) + Len(r)
          /\ \A k \in 1 .. Len(p) + Len(r) : (p \o r)[k] = IF k <= Len(p) THEN p[k] ELSE r[k - Len(p)]
      BY <1>2, <2>1, ConcatProperties
    <3>2. Len(p) = n - 1 /\ Len(p) + Len(r) = n + 1
      BY <1>1, <1>2, <2>1
    <3> QED
      BY <3>1, <3>2
  <2>3. DOMAIN (p \o r) = 1 .. n + 1
    BY <2>2, LenProperties
  <2>4. /\ \A k \in 1 .. n - 1 : k \in 1 .. n + 1 /\ k <= n - 1
        /\ n \in 1 .. n + 1 /\ ~(n <= n - 1) /\ n - (n - 1) = 1
        /\ n + 1 \in 1 .. n + 1 /\ ~(n + 1 <= n - 1) /\ (n + 1) - (n - 1) = 2
    BY <1>1
  <2>5. (p \o r)[n] = a /\ (p \o r)[n + 1] = b /\ \A k \in 1 .. n - 1 : (p \o r)[k] = q[k]
    BY <1>2, <2>1, <2>2, <2>4
  <2> QED
    BY <2>2, <2>3, <2>5 DEF r
<1> QED
  BY <1>1, <1>2, <1>4, <1>6 DEF p, n

\* Taking up a root file keeps the invariant.
LEMMA RootFileKeeps ==
  ASSUME WalkInv, RootFile
  PROVE  WalkInv'
<1> DEFINE f == Head(todo)
<1>1. /\ phase = "memory" /\ stack = <<>> /\ todo # <<>>
      /\ todo' = Tail(todo) /\ seen' = seen \union {f}
      /\ tree' = tree /\ phase' = phase /\ pending' = pending
      /\ walked' = walked /\ rules' = rules
      /\ IF Takes(f) THEN Charge(f, 0, FALSE) /\ stack' = <<Call(f, 0)>>
         ELSE charged' = charged /\ stack' = stack
  BY DEF RootFile
<1>2. /\ f \in File /\ f = todo[1] /\ todo' \in Seq(File) /\ 1 \in DOMAIN todo
      /\ \A j \in DOMAIN todo' : j + 1 \in DOMAIN todo /\ todo'[j] = todo[j + 1]
  BY <1>1 DEF WalkInv, WalkTypeOK
<1>3. TakeStep(f, 0, FALSE) /\ 0 \in 0 .. MaxDepth /\ tree \in Tree
  <2>1. TakeStep(f, 0, FALSE)
    BY <1>1 DEF TakeStep
  <2>2. 0 \in 0 .. MaxDepth
    BY WalkAssumption
  <2> QED
    BY <2>1, <2>2 DEF WalkInv, WalkTypeOK
<1> HIDE DEF f
<1> DEFINE c == [file |-> f, hop |-> 0, leaf |-> FALSE]
<1>4. /\ charged' \in Seq(Contributor)
      /\ seen' \subseteq File
      /\ \A i \in DOMAIN charged : i \in DOMAIN charged' /\ charged'[i] = charged[i]
      /\ \A i \in DOMAIN charged' : i \notin DOMAIN charged => charged'[i] = c /\ Takes(f)
      /\ Takes(f) => \E i \in DOMAIN charged' : charged'[i] = c
      /\ ChargedFiles \subseteq ChargedFiles'
      /\ TakenInv'
  BY <1>1, <1>2, <1>3, Taken DEF WalkInv
<1>5. /\ Takes(f) => stack' = <<Call(f, 0)>>
      /\ ~Takes(f) => stack' = <<>>
      /\ Call(f, 0).file = f /\ Call(f, 0).next = 1 /\ Call(f, 0).hop = 0
      /\ Call(f, 0) \in Frame
  <2>1. Call(f, 0) \in Frame
    BY <1>2, <1>3 DEF Call, Frame
  <2> QED
    BY <1>1, <2>1 DEF Call
<1>6. stack' \in Seq(Frame)
  <2> DEFINE fr == Call(f, 0)
  <2> HIDE DEF fr
  <2>1. fr \in Frame /\ (stack' = <<fr>> \/ stack' = <<>>)
    BY <1>5 DEF fr
  <2>2. <<fr>> \in Seq(Frame)
    BY <2>1
  <2>3. <<>> \in Seq(Frame)
    OBVIOUS
  <2> HIDE DEF Frame
  <2> QED
    BY <2>1, <2>2, <2>3
<1>7. WalkTypeOK'
  BY <1>1, <1>2, <1>4, <1>6 DEF WalkInv, WalkTypeOK
<1>8. PhaseInv'
  BY <1>1 DEF WalkInv, PhaseInv
<1>9. FollowInv'
  <2>1. ASSUME NEW k \in DOMAIN stack' PROVE Behind(stack[k].file, stack[k].next)'
    <3>1. Takes(f) /\ k = 1 /\ stack'[k] = Call(f, 0)
      BY <1>5, <2>1
    <3> QED
      BY <1>1, <1>2, <1>3, <1>5, <3>1 DEF Behind, Tree
  <2>2. ASSUME NEW i \in DOMAIN charged', ~charged'[i].leaf, charged'[i].hop < MaxDepth
        PROVE  \/ Whole(charged[i].file)'
               \/ \E k \in DOMAIN stack' :
                    stack'[k].file = charged'[i].file /\ stack'[k].hop = charged'[i].hop
    <3>1. CASE i \in DOMAIN charged
      <4>1. Whole(charged[i].file)
        BY <1>1, <1>4, <2>2, <3>1 DEF WalkInv, FollowInv
      <4> QED
        BY <1>1, <1>4, <3>1, <4>1, TreeStands DEF Whole
    <3>2. CASE i \notin DOMAIN charged
      <4>1. charged'[i] = c /\ Takes(f)
        BY <1>4, <3>2
      <4>2. 1 \in DOMAIN stack' /\ stack'[1] = Call(f, 0)
        BY <1>5, <4>1
      <4> QED
        BY <1>5, <4>1, <4>2
    <3> QED
      BY <3>1, <3>2
  <2> QED
    BY <2>1, <2>2 DEF FollowInv
<1>10. ReachInv'
  <2>1. \A j \in DOMAIN todo' : \E i \in DOMAIN tree.roots : todo'[j] = tree.roots[i]
    BY <1>2 DEF WalkInv, ReachInv
  <2>2. Takes(f) => f \in Reach[0]
    BY <1>2, <1>3, ReachSteps DEF Takes, WalkInv, ReachInv
  <2>3. \A k \in DOMAIN stack' : stack'[k].file \in Reach[stack'[k].hop]
    BY <1>5, <2>2
  <2>4. \A i \in DOMAIN charged' :
          charged'[i].file \in IF charged'[i].leaf THEN LaunchRules ELSE Reach[charged'[i].hop]
    BY <1>4, <2>2 DEF WalkInv, ReachInv
  <2> QED
    BY <1>1, <2>1, <2>3, <2>4, TreeStands DEF ReachInv
<1>11. RootInv'
  <2> SUFFICES ASSUME tree.roots # <<>>, tree.roots[1] \in tree.readable
               PROVE  \E i \in DOMAIN charged' :
                        charged'[i].file = tree.roots[1] /\ charged'[i].hop = 0 /\ ~charged'[i].leaf
    BY <1>1 DEF RootInv
  <2>1. CASE todo = tree.roots /\ seen = {}
    BY <1>2, <1>4, <2>1 DEF Takes
  <2>2. CASE \E i \in DOMAIN charged :
               charged[i].file = tree.roots[1] /\ charged[i].hop = 0 /\ ~charged[i].leaf
    BY <1>4, <2>2
  <2> QED
    BY <2>1, <2>2 DEF WalkInv, RootInv
<1>12. RulesInv'
  BY <1>1, TreeStands DEF WalkInv, RulesInv, PhaseInv
<1> QED
  BY <1>4, <1>7, <1>8, <1>9, <1>10, <1>11, <1>12 DEF WalkInv

\* Following a reference keeps it, whether the file is taken or was seen.
LEMMA FollowKeeps ==
  ASSUME WalkInv, Follow
  PROVE  WalkInv'
<1> DEFINE n == Len(stack)
           f == tree.refs[Top.file][Top.next]
           caller == [Top EXCEPT !.next = @ + 1]
           callee == Call(f, Top.hop + 1)
<1>1. /\ stack # <<>> /\ ~Exhausted(Top)
      /\ seen' = seen \union {f}
      /\ tree' = tree /\ phase' = phase /\ pending' = pending
      /\ walked' = walked /\ rules' = rules /\ todo' = todo
      /\ IF Takes(f) THEN Charge(f, Top.hop + 1, FALSE) /\ stack' = Below \o <<caller, callee>>
         ELSE charged' = charged /\ stack' = Append(Below, caller)
  BY DEF Follow
<1>2. stack \in Seq(Frame) /\ n \in DOMAIN stack /\ Top \in Frame /\ tree \in Tree
      /\ Top = stack[n]
  <2>1. stack \in Seq(Frame) /\ tree \in Tree
    BY DEF WalkInv, WalkTypeOK
  <2>2. n \in DOMAIN stack /\ stack[n] \in Frame
    <3>1. stack # <<>>
      BY <1>1
    <3>2. Len(stack) \in 1 .. Len(stack) /\ DOMAIN stack = 1 .. Len(stack)
      BY ONLY <2>1, <3>1, LenProperties, EmptySeq
    <3> QED
      BY ONLY <2>1, <3>2, ElementOfSeq DEF n
  <2> QED
    BY <2>1, <2>2 DEF Top
<1>3. /\ Top.file \in File /\ Top.next \in DOMAIN tree.refs[Top.file]
      /\ Top.hop \in 0 .. MaxDepth /\ Top.hop + 1 \in 0 .. MaxDepth /\ Top.hop \in Nat
      /\ Top.next \in Nat \ {0}
      /\ tree.refs[Top.file] \in Seq(File) /\ f \in File
  <2>1. /\ Top.file \in File /\ Top.next \in Nat \ {0} /\ Top.hop \in 0 .. MaxDepth
        /\ ~(Top.hop >= MaxDepth) /\ ~(Top.next > Len(tree.refs[Top.file]))
    BY <1>1, <1>2 DEF Exhausted, Frame
  <2>2. tree.refs[Top.file] \in Seq(File)
    BY <1>2, <2>1 DEF Tree
  <2>3. Top.hop + 1 \in 0 .. MaxDepth /\ Top.hop \in Nat
    BY <2>1, WalkAssumption
  <2> DEFINE refs == tree.refs[Top.file]
  <2> HIDE DEF refs
  <2>4. refs \in Seq(File) /\ Top.next \in DOMAIN refs /\ refs[Top.next] \in File
    <3>1. refs \in Seq(File) /\ ~(Top.next > Len(refs)) /\ Top.next \in Nat \ {0}
      BY <2>1, <2>2 DEF refs
    <3> QED
      BY <3>1
  <2> QED
    BY <2>1, <2>3, <2>4 DEF refs
<1>4. TakeStep(f, Top.hop + 1, FALSE) /\ phase = "memory"
  BY <1>1 DEF TakeStep, WalkInv, PhaseInv
<1>5. /\ caller \in Frame /\ caller.file = Top.file /\ caller.hop = Top.hop
      /\ caller.next = Top.next + 1
      /\ callee \in Frame /\ callee.file = f /\ callee.hop = Top.hop + 1 /\ callee.next = 1
  <2>1. callee \in Frame /\ callee.file = f /\ callee.hop = Top.hop + 1 /\ callee.next = 1
    <3> HIDE DEF f
    <3> QED
      BY <1>3 DEF Frame, Call
  <2>2. Top.next + 1 \in Nat \ {0}
    BY <1>3
  <2>3. /\ caller \in Frame /\ caller.file = Top.file /\ caller.hop = Top.hop
        /\ caller.next = Top.next + 1
    BY <1>2, <2>2 DEF Frame
  <2> QED
    BY <2>1, <2>3
<1> DEFINE hop == Top.hop + 1
           c == [file |-> f, hop |-> hop, leaf |-> FALSE]
<1> HIDE DEF f, caller, callee
<1>6. /\ charged' \in Seq(Contributor)
      /\ seen' \subseteq File
      /\ \A i \in DOMAIN charged : i \in DOMAIN charged' /\ charged'[i] = charged[i]
      /\ \A i \in DOMAIN charged' : i \notin DOMAIN charged => charged'[i] = c /\ Takes(f)
      /\ ChargedFiles \subseteq ChargedFiles'
      /\ f \in tree.readable => f \in ChargedFiles'
      /\ TakenInv'
  BY <1>1, <1>3, <1>4, Taken DEF WalkInv
<1>7. /\ stack' \in Seq(Frame)
      /\ DOMAIN stack' = IF Takes(f) THEN 1 .. n + 1 ELSE 1 .. n
      /\ \A k \in 1 .. n - 1 : k \in DOMAIN stack /\ stack'[k] = stack[k]
      /\ stack'[n] = caller
      /\ Takes(f) => stack'[n + 1] = callee
      /\ n \in Nat \ {0} /\ DOMAIN stack = 1 .. n
  <2>1. Below = Under(stack)
    BY DEF Below, Under
  <2> DEFINE Tops(q) ==
        /\ n \in Nat \ {0} /\ DOMAIN stack = 1 .. n
        /\ \A k \in 1 .. n - 1 : k \in DOMAIN stack
        /\ Append(q, caller) \in Seq(Frame) /\ DOMAIN Append(q, caller) = 1 .. n
        /\ \A k \in 1 .. n - 1 : Append(q, caller)[k] = stack[k]
        /\ Append(q, caller)[n] = caller
        /\ q \o <<caller, callee>> \in Seq(Frame)
        /\ DOMAIN (q \o <<caller, callee>>) = 1 .. n + 1
        /\ \A k \in 1 .. n - 1 : (q \o <<caller, callee>>)[k] = stack[k]
        /\ (q \o <<caller, callee>>)[n] = caller
        /\ (q \o <<caller, callee>>)[n + 1] = callee
  <2>2. Tops(Below)
    <3>1. stack \in Seq(Frame) /\ stack # <<>> /\ caller \in Frame /\ callee \in Frame
      BY <1>1, <1>2, <1>5
    <3>2. Tops(Under(stack))
      BY <3>1, TopOfStack
    <3> HIDE DEF Tops
    <3> QED
      BY <2>1, <3>2
  <2>3. CASE Takes(f)
    BY <1>1, <2>2, <2>3
  <2>4. CASE ~Takes(f)
    BY <1>1, <2>2, <2>4
  <2> QED
    BY <2>3, <2>4
<1> HIDE DEF n
<1>8. WalkTypeOK'
  BY <1>1, <1>6, <1>7 DEF WalkInv, WalkTypeOK
<1>9. PhaseInv'
  BY <1>1, <1>4 DEF WalkInv, PhaseInv
<1>10. ASSUME NEW k \in DOMAIN stack
       PROVE  \/ k \in 1 .. n - 1 /\ k \in DOMAIN stack' /\ stack'[k] = stack[k]
              \/ k = n /\ k \in DOMAIN stack' /\ stack'[k] = caller
  BY <1>7, <1>10
<1>11. FollowInv'
  <2>1. ASSUME NEW k \in DOMAIN stack' PROVE Behind(stack[k].file, stack[k].next)'
    <3>1. CASE k \in 1 .. n - 1
      <4>1. Behind(stack[k].file, stack[k].next) /\ stack'[k] = stack[k]
        BY <1>7, <3>1 DEF WalkInv, FollowInv
      <4> QED
        BY <1>1, <1>6, <4>1 DEF Behind
    <3>2. CASE k = n
      <4>1. Behind(Top.file, Top.next)
        BY <1>2 DEF WalkInv, FollowInv
      <4>2. stack'[k].file = Top.file /\ stack'[k].next = Top.next + 1
        BY <1>5, <1>7, <3>2
      <4>3. ASSUME NEW m \in DOMAIN tree.refs[Top.file], m < Top.next + 1,
                   tree.refs[Top.file][m] \in tree.readable
            PROVE  tree.refs[Top.file][m] \in ChargedFiles'
        <5>1. m \in Nat /\ (m < Top.next \/ m = Top.next)
          BY <1>3, <4>3
        <5>2. CASE m = Top.next
          BY <1>6, <4>3, <5>2 DEF f
        <5>3. CASE m < Top.next
          BY <1>6, <4>1, <4>3, <5>3 DEF Behind
        <5> QED
          BY <5>1, <5>2, <5>3
      <4> QED
        BY <1>1, <4>2, <4>3 DEF Behind
    <3>3. CASE k = n + 1 /\ Takes(f)
      <4>1. stack'[k].next = 1 /\ stack'[k].file = f
        BY <1>5, <1>7, <3>3
      <4>2. \A m \in DOMAIN tree.refs[f] : ~(m < 1)
        BY <1>2, <1>3 DEF Tree
      <4> QED
        BY <1>1, <4>1, <4>2 DEF Behind
    <3> QED
      BY <1>7, <3>1, <3>2, <3>3
  <2>2. ASSUME NEW i \in DOMAIN charged', ~charged'[i].leaf, charged'[i].hop < MaxDepth
        PROVE  \/ Whole(charged[i].file)'
               \/ \E k \in DOMAIN stack' :
                    stack'[k].file = charged'[i].file /\ stack'[k].hop = charged'[i].hop
    <3>1. CASE i \in DOMAIN charged /\ Whole(charged[i].file)
      BY <1>1, <1>6, <3>1, TreeStands DEF Whole
    <3>2. CASE i \in DOMAIN charged /\ ~Whole(charged[i].file)
      <4>1. charged'[i] = charged[i]
        BY <1>6, <3>2
      <4>2. PICK k \in DOMAIN stack :
              stack[k].file = charged[i].file /\ stack[k].hop = charged[i].hop
        BY <2>2, <3>2, <4>1 DEF WalkInv, FollowInv
      <4>3. k \in DOMAIN stack' /\ stack'[k].file = stack[k].file /\ stack'[k].hop = stack[k].hop
        BY <1>2, <1>5, <1>10
      <4> QED
        BY <4>1, <4>2, <4>3
    <3>3. CASE i \notin DOMAIN charged
      <4>1. charged'[i] = c /\ Takes(f)
        BY <1>6, <3>3
      <4>2. n + 1 \in DOMAIN stack' /\ stack'[n + 1] = callee
        BY <1>7, <4>1
      <4> QED
        BY <1>5, <4>1, <4>2
    <3> QED
      BY <3>1, <3>2, <3>3
  <2> QED
    BY <2>1, <2>2 DEF FollowInv
<1>12. ReachInv'
  <2>1. Top.file \in Reach[Top.hop]
    BY <1>2 DEF WalkInv, ReachInv
  <2>2. Takes(f) => f \in Reach[hop]
    <3>1. f \in Targets(Top.file)
      BY <1>3 DEF Targets, f
    <3> QED
      BY <1>2, <1>3, <2>1, <3>1, ReachSteps DEF Takes
  <2>3. ASSUME NEW k \in DOMAIN stack' PROVE stack'[k].file \in Reach[stack'[k].hop]
    <3>1. CASE k \in 1 .. n - 1
      BY <1>7, <3>1 DEF WalkInv, ReachInv
    <3>2. CASE k = n
      BY <1>5, <1>7, <2>1, <3>2
    <3>3. CASE k = n + 1 /\ Takes(f)
      BY <1>5, <1>7, <2>2, <3>3
    <3> QED
      BY <1>7, <3>1, <3>2, <3>3
  <2>4. \A i \in DOMAIN charged' :
          charged'[i].file \in IF charged'[i].leaf THEN LaunchRules ELSE Reach[charged'[i].hop]
    BY <1>6, <2>2 DEF WalkInv, ReachInv
  <2>5. \A j \in DOMAIN todo' : \E i \in DOMAIN tree.roots : todo'[j] = tree.roots[i]
    BY <1>1 DEF WalkInv, ReachInv
  <2> QED
    BY <1>1, <2>3, <2>4, <2>5, TreeStands DEF ReachInv
<1>13. RootInv'
  <2> SUFFICES ASSUME tree.roots # <<>>, tree.roots[1] \in tree.readable
               PROVE  \E i \in DOMAIN charged' :
                        charged'[i].file = tree.roots[1] /\ charged'[i].hop = 0 /\ ~charged'[i].leaf
    BY <1>1 DEF RootInv
  <2> QED
    BY <1>1, <1>6 DEF WalkInv, RootInv
<1>14. RulesInv'
  BY <1>1, <1>4, TreeStands DEF WalkInv, RulesInv, PhaseInv
<1> QED
  BY <1>6, <1>8, <1>9, <1>11, <1>12, <1>13, <1>14 DEF WalkInv

\* A return keeps it: every reference of the file has been looked at.
LEMMA ReturnKeeps ==
  ASSUME WalkInv, Return
  PROVE  WalkInv'
<1> DEFINE n == Len(stack)
<1>1. /\ stack # <<>> /\ Exhausted(Top) /\ stack' = Below
      /\ tree' = tree /\ phase' = phase /\ todo' = todo /\ seen' = seen /\ charged' = charged
      /\ pending' = pending /\ walked' = walked /\ rules' = rules
  BY DEF Return
<1>2. stack \in Seq(Frame) /\ Top = stack[n] /\ tree \in Tree
  BY DEF WalkInv, WalkTypeOK, Top
<1>3. /\ stack' \in Seq(Frame) /\ DOMAIN stack' = 1 .. n - 1
      /\ \A k \in 1 .. n - 1 : k \in DOMAIN stack /\ stack'[k] = stack[k]
      /\ n \in Nat \ {0} /\ DOMAIN stack = 1 .. n
  <2>1. stack' = Under(stack)
    BY <1>1 DEF Below, Under
  <2> DEFINE Tops(q) ==
        /\ q \in Seq(Frame) /\ DOMAIN q = 1 .. n - 1
        /\ \A k \in 1 .. n - 1 : k \in DOMAIN stack /\ q[k] = stack[k]
        /\ n \in Nat \ {0} /\ DOMAIN stack = 1 .. n
  <2>2. Tops(Under(stack))
    BY <1>1, <1>2, UnderTheTop
  <2>3. Tops(stack')
    <3> HIDE DEF Tops
    <3> QED
      BY <2>1, <2>2
  <2> QED
    BY <2>3
<1>4. ChargedFiles' = ChargedFiles /\ phase = "memory" /\ phase' = "memory"
  BY <1>1 DEF ChargedFiles, WalkInv, PhaseInv
<1>5. n \in DOMAIN stack /\ Top \in Frame
  BY <1>2, <1>3
<1> HIDE DEF n
<1>6. WalkTypeOK' /\ PhaseInv' /\ TakenInv'
  BY <1>1, <1>3, <1>4 DEF WalkInv, WalkTypeOK, PhaseInv, TakenInv
<1>7. FollowInv'
  <2>1. ASSUME NEW k \in DOMAIN stack' PROVE Behind(stack[k].file, stack[k].next)'
    <3>1. Behind(stack[k].file, stack[k].next) /\ stack'[k] = stack[k]
      BY <1>3 DEF WalkInv, FollowInv
    <3> QED
      BY <1>1, <1>4, <3>1 DEF Behind
  <2>2. ASSUME NEW i \in DOMAIN charged, ~charged[i].leaf, charged[i].hop < MaxDepth
        PROVE  \/ Whole(charged[i].file)
               \/ \E k \in DOMAIN stack' :
                    stack'[k].file = charged[i].file /\ stack'[k].hop = charged[i].hop
    <3> SUFFICES ASSUME NEW k \in DOMAIN stack,
                        stack[k].file = charged[i].file, stack[k].hop = charged[i].hop
                 PROVE  \/ Whole(charged[i].file)
                        \/ \E l \in DOMAIN stack' :
                             stack'[l].file = charged[i].file /\ stack'[l].hop = charged[i].hop
      BY <2>2 DEF WalkInv, FollowInv
    <3>1. CASE k \in 1 .. n - 1
      BY <1>3, <3>1
    <3>2. CASE k = n
      <4>1. Top.file = charged[i].file /\ Top.hop = charged[i].hop /\ Behind(Top.file, Top.next)
        BY <1>2, <1>5, <3>2 DEF WalkInv, FollowInv
      <4>2. /\ Top.file \in File /\ Top.hop \in 0 .. MaxDepth /\ Top.next \in Nat
            /\ tree.refs[Top.file] \in Seq(File)
        BY <1>2, <1>5 DEF Frame, Tree
      <4>3. Top.next > Len(tree.refs[Top.file])
        BY <1>1, <2>2, <4>1, <4>2, WalkAssumption DEF Exhausted
      <4>4. \A m \in DOMAIN tree.refs[Top.file] : m < Top.next
        <5> DEFINE refs == tree.refs[Top.file]
        <5> HIDE DEF refs
        <5>1. refs \in Seq(File) /\ Top.next > Len(refs) /\ Top.next \in Nat
          BY <4>2, <4>3 DEF refs
        <5>2. \A m \in DOMAIN refs : m < Top.next
          BY <5>1
        <5> QED
          BY <5>2 DEF refs
      <4>5. Whole(Top.file)
        BY <4>1, <4>4 DEF Behind, Whole, Targets
      <4> QED
        BY <4>1, <4>5
    <3> QED
      BY <1>3, <3>1, <3>2
  <2>3. \A f : Whole(f)' = Whole(f)
    BY <1>1, <1>4, TreeStands DEF Whole
  <2> QED
    BY <1>1, <2>1, <2>2, <2>3 DEF FollowInv
<1>8. ReachInv'
  BY <1>1, <1>3, TreeStands DEF WalkInv, ReachInv
<1>9. RootInv'
  BY <1>1 DEF WalkInv, RootInv
<1>10. RulesInv'
  BY <1>1, <1>4, TreeStands DEF WalkInv, RulesInv
<1> QED
  BY <1>6, <1>7, <1>8, <1>9, <1>10 DEF WalkInv

\* The walk of the rule directories keeps it.
LEMMA ScanKeeps ==
  ASSUME WalkInv, ScanRules \/ ListDir \/ ScanEnds \/ WalkEnds
  PROVE  WalkInv'
<1>1. /\ tree' = tree /\ todo' = todo /\ stack' = stack /\ seen' = seen /\ charged' = charged
      /\ stack = <<>> /\ todo = <<>>
      /\ phase' # "memory"
      /\ phase' = "scan" => phase \in {"memory", "scan"}
  BY DEF ScanRules, ListDir, ScanEnds, WalkEnds, WalkInv, PhaseInv
<1>2. ChargedFiles' = ChargedFiles /\ \A f : Whole(f)' = Whole(f)
  BY <1>1, TreeStands DEF ChargedFiles, Whole
<1>3. tree \in Tree
  BY DEF WalkInv, WalkTypeOK
<1>4. WalkTypeOK'
  <2>1. ASSUME NEW d \in Dir PROVE tree.subdirs[d] \subseteq Dir /\ tree.holds[d] \subseteq File
    BY <1>3 DEF Tree
  <2>2. CASE ListDir
    BY <1>1, <2>1, <2>2 DEF ListDir, WalkInv, WalkTypeOK
  <2>3. CASE ScanRules
    BY <1>1, <2>3, WalkAssumption DEF ScanRules, WalkInv, WalkTypeOK, Phases
  <2>4. CASE ScanEnds \/ WalkEnds
    BY <1>1, <2>4 DEF ScanEnds, WalkEnds, WalkInv, WalkTypeOK, Phases
  <2> QED
    BY <2>2, <2>3, <2>4
<1>5. PhaseInv'
  BY <1>1 DEF ScanRules, ListDir, ScanEnds, WalkEnds, WalkInv, PhaseInv
<1>6. TakenInv'
  BY <1>1, <1>2 DEF WalkInv, TakenInv
<1>7. FollowInv'
  BY <1>1, <1>2 DEF WalkInv, FollowInv
<1>8. ReachInv'
  BY <1>1, TreeStands DEF WalkInv, ReachInv
<1>9. RootInv'
  BY <1>1 DEF WalkInv, RootInv
<1>10. RulesInv'
  <2>1. CASE ScanRules
    <3>1. /\ phase' = "scan" /\ pending' = {RulesRoot} /\ walked' = {} /\ rules' = {}
      BY <2>1 DEF ScanRules, WalkInv, PhaseInv
    <3> QED
      BY <1>1, <1>3, <3>1, LedToIsClosed, TreeStands DEF RulesInv
  <2>2. CASE ListDir
    <3>1. PICK d \in pending :
            /\ walked' = walked \union {d}
            /\ IF WasListed(d)
               THEN pending' = pending \ {d} /\ rules' = rules
               ELSE /\ pending' = (pending \ {d}) \union tree.subdirs[d]
                    /\ rules' = rules \union tree.holds[d]
      BY <2>2 DEF ListDir
    <3>2. phase = "scan" /\ phase' = "scan"
      BY <2>2 DEF ListDir
    <3>3. d \in LedTo /\ tree.subdirs[d] \subseteq LedTo
      BY <1>3, LedToIsClosed DEF WalkInv, RulesInv
    <3>4. CASE d \in walked
      <4>1. pending' \union walked' = pending \union walked /\ walked' = walked /\ rules' = rules
        BY <3>1, <3>4 DEF WasListed
      <4> QED
        BY <1>1, <3>2, <4>1, TreeStands DEF WalkInv, RulesInv
    <3>5. CASE d \notin walked
      <4>1. /\ pending' \union walked' = (pending \union walked) \union tree.subdirs[d]
            /\ walked' = walked \union {d}
            /\ rules' = rules \union tree.holds[d]
        BY <3>1, <3>5 DEF WasListed
      <4> QED
        BY <1>1, <3>2, <3>3, <4>1, TreeStands DEF WalkInv, RulesInv
    <3> QED
      BY <3>4, <3>5
  <2>3. CASE ScanEnds
    <3>1. /\ phase = "scan" /\ phase' = "rules" /\ pending = {} /\ pending' = {}
          /\ walked' = walked /\ rules' = rules
      BY <2>3 DEF ScanEnds
    <3>2. LedTo \subseteq walked
      BY <1>3, <3>1, LedToIsLeast DEF WalkInv, RulesInv
    <3>3. LaunchRules \subseteq rules
      BY <3>1, <3>2 DEF LaunchRules, LedTo, WalkInv, RulesInv
    <3> QED
      BY <1>1, <1>2, <3>1, <3>3, TreeStands DEF WalkInv, RulesInv
  <2>4. CASE WalkEnds
    BY <1>1, <1>2, <2>4, TreeStands DEF WalkEnds, WalkInv, RulesInv
  <2> QED
    BY <2>1, <2>2, <2>3, <2>4
<1> QED
  BY <1>4, <1>5, <1>6, <1>7, <1>8, <1>9, <1>10 DEF WalkInv

\* Charging a rule keeps it: the rule loads at launch and was not billed.
LEMMA ChargeRuleKeeps ==
  ASSUME WalkInv, ChargeRule
  PROVE  WalkInv'
<1>1. PICK f \in rules :
        /\ rules' = rules \ {f}
        /\ seen' = seen \union {f}
        /\ IF Takes(f) /\ f \notin tree.scoped
           THEN Charge(f, 0, TRUE) ELSE charged' = charged
  BY DEF ChargeRule
<1>2. /\ phase = "rules" /\ phase' = "rules" /\ tree' = tree /\ todo' = todo /\ stack' = stack
      /\ pending' = pending /\ walked' = walked
      /\ stack = <<>> /\ todo = <<>> /\ tree \in Tree
      /\ f \in File
  BY DEF ChargeRule, WalkInv, PhaseInv, WalkTypeOK
<1>3. TakeStep(f, 0, TRUE)
  BY <1>1, <1>2 DEF TakeStep
<1>4. 0 \in 0 .. MaxDepth
  BY WalkAssumption
<1> DEFINE c == [file |-> f, hop |-> 0, leaf |-> TRUE]
<1>5. /\ charged' \in Seq(Contributor)
      /\ seen' \subseteq File
      /\ \A i \in DOMAIN charged : i \in DOMAIN charged' /\ charged'[i] = charged[i]
      /\ \A i \in DOMAIN charged' : i \notin DOMAIN charged =>
           charged'[i] = c /\ Takes(f) /\ f \notin tree.scoped
      /\ ChargedFiles \subseteq ChargedFiles'
      /\ f \in tree.readable /\ f \notin tree.scoped => f \in ChargedFiles'
      /\ TakenInv'
  BY <1>2, <1>3, <1>4, Taken DEF WalkInv
<1>6. WalkTypeOK'
  BY <1>1, <1>2, <1>5 DEF WalkInv, WalkTypeOK
<1>7. PhaseInv'
  BY <1>2 DEF WalkInv, PhaseInv
<1>8. FollowInv'
  <2>1. ASSUME NEW i \in DOMAIN charged', ~charged'[i].leaf, charged'[i].hop < MaxDepth
        PROVE  Whole(charged[i].file)'
    <3>1. i \in DOMAIN charged /\ charged'[i] = charged[i]
      BY <1>5, <2>1
    <3>2. Whole(charged[i].file)
      BY <1>2, <2>1, <3>1 DEF WalkInv, FollowInv
    <3> QED
      BY <1>2, <1>5, <3>1, <3>2, TreeStands DEF Whole
  <2> QED
    BY <1>2, <2>1 DEF FollowInv
<1>9. ReachInv'
  <2>1. Takes(f) /\ f \notin tree.scoped => f \in LaunchRules
    BY DEF Takes, LaunchRules, WalkInv, RulesInv, LedTo
  <2>2. \A i \in DOMAIN charged' :
          charged'[i].file \in IF charged'[i].leaf THEN LaunchRules ELSE Reach[charged'[i].hop]
    BY <1>5, <2>1 DEF WalkInv, ReachInv
  <2> QED
    BY <1>2, <2>2, TreeStands DEF ReachInv
<1>10. RootInv'
  BY <1>2, <1>5 DEF WalkInv, RootInv
<1>11. RulesInv'
  <2>1. LaunchRules \subseteq rules \union ChargedFiles
    BY <1>2 DEF WalkInv, RulesInv
  <2>2. f \in LaunchRules => f \in tree.readable /\ f \notin tree.scoped
    BY DEF LaunchRules
  <2>3. LaunchRules \subseteq rules' \union ChargedFiles'
    BY <1>1, <1>5, <2>1, <2>2
  <2> QED
    BY <1>1, <1>2, <2>3, TreeStands DEF WalkInv, RulesInv
<1> QED
  BY <1>5, <1>6, <1>7, <1>8, <1>9, <1>10, <1>11 DEF WalkInv

\* Every step of the walk keeps the invariant.
LEMMA WalkStep ==
  ASSUME WalkInv, WalkNext
  PROVE  WalkInv'
  BY RootFileKeeps, FollowKeeps, ReturnKeeps, ScanKeeps, ChargeRuleKeeps DEF WalkNext

-----------------------------------------------------------------------------
(* What the invariant of the walk says when `collect` returns. *)

\* The invariant says that what was followed is whole and the bill exact.
LEMMA WalkInvSays ==
  ASSUME WalkInv
  PROVE  FollowedWhole /\ BillIsExact
<1>1. FollowedWhole
  BY DEF WalkInv, FollowInv, PhaseInv, FollowedWhole, Whole
<1>2. ChargedFiles \subseteq Reach[MaxDepth] \union LaunchRules
  <2> SUFFICES ASSUME NEW i \in DOMAIN charged
               PROVE  charged[i].file \in Reach[MaxDepth] \union LaunchRules
    BY DEF ChargedFiles
  <2>1. charged[i].hop \in Nat /\ charged[i].hop <= MaxDepth /\ tree \in Tree
    <3>1. charged[i] \in Contributor
      BY DEF WalkInv, WalkTypeOK
    <3> QED
      BY <3>1, WalkAssumption DEF Contributor, WalkInv, WalkTypeOK
  <2> QED
    BY <2>1, ReachGrows DEF WalkInv, ReachInv
<1>3. phase = "done" => LaunchRules \subseteq ChargedFiles
  BY DEF WalkInv, PhaseInv, RulesInv
<1> QED
  BY <1>1, <1>2, <1>3 DEF BillIsExact, WalkInv, TakenInv

\* The bytes a session certainly loads are all on the bill.
LEMMA CoreIsBilled ==
  ASSUME WalkInv, phase = "done"
  PROVE  LaunchCore \union LaunchRules \subseteq ChargedFiles
<1>1. LaunchRules \subseteq ChargedFiles
  BY DEF WalkInv, PhaseInv, RulesInv
<1>2. ASSUME tree.roots # <<>>, tree.roots[1] \in tree.readable
      PROVE  tree.roots[1] \in ChargedFiles /\ Whole(tree.roots[1])
  <2>1. PICK i \in DOMAIN charged :
          charged[i].file = tree.roots[1] /\ charged[i].hop = 0 /\ ~charged[i].leaf
    BY <1>2 DEF WalkInv, RootInv
  <2>2. Whole(charged[i].file)
    BY <2>1, WalkAssumption DEF WalkInv, FollowInv, PhaseInv
  <2> QED
    BY <2>1, <2>2 DEF ChargedFiles
<1> QED
  BY <1>1, <1>2 DEF LaunchCore, Whole

\* The sum over any of the files billed is within the total: no file is billed
\* twice, and their weights are what the total adds up.
LEMMA TotalCovers ==
  ASSUME WalkInv, NEW A \in SUBSET ChargedFiles
  PROVE  /\ MapThenSumSet(LAMBDA f : Size[f], A) \in Nat
         /\ Total \in Nat
         /\ MapThenSumSet(LAMBDA f : Size[f], A) <= Total
<1> DEFINE D == DOMAIN charged
           v == [i \in D |-> Size[charged[i].file]]
           g == [f \in A |-> CHOOSE i \in D : charged[i].file = f]
<1>1. \A i \in D : charged[i].file \in File
  <2>1. \A i \in D : charged[i] \in Contributor
    BY DEF WalkInv, WalkTypeOK
  <2> QED
    BY <2>1 DEF Contributor
<1>2. IsFiniteSet(D)
  <2>1. charged \in Seq(Contributor)
    BY DEF WalkInv, WalkTypeOK
  <2>2. Len(charged) \in Nat /\ DOMAIN charged = 1 .. Len(charged)
    BY <2>1, LenProperties
  <2> QED
    BY <2>2, FS_Interval
<1>3. \A f \in A : g[f] \in D /\ charged[g[f]].file = f
  BY DEF ChargedFiles
<1>4. g \in [A -> D] /\ \A x, y \in A : g[x] = g[y] => x = y
  <2>1. DOMAIN g = A /\ g = [f \in A |-> g[f]]
    OBVIOUS
  <2> HIDE DEF g, D
  <2> QED
    BY <1>3, <2>1
<1>5. IsFiniteSet(A)
  <2>1. g \in Injection(A, D)
    <3> HIDE DEF g, D
    <3> QED
      BY <1>4 DEF Injection, IsInjective
  <2> HIDE DEF g, D
  <2> QED
    BY <1>2, <2>1, FS_Injection
<1>6. /\ \A i \in D : v[i] \in Nat
      /\ \A f \in A : Size[f] \in Nat
      /\ \A f \in A : Size[f] <= v[g[f]]
  <2>1. A \subseteq File
    BY <1>1 DEF ChargedFiles
  <2>2. \A f \in File : Size[f] \in Nat
    BY WalkAssumption
  <2>3. \A i \in D : v[i] \in Nat
    BY <1>1, <2>2
  <2>4. ASSUME NEW f \in A PROVE Size[f] <= v[g[f]]
    <3> HIDE DEF g, D
    <3>1. v[g[f]] = Size[f] /\ Size[f] \in Nat
      BY <1>3, <2>1, <2>2
    <3> QED
      BY <3>1
  <2> QED
    BY <2>1, <2>2, <2>3, <2>4
<1>7. PICK a : IsSum(a, Size, A) /\ MapThenSumSet(LAMBDA f : Size[f], A) = a[A]
  <2>1. \E a : IsSum(a, Size, A)
    BY <1>5, SumExists
  <2> QED
    BY <2>1 DEF IsSum, MapThenSumSet, MapThenFoldSet
<1>8. PICK b : IsSum(b, v, D) /\ Total = b[D]
  <2> DEFINE P(b) ==
        b = [s \in SUBSET D |->
               IF s = {} THEN 0
               ELSE Size[charged[CHOOSE x \in s : TRUE].file] + b[s \ {CHOOSE x \in s : TRUE}]]
  <2>1. \A s \in SUBSET D : s # {} =>
          v[CHOOSE x \in s : TRUE] = Size[charged[CHOOSE x \in s : TRUE].file]
    OBVIOUS
  <2>2. \A b : P(b) <=> IsSum(b, v, D)
    <3> HIDE DEF v, D
    <3> QED
      BY <2>1 DEF IsSum
  <2>3. \E b : P(b)
    <3> HIDE DEF P, v, D
    <3> QED
      BY <1>2, <2>2, SumExists
  <2>4. \E b : P(b) /\ Total = b[D]
    BY <2>3 DEF Total, MapThenSumSet, MapThenFoldSet
  <2> HIDE DEF P, v, D
  <2> QED
    BY <2>2, <2>4
<1> HIDE DEF D, v, g
<1>9. a[A] \in Nat
  BY <1>5, <1>6, <1>7, SumOfTerms
<1>10. b[D] \in Nat
  BY <1>2, <1>6, <1>8, SumOfTerms
<1>11. a[A] <= b[D]
  BY <1>2, <1>4, <1>5, <1>6, <1>7, <1>8, SumIsBounded
<1> QED
  BY <1>7, <1>8, <1>9, <1>10, <1>11

-----------------------------------------------------------------------------
(* The job. *)

\* The checkout: its tree is walked, and what is installed joins what is in it.
CheckoutInv ==
  /\ repo \in Repositories
  /\ tree = repo.tree
  /\ repo.entries \subseteq disk

\* A job that has not failed has passed the steps before the one it is at.
Passed(s) == step > s \/ job = "green"
PassedInv ==
  /\ step \in DOMAIN Steps
  /\ job = "green" => step = Len(Steps)
  /\ job # "red" =>
       /\ failed \subseteq {"no-submodules"}
       /\ Passed(2) => ~repo.gitmodules /\ (repo.gitlinks => "no-submodules" \in failed)
       /\ Passed(3) => phase = "done" /\ WithinCap
       /\ Passed(7) => \A files \in BucketFiles : ~Over(files)
       /\ Passed(8) => (repo.lock => "dependencies" \in disk)
       /\ Passed(9) => \A i \in repo.imports : ~IsRepoRooted(i)
       /\ Passed(11) => repo.rule.pattern = "ignore" /\ repo.rule.tracked /\ ~repo.envTracked

IInv ==
  /\ WalkInv
  /\ CheckoutInv
  /\ job \in {"running", "green", "red"}
  /\ failed \subseteq {Steps[i] : i \in DOMAIN Steps}
  /\ PassedInv

\* A walk that begins satisfies the invariant.
LEMMA WalkStarts ==
  ASSUME NEW r \in Repositories, WalkInit(r.tree)
  PROVE  WalkInv
<1>1. tree = r.tree /\ tree \in Tree
  BY RepositoriesAssumption DEF WalkInit
<1>2. /\ phase = "memory" /\ todo = tree.roots /\ stack = <<>> /\ seen = {} /\ charged = <<>>
      /\ pending = {} /\ walked = {} /\ rules = {}
  BY <1>1 DEF WalkInit
<1>3. todo \in Seq(File)
  BY <1>1, <1>2 DEF Tree
<1>4. ChargedFiles = {}
  BY <1>2 DEF ChargedFiles
<1>5. WalkTypeOK
  BY <1>1, <1>2, <1>3 DEF WalkTypeOK, Phases
<1>6. PhaseInv /\ TakenInv /\ FollowInv
  BY <1>2, <1>4 DEF PhaseInv, TakenInv, FollowInv
<1>7. ReachInv /\ RootInv /\ RulesInv
  BY <1>2, <1>3 DEF ReachInv, RootInv, RulesInv
<1> QED
  BY <1>5, <1>6, <1>7 DEF WalkInv

\* A step that leaves the walk alone leaves its invariant and its sum alone.
LEMMA WalkStands ==
  ASSUME WalkInv, UNCHANGED walkVars
  PROVE  WalkInv' /\ phase' = phase /\ tree' = tree /\ WithinCap' = WithinCap
<1>1. /\ tree' = tree /\ phase' = phase /\ todo' = todo /\ stack' = stack /\ seen' = seen
      /\ charged' = charged /\ pending' = pending /\ walked' = walked /\ rules' = rules
  BY DEF walkVars
<1>2. ChargedFiles' = ChargedFiles /\ (\A f : Whole(f)' = Whole(f))
      /\ (\A f, n : Behind(f, n)' = Behind(f, n))
  BY <1>1, TreeStands DEF ChargedFiles, Whole, Behind
<1>3. WalkTypeOK' /\ PhaseInv' /\ TakenInv'
  BY <1>1, <1>2 DEF WalkInv, WalkTypeOK, PhaseInv, TakenInv
<1>4. FollowInv'
  BY <1>1, <1>2 DEF WalkInv, FollowInv, Behind
<1>5. ReachInv' /\ RootInv' /\ RulesInv'
  BY <1>1, <1>2, TreeStands DEF WalkInv, ReachInv, RootInv, RulesInv
<1>6. Total' = Total
  BY <1>1 DEF Total, MapThenSumSet, MapThenFoldSet
<1> QED
  BY <1>1, <1>3, <1>4, <1>5, <1>6 DEF WalkInv, WithinCap

\* Which steps the actions are of.
LEMMA StepNumbers ==
  ASSUME step \in DOMAIN Steps
  PROVE  /\ DOMAIN Steps = 1 .. 12 /\ Len(Steps) = 12 /\ step \in 1 .. 12
         /\ Steps[step] = "no-submodules" => step = 2
         /\ Steps[step] = "agent-context-cap" => step = 3
         /\ Steps[step] = "comment-loc-cap" => step = 7
         /\ Steps[step] = "install" => step = 8
         /\ Steps[step] = "relative-src-imports" => step = 9
         /\ Steps[step] = "env-ignored" => step = 11
         /\ Steps[step] \in External => step \in {1, 4, 5, 6, 10, 12}
<1>1. DOMAIN Steps = 1 .. 12 /\ Len(Steps) = 12
  BY DEF Steps
<1>2. /\ Steps[1] = "no-ignored-tests" /\ Steps[2] = "no-submodules"
      /\ Steps[3] = "agent-context-cap" /\ Steps[4] = "snapshots-append-only"
      /\ Steps[5] = "mutation-ledger" /\ Steps[6] = "no-custom-natspec"
      /\ Steps[7] = "comment-loc-cap" /\ Steps[8] = "install"
      /\ Steps[9] = "relative-src-imports" /\ Steps[10] = "slither-fmt-lint"
      /\ Steps[11] = "env-ignored" /\ Steps[12] = "single-contract"
  BY DEF Steps
<1>3. \/ step = 1 \/ step = 2 \/ step = 3 \/ step = 4 \/ step = 5 \/ step = 6
      \/ step = 7 \/ step = 8 \/ step = 9 \/ step = 10 \/ step = 11 \/ step = 12
  BY <1>1
<1> QED
  BY <1>1, <1>2, <1>3 DEF External

\* A step that passes counts as passed, one that does not ends the job.
LEMMA Concluding ==
  ASSUME job = "running", step \in 1 .. 12, Len(Steps) = 12, DOMAIN Steps = 1 .. 12,
         NEW passes \in BOOLEAN, Conclude(passes)
  PROVE  /\ step' \in DOMAIN Steps
         /\ job' \in {"running", "green", "red"}
         /\ job' = "green" => step' = Len(Steps)
         /\ job' # "red" => passes
         /\ \A k \in 1 .. 12 : job' # "red" => (Passed(k)' <=> Passed(k) \/ k = step)
<1>1. CASE ~passes
  BY <1>1 DEF Conclude
<1>2. CASE passes /\ step = 12
  <2>1. job' = "green" /\ step' = 12
    BY <1>2 DEF Conclude
  <2> QED
    BY <1>2, <2>1 DEF Passed
<1>3. CASE passes /\ step # 12
  <2>1. job' = "running" /\ step' = step + 1 /\ step < 12
    BY <1>3 DEF Conclude
  <2> QED
    BY <1>3, <2>1 DEF Passed
<1> QED
  BY <1>1, <1>2, <1>3

\* What git did not answer at a step whose number is known.
LEMMA GitFailed ==
  ASSUME step \in DOMAIN Steps, failed \subseteq {Steps[i] : i \in DOMAIN Steps},
         NEW git \in BOOLEAN, Git(git)
  PROVE  /\ failed' \subseteq {Steps[i] : i \in DOMAIN Steps}
         /\ failed \subseteq failed'
         /\ git => failed' = failed
         /\ ~git => failed' = failed \union {Steps[step]}
  BY DEF Git

\* A job that begins satisfies the invariant.
LEMMA InitHolds == Init => IInv
<1> SUFFICES ASSUME NEW r \in Repositories, WalkInit(r.tree), repo = r, step = 1,
                    job = "running", disk = r.entries, failed = {}
             PROVE  IInv
  BY DEF Init
<1>1. WalkInv
  BY WalkStarts
<1>2. CheckoutInv
  BY DEF CheckoutInv, WalkInit
<1>3. 1 \in DOMAIN Steps
  BY DEF Steps
<1>4. PassedInv
  BY <1>3 DEF PassedInv, Passed
<1> QED
  BY <1>1, <1>2, <1>4 DEF IInv

\* The steps that leave the walk alone.
LEMMA OtherStepHolds ==
  ASSUME IInv, ExternalStep \/ NoSubmodules \/ AgentContextCap \/ CommentLocCap
                 \/ Install \/ RelativeSrcImports \/ EnvIgnored
  PROVE  IInv'
<1>1. /\ UNCHANGED walkVars /\ repo' = repo /\ job = "running"
  BY DEF ExternalStep, NoSubmodules, AgentContextCap, CommentLocCap, Install,
         RelativeSrcImports, EnvIgnored, At
<1>2. WalkInv' /\ phase' = phase /\ tree' = tree /\ WithinCap' = WithinCap
  BY <1>1, WalkStands DEF IInv
<1>3. /\ DOMAIN Steps = 1 .. 12 /\ Len(Steps) = 12 /\ step \in 1 .. 12 /\ step \in DOMAIN Steps
      /\ failed \subseteq {Steps[i] : i \in DOMAIN Steps}
  BY StepNumbers DEF IInv, PassedInv
<1>4. BucketFiles' = BucketFiles
  BY <1>1 DEF BucketFiles, BucketsOf, CallerNamed, Scan, DefaultBuckets
<1>5. ASSUME disk' = disk
       PROVE  \A i \in repo.imports : IsRepoRooted(i)' = IsRepoRooted(i)
  BY <1>5 DEF IsRepoRooted
<1>6. CASE ExternalStep
  <2>1. step \in {1, 4, 5, 6, 10, 12} /\ disk' = disk /\ failed' = failed
    BY <1>6, StepNumbers DEF ExternalStep, IInv, PassedInv
  <2>2. PICK passes \in BOOLEAN : Conclude(passes)
    BY <1>6 DEF ExternalStep
  <2>3. /\ step' \in DOMAIN Steps
        /\ job' \in {"running", "green", "red"}
        /\ job' = "green" => step' = Len(Steps)
        /\ \A k \in 1 .. 12 : job' # "red" => (Passed(k)' <=> Passed(k) \/ k = step)
    BY <1>1, <1>3, <2>2, Concluding
  <2> QED
    BY <1>1, <1>2, <1>3, <1>4, <1>5, <2>1, <2>3 DEF IInv, CheckoutInv, PassedInv
<1>7. CASE NoSubmodules
  <2>1. step = 2 /\ disk' = disk
    BY <1>7, StepNumbers DEF NoSubmodules, At, IInv, PassedInv
  <2>2. PICK git \in BOOLEAN :
          Git(git) /\ Conclude(~repo.gitmodules /\ ~(git /\ repo.gitlinks))
    BY <1>7 DEF NoSubmodules
  <2>3. /\ step' \in DOMAIN Steps
        /\ job' \in {"running", "green", "red"}
        /\ job' = "green" => step' = Len(Steps)
        /\ job' # "red" => ~repo.gitmodules /\ ~(git /\ repo.gitlinks)
        /\ \A k \in 1 .. 12 : job' # "red" => (Passed(k)' <=> Passed(k) \/ k = step)
    <3> DEFINE passes == ~repo.gitmodules /\ ~(git /\ repo.gitlinks)
    <3>1. passes \in BOOLEAN /\ Conclude(passes)
      BY <2>2
    <3> HIDE DEF passes
    <3>2. /\ step' \in DOMAIN Steps
          /\ job' \in {"running", "green", "red"}
          /\ job' = "green" => step' = Len(Steps)
          /\ job' # "red" => passes
          /\ \A k \in 1 .. 12 : job' # "red" => (Passed(k)' <=> Passed(k) \/ k = step)
      BY <1>1, <1>3, <3>1, Concluding
    <3> QED
      BY <3>2 DEF passes
  <2>4. /\ failed' \subseteq {Steps[i] : i \in DOMAIN Steps}
        /\ failed \subseteq failed'
        /\ failed' \subseteq failed \union {"no-submodules"}
        /\ ~git => "no-submodules" \in failed'
    BY <1>3, <1>7, <2>2, GitFailed DEF NoSubmodules, At
  <2> QED
    BY <1>1, <1>2, <1>3, <1>4, <1>5, <2>1, <2>3, <2>4
    DEF IInv, CheckoutInv, PassedInv, Passed
<1>8. CASE AgentContextCap
  <2>1. step = 3 /\ disk' = disk /\ failed' = failed /\ phase = "done"
    BY <1>8, StepNumbers DEF AgentContextCap, At, IInv, PassedInv
  <2>2. /\ step' \in DOMAIN Steps
        /\ job' \in {"running", "green", "red"}
        /\ job' = "green" => step' = Len(Steps)
        /\ job' # "red" => WithinCap
        /\ \A k \in 1 .. 12 : job' # "red" => (Passed(k)' <=> Passed(k) \/ k = step)
    <3>1. WithinCap \in BOOLEAN
      BY DEF WithinCap
    <3>2. Conclude(WithinCap)
      BY <1>8 DEF AgentContextCap
    <3> QED
      BY <1>1, <1>3, <3>1, <3>2, Concluding
  <2> QED
    BY <1>1, <1>2, <1>3, <1>4, <1>5, <2>1, <2>2 DEF IInv, CheckoutInv, PassedInv
<1>9. CASE CommentLocCap
  <2>1. step = 7 /\ disk' = disk
    BY <1>9, StepNumbers DEF CommentLocCap, At, IInv, PassedInv
  <2>2. PICK git \in BOOLEAN, scc \in BOOLEAN : Git(git) /\ Conclude(CommentLocPasses(git, scc))
    BY <1>9 DEF CommentLocCap
  <2>3. /\ step' \in DOMAIN Steps
        /\ job' \in {"running", "green", "red"}
        /\ job' = "green" => step' = Len(Steps)
        /\ job' # "red" => git /\ \A files \in BucketFiles : ~Over(files)
        /\ \A k \in 1 .. 12 : job' # "red" => (Passed(k)' <=> Passed(k) \/ k = step)
    <3>1. CommentLocPasses(git, scc) \in BOOLEAN
      BY DEF CommentLocPasses
    <3>2. CommentLocPasses(git, scc) => git /\ \A files \in BucketFiles : ~Over(files)
      BY DEF CommentLocPasses
    <3> QED
      BY <1>1, <1>3, <2>2, <3>1, <3>2, Concluding
  <2>4. failed' \subseteq {Steps[i] : i \in DOMAIN Steps} /\ (git => failed' = failed)
    BY <1>3, <2>2, GitFailed
  <2> QED
    BY <1>1, <1>2, <1>3, <1>4, <1>5, <2>1, <2>3, <2>4 DEF IInv, CheckoutInv, PassedInv
<1>10. CASE Install
  <2>1. step = 8 /\ failed' = failed /\ disk \subseteq disk'
    BY <1>10, StepNumbers DEF Install, At, IInv, PassedInv
  <2>2. PICK passes \in BOOLEAN :
          Conclude(passes) /\ (passes => (repo.lock => "dependencies" \in disk'))
    BY <1>10 DEF Install
  <2>3. /\ step' \in DOMAIN Steps
        /\ job' \in {"running", "green", "red"}
        /\ job' = "green" => step' = Len(Steps)
        /\ job' # "red" => passes
        /\ \A k \in 1 .. 12 : job' # "red" => (Passed(k)' <=> Passed(k) \/ k = step)
    BY <1>1, <1>3, <2>2, Concluding
  <2>4. ~Passed(9) /\ (job' # "red" => ~Passed(9)')
    BY <1>1, <2>1, <2>3 DEF Passed
  <2> QED
    BY <1>1, <1>2, <1>3, <1>4, <2>1, <2>2, <2>3, <2>4 DEF IInv, CheckoutInv, PassedInv
<1>11. CASE RelativeSrcImports
  <2>1. step = 9 /\ disk' = disk
    BY <1>11, StepNumbers DEF RelativeSrcImports, At, IInv, PassedInv
  <2> DEFINE passes(git) == git /\ \A i \in repo.imports : ~IsRepoRooted(i)
  <2>2. PICK git \in BOOLEAN : Git(git) /\ Conclude(passes(git))
    BY <1>11 DEF RelativeSrcImports
  <2>3. /\ step' \in DOMAIN Steps
        /\ job' \in {"running", "green", "red"}
        /\ job' = "green" => step' = Len(Steps)
        /\ job' # "red" => passes(git)
        /\ \A k \in 1 .. 12 : job' # "red" => (Passed(k)' <=> Passed(k) \/ k = step)
    <3>1. passes(git) \in BOOLEAN
      OBVIOUS
    <3> HIDE DEF passes
    <3> QED
      BY <1>1, <1>3, <2>2, <3>1, Concluding
  <2>4. failed' \subseteq {Steps[i] : i \in DOMAIN Steps} /\ (git => failed' = failed)
    BY <1>3, <2>2, GitFailed
  <2> QED
    BY <1>1, <1>2, <1>3, <1>4, <1>5, <2>1, <2>3, <2>4 DEF IInv, CheckoutInv, PassedInv
<1>12. CASE EnvIgnored
  <2>1. step = 11 /\ disk' = disk
    BY <1>12, StepNumbers DEF EnvIgnored, At, IInv, PassedInv
  <2>2. PICK git \in BOOLEAN : Git(git) /\ Conclude(EnvIgnoredPasses(git))
    BY <1>12 DEF EnvIgnored
  <2>3. /\ step' \in DOMAIN Steps
        /\ job' \in {"running", "green", "red"}
        /\ job' = "green" => step' = Len(Steps)
        /\ job' # "red" => EnvIgnoredPasses(git)
        /\ \A k \in 1 .. 12 : job' # "red" => (Passed(k)' <=> Passed(k) \/ k = step)
    <3>1. EnvIgnoredPasses(git) \in BOOLEAN
      BY DEF EnvIgnoredPasses
    <3> QED
      BY <1>1, <1>3, <2>2, <3>1, Concluding
  <2>4. failed' \subseteq {Steps[i] : i \in DOMAIN Steps} /\ (git => failed' = failed)
    BY <1>3, <2>2, GitFailed
  <2> QED
    BY <1>1, <1>2, <1>3, <1>4, <1>5, <2>1, <2>3, <2>4
    DEF IInv, CheckoutInv, PassedInv, EnvIgnoredPasses
<1> QED
  BY <1>6, <1>7, <1>8, <1>9, <1>10, <1>11, <1>12

\* A step of the walk, while the job is at its step.
LEMMA WalkStepHolds ==
  ASSUME IInv, AgentContextWalk
  PROVE  IInv'
<1>1. /\ WalkNext /\ job = "running" /\ step = 3
      /\ repo' = repo /\ step' = step /\ job' = job /\ disk' = disk /\ failed' = failed
  BY StepNumbers DEF AgentContextWalk, At, jobVars, IInv, PassedInv
<1>2. WalkInv'
  BY <1>1, WalkStep DEF IInv
<1>3. tree' = tree
  BY <1>1 DEF WalkNext, RootFile, Follow, Return, ScanRules, ListDir, ScanEnds, ChargeRule, WalkEnds
<1>4. ~Passed(3)' /\ ~Passed(7)' /\ ~Passed(8)' /\ ~Passed(9)' /\ ~Passed(11)' /\ Passed(2)
  BY <1>1 DEF Passed
<1> QED
  BY <1>1, <1>2, <1>3, <1>4 DEF IInv, CheckoutInv, PassedInv

\* Every step of the job, and of the walk it waits for, keeps the invariant.
LEMMA StepHolds == IInv /\ [Next]_vars => IInv'
<1> SUFFICES ASSUME IInv, [Next]_vars PROVE IInv'
  OBVIOUS
<1>1. CASE UNCHANGED vars
  <2>1. /\ UNCHANGED walkVars /\ repo' = repo /\ step' = step /\ job' = job /\ disk' = disk
        /\ failed' = failed
    BY <1>1 DEF vars
  <2>2. WalkInv' /\ phase' = phase /\ tree' = tree /\ WithinCap' = WithinCap
    BY <2>1, WalkStands DEF IInv
  <2>3. /\ BucketFiles' = BucketFiles
        /\ \A i \in repo.imports : IsRepoRooted(i)' = IsRepoRooted(i)
        /\ \A k \in 1 .. 12 : Passed(k)' = Passed(k)
    BY <2>1 DEF BucketFiles, BucketsOf, CallerNamed, Scan, DefaultBuckets, IsRepoRooted, Passed
  <2> QED
    BY <2>1, <2>2, <2>3 DEF IInv, CheckoutInv, PassedInv
<1>2. CASE Done
  BY <1>1, <1>2 DEF Done
<1>3. CASE AgentContextWalk
  BY <1>3, WalkStepHolds
<1>4. CASE ExternalStep \/ NoSubmodules \/ AgentContextCap \/ CommentLocCap
             \/ Install \/ RelativeSrcImports \/ EnvIgnored
  BY <1>4, OtherStepHolds
<1> QED
  BY <1>1, <1>2, <1>3, <1>4 DEF Next

-----------------------------------------------------------------------------
(* What a green job says. *)

\* The lines of finitely many files are numbers.
LEMMA LinesAreNumbers ==
  ASSUME NEW files, IsFiniteSet(files), \A f \in files : f.comment \in Nat /\ f.code \in Nat
  PROVE  Lines(files).comment \in Nat /\ Lines(files).code \in Nat
<1> DEFINE comment == [f \in files |-> f.comment]
           code == [f \in files |-> f.code]
           P(b) == b = [s \in SUBSET files |->
                          IF s = {} THEN 0
                          ELSE (CHOOSE x \in s : TRUE).comment + b[s \ {CHOOSE x \in s : TRUE}]]
           Q(b) == b = [s \in SUBSET files |->
                          IF s = {} THEN 0
                          ELSE (CHOOSE x \in s : TRUE).code + b[s \ {CHOOSE x \in s : TRUE}]]
<1>1. \A s \in SUBSET files : s # {} =>
        /\ comment[CHOOSE x \in s : TRUE] = (CHOOSE x \in s : TRUE).comment
        /\ code[CHOOSE x \in s : TRUE] = (CHOOSE x \in s : TRUE).code
  OBVIOUS
<1>2. \A f \in files : comment[f] \in Nat /\ code[f] \in Nat
  OBVIOUS
<1>3. \A b : (P(b) <=> IsSum(b, comment, files)) /\ (Q(b) <=> IsSum(b, code, files))
  <2> HIDE DEF comment, code
  <2> QED
    BY <1>1 DEF IsSum
<1>4. (\E b : P(b)) /\ (\E b : Q(b))
  <2> HIDE DEF P, Q, comment, code
  <2> QED
    BY <1>3, SumExists
<1>5. \E b : P(b) /\ MapThenSumSet(LAMBDA f : f.comment, files) = b[files]
  BY <1>4 DEF MapThenSumSet, MapThenFoldSet
<1>6. \E b : Q(b) /\ MapThenSumSet(LAMBDA f : f.code, files) = b[files]
  BY <1>4 DEF MapThenSumSet, MapThenFoldSet
<1>7. \A b : (P(b) => b[files] \in Nat) /\ (Q(b) => b[files] \in Nat)
  <2> HIDE DEF P, Q, comment, code
  <2>1. files \in SUBSET files
    OBVIOUS
  <2> QED
    BY <1>2, <1>3, <2>1, SumOfTerms
<1> HIDE DEF P, Q
<1>8. /\ MapThenSumSet(LAMBDA f : f.comment, files) \in Nat
      /\ MapThenSumSet(LAMBDA f : f.code, files) \in Nat
  BY <1>5, <1>6, <1>7
<1> QED
  BY <1>8 DEF Lines

\* The files of a bucket that is one directory are the directory's own.
LEMMA BucketsAreOwn ==
  ASSUME IInv, ~CallerNamed, \A files \in BucketFiles : ~Over(files)
  PROVE  /\ OwnRatioHolds("test")
         /\ (\A f \in repo.files : f.dir # ".github") => OwnRatioHolds("src")
<1>1. BucketFiles = {Scan({"src", ".github"}), Scan({"test"})}
  BY DEF BucketFiles, BucketsOf, DefaultBuckets
<1>2. /\ IsFiniteSet(repo.files)
      /\ \A f \in repo.files : f.comment \in Nat /\ f.code \in Nat
  BY RepositoriesAssumption DEF IInv, CheckoutInv
<1>3. ASSUME NEW dir, NEW files \in BucketFiles,
             files = {f \in repo.files : f.dir = dir /\ f.source /\ ~f.deprecated}
      PROVE  OwnRatioHolds(dir)
  <2>1. files \in SUBSET repo.files
    BY <1>3
  <2>2. IsFiniteSet(files) /\ \A f \in files : f.comment \in Nat /\ f.code \in Nat
    BY <1>2, <2>1, FS_Subset
  <2>3. Lines(files).comment \in Nat /\ Lines(files).code \in Nat
    BY <2>2, LinesAreNumbers
  <2>4. ~(Lines(files).comment > 2 * Lines(files).code)
    BY <1>3 DEF Over
  <2>5. Lines(files).comment <= 2 * Lines(files).code
    BY <2>3, <2>4
  <2> QED
    BY <1>3, <2>5 DEF OwnRatioHolds
<1>4. Scan({"test"}) = {f \in repo.files : f.dir = "test" /\ f.source /\ ~f.deprecated}
  BY DEF Scan, IsCounted
<1>5. (\A f \in repo.files : f.dir # ".github") =>
        Scan({"src", ".github"}) = {f \in repo.files : f.dir = "src" /\ f.source /\ ~f.deprecated}
  BY DEF Scan, IsCounted
<1> QED
  BY <1>1, <1>3, <1>4, <1>5

\* The invariant says all that the properties do.
LEMMA IInvSays == IInv => TypeOK /\ FollowedWhole /\ BillIsExact /\ GreenTreeIsClean
<1> SUFFICES ASSUME IInv PROVE TypeOK /\ FollowedWhole /\ BillIsExact /\ GreenTreeIsClean
  OBVIOUS
<1>1. TypeOK
  BY DEF IInv, PassedInv, WalkInv, TypeOK
<1>2. FollowedWhole /\ BillIsExact
  BY WalkInvSays DEF IInv
<1>3. ASSUME job = "green" PROVE GreenTreeIsClean
  <2>1. /\ failed \subseteq {"no-submodules"}
        /\ ~repo.gitmodules /\ (repo.gitlinks => "no-submodules" \in failed)
        /\ phase = "done" /\ WithinCap
        /\ \A files \in BucketFiles : ~Over(files)
        /\ (repo.lock => "dependencies" \in disk)
        /\ \A i \in repo.imports : ~IsRepoRooted(i)
        /\ repo.rule.pattern = "ignore" /\ repo.rule.tracked /\ ~repo.envTracked
    BY <1>3 DEF IInv, PassedInv, Passed
  <2>2. repo.lock => "dependencies" \notin repo.imports
    BY <2>1 DEF IsRepoRooted
  <2>3. repo.imports \intersect repo.entries = {}
    BY <2>1, RepositoriesAssumption DEF IsRepoRooted, IInv, CheckoutInv
  <2>4. ~CallerNamed =>
          /\ OwnRatioHolds("test")
          /\ (\A f \in repo.files : f.dir # ".github") => OwnRatioHolds("src")
    BY <2>1, BucketsAreOwn
  <2>5. MapThenSumSet(LAMBDA f : Size[f], LaunchCore \union LaunchRules) <= Cap
    <3> DEFINE A == LaunchCore \union LaunchRules
    <3>1. A \in SUBSET ChargedFiles /\ WalkInv
      BY <2>1, CoreIsBilled DEF IInv
    <3> HIDE DEF A
    <3>2. /\ MapThenSumSet(LAMBDA f : Size[f], A) \in Nat
          /\ Total \in Nat
          /\ MapThenSumSet(LAMBDA f : Size[f], A) <= Total
      BY <3>1, TotalCovers
    <3>3. Total <= Cap /\ Cap \in Nat
      BY <2>1, WalkAssumption DEF WithinCap
    <3>4. \A x, y, z \in Nat : x <= y /\ y <= z => x <= z
      OBVIOUS
    <3>5. MapThenSumSet(LAMBDA f : Size[f], A) <= Cap
      BY <3>2, <3>3, <3>4
    <3> QED
      BY <3>5 DEF A
  <2> QED
    BY <2>1, <2>2, <2>3, <2>4, <2>5 DEF GreenTreeIsClean
<1>4. ASSUME job # "green" PROVE GreenTreeIsClean
  BY <1>4 DEF GreenTreeIsClean
<1> QED
  BY <1>1, <1>2, <1>3, <1>4

\* Every contributor, frame and rule is of its kind, whatever the checkout.
THEOREM TypeCorrect == Spec => []TypeOK
  BY InitHolds, StepHolds, IInvSays, PTL DEF Spec

\* The walk of context_bytes.rs ends with nothing missed, on any graph of
\* references and for any depth: every readable reference of a file that was
\* followed is billed, the file being one that cycles back included.
THEOREM WalksFollowWhole == Spec => []FollowedWhole
  BY InitHolds, StepHolds, IInvSays, PTL DEF Spec

\* The bill of agent-context-cap and prompt-cap is exact: each file once, only
\* what is within the depth of a root or is a rule that loads at launch, and
\* all of those rules, through any tangle of links.
THEOREM BillsAreExact == Spec => []BillIsExact
  BY InitHolds, StepHolds, IInvSays, PTL DEF Spec

\* A green static job says of the checkout what its steps are for: no import of
\* src leads through the repository's root, comments and context are within
\* their caps, nothing but the listing of submodules was waved through when
\* git failed, and .env is ignored.
THEOREM GreenTreesAreClean == Spec => []GreenTreeIsClean
  BY InitHolds, StepHolds, IInvSays, PTL DEF Spec

-----------------------------------------------------------------------------
(* The mutation ledger: the ancestors of a commit.  They are defined by    *)
(* recursion over the numbers of the commits, so facts about them are      *)
(* proved by induction.                                                    *)

\* Every commit has its parents before it.
LooksBack ==
  /\ parents \in [Commit -> SUBSET Commit]
  /\ \A c \in Commit : \A p \in parents[c] : p < c

\* The definition of the ancestors of the first n commits has a solution.
Solves(g, n) == g = [c \in 1 .. n |-> {c} \union UNION {g[p] : p \in parents[c]}]

\* On a history whose parents are older, the ancestors of the first commits
\* can be listed, by induction on how many.
LEMMA AncestorsExist ==
  ASSUME LooksBack
  PROVE  \A n \in 0 .. MaxCommit : \E g : Solves(g, n)
<1> DEFINE T == {n \in Nat : n <= MaxCommit => \E g : Solves(g, n)}
<1>1. 0 \in T
  <2>1. Solves([c \in {} |-> {}], 0)
    BY DEF Solves
  <2> QED
    BY <2>1
<1>2. ASSUME NEW n \in Nat, n \in T PROVE n + 1 \in T
  <2>1. SUFFICES ASSUME n + 1 <= MaxCommit PROVE \E g : Solves(g, n + 1)
    OBVIOUS
  <2>2. n <= MaxCommit /\ MaxCommit \in Nat
    BY <2>1, LedgerAssumption
  <2>3. PICK g : Solves(g, n)
    BY <1>2, <2>2
  <2> DEFINE h == [c \in 1 .. n + 1 |-> {c} \union UNION {g[p] : p \in parents[c]}]
  <2>4. \A c \in 1 .. n + 1 : \A p \in parents[c] : p \in 1 .. n
    BY <2>2, <2>1 DEF LooksBack, Commit
  <2>5. \A p \in 1 .. n : h[p] = g[p]
    <3> TAKE p \in 1 .. n
    <3>1. g[p] = {p} \union UNION {g[q] : q \in parents[p]}
      BY <2>3 DEF Solves
    <3>2. p \in 1 .. n + 1
      BY <2>2
    <3> QED
      BY <3>1, <3>2
  <2>6. ASSUME NEW c \in 1 .. n + 1
        PROVE  UNION {g[p] : p \in parents[c]} = UNION {h[p] : p \in parents[c]}
    <3> HIDE DEF h
    <3>1. \A p \in parents[c] : h[p] = g[p]
      BY <2>4, <2>5
    <3> QED
      BY <3>1
  <2>7. Solves(h, n + 1)
    BY <2>6 DEF Solves
  <2> HIDE DEF h
  <2> QED
    BY <2>7
<1> HIDE DEF T
<1>3. Nat \subseteq T
  BY <1>1, <1>2, SetInduction
<1> QED
  BY <1>3, LedgerAssumption DEF T

\* The ancestors of a commit are the commit and the ancestors of its parents.
LEMMA AncestorsStep ==
  ASSUME LooksBack, NEW c \in Commit
  PROVE  Ancestors[c] = {c} \union UNION {Ancestors[p] : p \in parents[c]}
<1>1. \E g : g = [d \in Commit |-> {d} \union UNION {g[p] : p \in parents[d]}]
  <2>1. MaxCommit \in 0 .. MaxCommit
    BY LedgerAssumption
  <2>2. PICK g : Solves(g, MaxCommit)
    BY <2>1, AncestorsExist
  <2>3. g = [d \in Commit |-> {d} \union UNION {g[p] : p \in parents[d]}]
    BY <2>2 DEF Solves, Commit
  <2> QED
    BY <2>3
<1>2. Ancestors = [d \in Commit |-> {d} \union UNION {Ancestors[p] : p \in parents[d]}]
  BY <1>1 DEF Ancestors
<1> QED
  BY <1>2

\* Only commits are ancestors.
LEMMA AncestorsAreCommits ==
  ASSUME LooksBack
  PROVE  \A c \in Commit : Ancestors[c] \subseteq Commit
<1> DEFINE T == {n \in Nat : \A c \in Commit : c <= n => Ancestors[c] \subseteq Commit}
<1>1. 0 \in T
  BY LedgerAssumption DEF Commit
<1>2. ASSUME NEW n \in Nat, n \in T PROVE n + 1 \in T
  <2> SUFFICES ASSUME NEW c \in Commit, c <= n + 1 PROVE Ancestors[c] \subseteq Commit
    BY <1>2
  <2>1. \A p \in parents[c] : p \in Commit /\ p <= n
    BY LedgerAssumption DEF LooksBack, Commit
  <2>2. \A p \in parents[c] : Ancestors[p] \subseteq Commit
    BY <1>2, <2>1
  <2> QED
    BY <2>2, AncestorsStep
<1> HIDE DEF T
<1>3. Nat \subseteq T
  BY <1>1, <1>2, SetInduction
<1>4. \A c \in Commit : c \in Nat /\ c <= c
  BY LedgerAssumption DEF Commit
<1> QED
  BY <1>3, <1>4 DEF T

-----------------------------------------------------------------------------
(* The inductive invariant. *)

Name == Commit \union {Unknown, NoName, Malformed}
RecordType == [commit : Name, testsAfterCommit : Name, form : [Fields -> {"good", "absent", "wrong"}]]
FileType == [kind : {"absent", "array", "other"}, records : SUBSET RecordType]
GateType ==
  [at : {"idle", "skipped", "action", "shape", "ancestry", "refused", "red", "green"},
   head : Commit, shallow : BOOLEAN, todo : SUBSET (Commit \union {Unknown}),
   offended : BOOLEAN]

\* The history, a run of the gate apart.
HistoryInv ==
  /\ last \in Commit
  /\ LooksBack
  /\ ledger \in [Commit -> FileType]
  /\ main \in 1 .. last
  /\ branch \in 1 .. last

\* What the gate has established so far: it only asks of a checkout that can
\* answer, and it has taken offence exactly at what it looked at.
Offends ==
  LET file == ledger[gate.head] IN
  \/ ShapeOffends(file)
  \/ \E n \in Shas(file) \ gate.todo : ~IsAncestor(n)
Asked ==
  /\ Answerable(ledger[gate.head])
  /\ gate.offended <=> Offends
GateInv ==
  /\ gate \in GateType
  /\ gate.head \in 1 .. last
  /\ gate.at = "ancestry" => Asked /\ gate.todo \subseteq Shas(ledger[gate.head])
  /\ gate.at \in {"action", "shape", "ancestry", "green", "red"} =>
       ledger[gate.head].kind # "absent"
  /\ gate.at = "green" => Asked /\ gate.todo = {} /\ ~gate.offended
  /\ gate.at = "red" => Asked /\ gate.todo = {} /\ gate.offended
  /\ gate.at = "skipped" => ledger[gate.head].kind = "absent"

LedgerIInv == HistoryInv /\ GateInv

\* The records people write, as one set of fields and forms.
LEMMA RecordTypes == Record = RecordType /\ Forms \subseteq [Fields -> {"good", "absent", "wrong"}]
  BY LedgerAssumption DEF Record, RecordType, Name

\* A name that can be asked about is a number of a commit, or unknown.
LEMMA ShasAreNames ==
  ASSUME NEW file \in FileType
  PROVE  Shas(file) \subseteq Commit \union {Unknown}
  BY DEF Shas, FileType, RecordType, Name

-----------------------------------------------------------------------------
(* LedgerIInv holds at the start and is preserved. *)

\* The first commit satisfies the invariant.
LEMMA StartHolds == LedgerInit => LedgerIInv
<1> SUFFICES ASSUME LedgerInit PROVE LedgerIInv
  OBVIOUS
<1>1. 1 \in Commit
  BY LedgerAssumption DEF Commit
<1>2. HistoryInv
  BY <1>1 DEF LedgerInit, HistoryInv, LooksBack, FileType, NoLedger
<1>3. GateInv
  BY <1>1 DEF LedgerInit, GateInv, GateType, Idle, Commit
<1> QED
  BY <1>2, <1>3 DEF LedgerIInv

\* A commit leaves what the gate did alone, for the gate is idle.
LEMMA AddKeeps ==
  ASSUME LedgerIInv, NEW ps \in SUBSET (1 .. last), NEW file \in FileType, Add(ps, file),
         main' \in 1 .. last + 1, branch' \in 1 .. last + 1
  PROVE  LedgerIInv'
<1>1. last + 1 \in Commit /\ last' = last + 1 /\ last \in Nat /\ 1 .. last \subseteq Commit
  BY LedgerAssumption DEF Add, LedgerIInv, HistoryInv, Commit
<1>2. LooksBack'
  <2>1. parents' \in [Commit -> SUBSET Commit]
    BY <1>1 DEF Add, LedgerIInv, HistoryInv, LooksBack
  <2>2. ASSUME NEW c \in Commit, NEW p \in parents'[c] PROVE p < c
    <3>1. CASE c = last + 1
      BY <1>1, <3>1 DEF Add, LedgerIInv, HistoryInv, LooksBack
    <3>2. CASE c # last + 1
      BY <1>1, <3>2 DEF Add, LedgerIInv, HistoryInv, LooksBack
    <3> QED
      BY <3>1, <3>2
  <2> QED
    BY <2>1, <2>2 DEF LooksBack
<1>3. ledger' \in [Commit -> FileType]
  BY <1>1 DEF Add, LedgerIInv, HistoryInv
<1>4. HistoryInv'
  BY <1>1, <1>2, <1>3 DEF HistoryInv
<1>5. GateInv'
  BY <1>1 DEF Add, LedgerIInv, GateInv
<1> QED
  BY <1>4, <1>5 DEF LedgerIInv

\* Commits of every kind, by people and by GitHub.
LEMMA HistoryMoves ==
  ASSUME LedgerIInv, Work \/ AppendRecord \/ Mangle \/ Merge
  PROVE  LedgerIInv'
<1>1. /\ main \in 1 .. last /\ branch \in 1 .. last /\ last \in Nat
      /\ main \in Commit /\ branch \in Commit
      /\ main \in 1 .. last + 1
      /\ last + 1 \in 1 .. last + 1
  BY LedgerAssumption DEF LedgerIInv, HistoryInv, Commit
<1>2. ledger[main] \in FileType /\ ledger[branch] \in FileType
  BY <1>1 DEF LedgerIInv, HistoryInv
<1>3. CASE Work
  BY <1>1, <1>2, <1>3, AddKeeps DEF Work
<1>4. CASE AppendRecord
  <2>1. PICK commit \in 1 .. last \union {Unknown, NoName, Malformed},
             tests \in {branch, NoName}, form \in Forms :
          Add({branch}, [kind |-> "array",
                         records |-> ledger[branch].records \union
                           {[commit |-> commit, testsAfterCommit |-> tests, form |-> form]}])
    BY <1>4 DEF AppendRecord
  <2>2. [commit |-> commit, testsAfterCommit |-> tests, form |-> form] \in RecordType
    <3>1. commit \in Name /\ tests \in Name
      BY <1>1, LedgerAssumption DEF Name, Commit, LedgerIInv, HistoryInv
    <3> QED
      BY <3>1, RecordTypes DEF RecordType
  <2>3. [kind |-> "array",
         records |-> ledger[branch].records \union
           {[commit |-> commit, testsAfterCommit |-> tests, form |-> form]}] \in FileType
    BY <1>2, <2>2 DEF FileType
  <2> QED
    BY <1>1, <1>4, <2>1, <2>3, AddKeeps DEF AppendRecord
<1>5. CASE Mangle
  <2>1. \A kind \in {"array", "other"} : [kind |-> kind, records |-> {}] \in FileType
    BY DEF FileType
  <2> QED
    BY <1>1, <1>5, <2>1, AddKeeps DEF Mangle
<1>6. CASE Merge
  <2>1. Merged(ledger[main], ledger[branch]) \in FileType
    BY <1>2 DEF Merged, FileType
  <2> QED
    BY <1>1, <1>6, <2>1, AddKeeps DEF Merge
<1> QED
  BY <1>3, <1>4, <1>5, <1>6

\* The history under a run of the gate stands still.
LEMMA HistoryStands ==
  ASSUME UNCHANGED history
  PROVE  /\ HistoryInv => HistoryInv'
         /\ \A c : ledger'[c] = ledger[c]
         /\ Ancestors' = Ancestors
         /\ last' = last
  BY DEF history, HistoryInv, LooksBack, Ancestors

\* The gate reads and asks.
LEMMA GateMoves ==
  ASSUME LedgerIInv, Start \/ Unshallow \/ CheckShape \/ Probe \/ ProbeFails \/ Answer \/ Again
  PROVE  LedgerIInv'
<1>1. UNCHANGED history
  BY DEF Start, Unshallow, CheckShape, Probe, ProbeFails, Answer, Again
<1>2. HistoryInv' /\ ledger' = ledger /\ Ancestors' = Ancestors /\ last' = last
  BY <1>1, HistoryStands DEF LedgerIInv, history
<1>3. gate \in GateType /\ gate.head \in 1 .. last /\ gate.head \in Commit
  BY DEF LedgerIInv, GateInv, GateType
<1>4. ledger[gate.head] \in FileType
  BY <1>3 DEF LedgerIInv, HistoryInv
<1>5. CASE Start
  <2>1. PICK head \in {main, branch}, shallow \in BOOLEAN :
          gate' = [at       |-> IF ledger[head].kind = "absent" THEN "skipped" ELSE "action",
                   head     |-> head,
                   shallow  |-> shallow,
                   todo     |-> {},
                   offended |-> FALSE]
    BY <1>5 DEF Start
  <2>2. head \in 1 .. last /\ head \in Commit
    BY LedgerAssumption DEF LedgerIInv, HistoryInv, Commit
  <2>3. gate' \in GateType
    BY <2>1, <2>2 DEF GateType
  <2> QED
    BY <1>2, <2>1, <2>2, <2>3 DEF GateInv, LedgerIInv
<1>6. CASE Unshallow
  <2>1. gate' \in GateType /\ gate'.at \in {"shape", "refused"} /\ gate'.head = gate.head
    BY <1>3, <1>6 DEF Unshallow, GateType
  <2>2. ledger[gate.head].kind # "absent"
    BY <1>6 DEF Unshallow, LedgerIInv, GateInv
  <2> QED
    BY <1>2, <2>2, <1>3, <2>1 DEF GateInv, LedgerIInv
<1>7. CASE CheckShape
  <2> DEFINE file == ledger[gate.head]
  <2>1. Shas(file) \subseteq Commit \union {Unknown}
    BY <1>4, ShasAreNames
  <2>2. ShapeOffends(file) \in BOOLEAN
    BY DEF ShapeOffends
  <2>3. /\ gate'.at = IF Answerable(file) THEN "ancestry" ELSE "refused"
        /\ gate'.todo = Shas(file)
        /\ gate'.offended = ShapeOffends(file)
        /\ gate'.head = gate.head
        /\ gate'.shallow = gate.shallow
        /\ gate' \in GateType
    BY <1>3, <1>7, <2>1, <2>2 DEF CheckShape, GateType
  <2>4. gate'.at = "ancestry" => Asked'
    BY <1>2, <2>3 DEF Asked, Offends, Answerable
  <2>5. file.kind # "absent"
    BY <1>7 DEF CheckShape, LedgerIInv, GateInv
  <2> QED
    BY <1>2, <1>3, <2>3, <2>4, <2>5 DEF GateInv, LedgerIInv
<1>8. CASE Probe
  <2>1. PICK n \in gate.todo :
          gate' = [gate EXCEPT !.todo = @ \ {n}, !.offended = @ \/ ~IsAncestor(n)]
    BY <1>8 DEF Probe
  <2>2. /\ gate'.at = "ancestry"
        /\ gate'.todo = gate.todo \ {n}
        /\ gate'.offended = (gate.offended \/ ~IsAncestor(n))
        /\ gate'.head = gate.head
        /\ gate'.shallow = gate.shallow
        /\ gate' \in GateType
    BY <1>3, <1>8, <2>1 DEF Probe, GateType
  <2>3. Asked
    BY <1>8 DEF Probe, LedgerIInv, GateInv
  <2>4. n \in Shas(ledger[gate.head])
    BY <1>8 DEF Probe, LedgerIInv, GateInv
  <2>5. Asked'
    BY <1>2, <2>2, <2>3, <2>4 DEF Asked, Offends, Answerable, IsAncestor
  <2>6. gate.todo \subseteq Shas(ledger[gate.head]) /\ ledger[gate.head].kind # "absent"
    BY <1>8 DEF Probe, LedgerIInv, GateInv
  <2> QED
    BY <1>2, <1>3, <2>2, <2>5, <2>6 DEF GateInv, LedgerIInv
<1>9. CASE ProbeFails
  <2>1. gate' \in GateType /\ gate'.at = "refused" /\ gate'.head = gate.head
    BY <1>3, <1>9 DEF ProbeFails, GateType
  <2> QED
    BY <1>2, <1>3, <2>1 DEF GateInv, LedgerIInv
<1>10. CASE Answer
  <2>1. /\ gate'.at = IF gate.offended THEN "red" ELSE "green"
        /\ gate'.todo = {} /\ gate.todo = {}
        /\ gate'.offended = gate.offended
        /\ gate'.head = gate.head
        /\ gate'.shallow = gate.shallow
        /\ gate' \in GateType
    BY <1>3, <1>10 DEF Answer, GateType
  <2>2. Asked
    BY <1>10 DEF Answer, LedgerIInv, GateInv
  <2>3. Asked'
    BY <1>2, <2>1, <2>2 DEF Asked, Offends, Answerable, IsAncestor
  <2>4. ledger[gate.head].kind # "absent"
    BY <1>10 DEF Answer, LedgerIInv, GateInv
  <2> QED
    BY <1>2, <1>3, <2>1, <2>3, <2>4 DEF GateInv, LedgerIInv
<1>11. CASE Again
  <2>1. gate' = Idle /\ 1 \in 1 .. last /\ 1 \in Commit
    BY <1>11, LedgerAssumption DEF Again, LedgerIInv, HistoryInv, Commit
  <2> QED
    BY <1>2, <2>1 DEF Idle, GateInv, GateType, LedgerIInv
<1> QED
  BY <1>5, <1>6, <1>7, <1>8, <1>9, <1>10, <1>11

\* Every commit, merge, checkout and probe keeps the invariant.
LEMMA LedgerStepHolds == LedgerIInv /\ [LedgerNext]_ledgerVars => LedgerIInv'
<1> SUFFICES ASSUME LedgerIInv, [LedgerNext]_ledgerVars PROVE LedgerIInv'
  OBVIOUS
<1>1. CASE LedgerNext
  BY <1>1, HistoryMoves, GateMoves DEF LedgerNext
<1>2. CASE UNCHANGED ledgerVars
  <2>1. UNCHANGED history /\ gate' = gate
    BY <1>2 DEF ledgerVars
  <2>2. HistoryInv' /\ ledger' = ledger /\ Ancestors' = Ancestors /\ last' = last
    BY <2>1, HistoryStands DEF LedgerIInv, history
  <2>3. Asked' = Asked
    BY <2>1, <2>2 DEF Asked, Offends, Answerable, IsAncestor
  <2> QED
    BY <2>1, <2>2, <2>3 DEF LedgerIInv, GateInv
<1> QED
  BY <1>1, <1>2

-----------------------------------------------------------------------------
(* What the invariant says of a verdict. *)

\* Without offence at shape or names, every record is sound, and conversely.
LEMMA AskedIsSound ==
  ASSUME LedgerIInv, Asked, gate.todo = {}, ledger[gate.head].kind # "absent"
  PROVE  gate.offended <=> ~Sound(ledger[gate.head], gate.head)
<1> DEFINE file == ledger[gate.head]
<1>1. gate.head \in Commit /\ file \in FileType /\ file.kind # "absent"
  BY DEF LedgerIInv, HistoryInv, GateInv, GateType
<1>2. Ancestors[gate.head] \subseteq Commit
  BY <1>1, AncestorsAreCommits DEF LedgerIInv, HistoryInv
<1>3. ~({Unknown, NoName, Malformed} \intersect Commit # {})
  BY LedgerAssumption DEF Commit, Unknown, NoName, Malformed
<1>4. /\ gate.offended <=> ShapeOffends(file) \/ \E n \in Shas(file) : ~IsAncestor(n)
      /\ Shas(file) # {} => ~gate.shallow
  BY DEF Asked, Offends, Answerable
<1> HIDE DEF file
<1>5. ASSUME ~ShapeOffends(file), \A n \in Shas(file) : IsAncestor(n)
      PROVE  Sound(file, gate.head)
  <2>1. file.kind = "array" /\ file.records # {}
    BY <1>1, <1>5 DEF ShapeOffends, FileType
  <2>2. ASSUME NEW r \in file.records
        PROVE  /\ r.commit \in Ancestors[gate.head]
               /\ r.testsAfterCommit \in Ancestors[gate.head] \union {NoName}
               /\ \A f \in Fields : r.form[f] = "good" \/ (f \in Optional /\ r.form[f] = "absent")
    <3>1. ~RecordOffends(r) /\ r \in RecordType
      BY <1>1, <1>5, <2>2 DEF ShapeOffends, FileType
    <3>2. r.commit \in Shas(file) /\ (r.testsAfterCommit # NoName => r.testsAfterCommit \in Shas(file))
      BY <2>2, <3>1 DEF RecordOffends, RequiredName, Shas
    <3>3. \A n \in Shas(file) : n \in Ancestors[gate.head]
      BY <1>4, <1>5 DEF IsAncestor
    <3> QED
      BY <3>1, <3>2, <3>3 DEF RecordOffends, RecordType
  <2> QED
    BY <2>1, <2>2 DEF Sound
<1>6. ASSUME Sound(file, gate.head)
      PROVE  ~ShapeOffends(file) /\ \A n \in Shas(file) : IsAncestor(n)
  <2>1. ASSUME NEW r \in file.records PROVE ~RecordOffends(r)
    BY <1>2, <1>3, <1>6, <2>1
    DEF Sound, RecordOffends, RequiredName, NoName, Malformed
  <2>2. ~ShapeOffends(file)
    BY <1>6, <2>1 DEF Sound, ShapeOffends
  <2>3. ASSUME NEW n \in Shas(file) PROVE n \in Ancestors[gate.head]
    <3>1. PICK r \in file.records : n \in {r.commit, r.testsAfterCommit}
      BY <2>3 DEF Shas
    <3> QED
      BY <1>6, <2>3, <3>1 DEF Sound, Shas
  <2> QED
    BY <1>4, <2>2, <2>3 DEF IsAncestor
<1> QED
  BY <1>4, <1>5, <1>6 DEF file

\* The gate of mutation_ledger.rs answers rightly in both directions, for any
\* history, any branch and any checkout: green only when every record is whole
\* and names ancestors of HEAD, red only when one is not, and never red for
\* what a shallow checkout hides.
THEOREM VerdictsAreTrue == LedgerSpec => []VerdictIsTrue
<1>1. LedgerIInv => VerdictIsTrue
  <2> SUFFICES ASSUME LedgerIInv PROVE VerdictIsTrue
    OBVIOUS
  <2>1. ASSUME gate.at \in {"green", "red"}
        PROVE  gate.offended <=> ~Sound(ledger[gate.head], gate.head)
    BY <2>1, AskedIsSound DEF LedgerIInv, GateInv
  <2> QED
    BY <2>1 DEF VerdictIsTrue, LedgerIInv, GateInv
<1> QED
  BY <1>1, StartHolds, LedgerStepHolds, PTL DEF LedgerSpec

=============================================================================
