----------------------------- MODULE GateProofs -----------------------------
(***************************************************************************)
(* Three gates, each for any input.  The publish gate: for any set of      *)
(* runs, any page size, any page limit and any timing, a publish or a      *)
(* "nothing else ran" refusal always rests on a listing that lost no run.  *)
(* The append-only gate: for any diff, its search pairs as many removed    *)
(* snapshots with files that carry them as can be paired, and it accepts   *)
(* the diff exactly when every snapshot survives.  The scanners under the  *)
(* gates: for any text, what they find is what a definition that reads     *)
(* nothing in order says.                                                  *)
(***************************************************************************)
EXTENDS CIGate, FrozenSnapshots, TextScanners, Induction, SequenceTheorems

-----------------------------------------------------------------------------
(* The publish gate (CIGate)                                               *)

\* Registration numbers never exceed the number of registered runs, so a
\* registered run is on the list; a listing starts from registered runs.
RegistrationInv ==
  /\ \A r \in Runs : reg[r] <= count
  /\ begun \subseteq Registered

\* The process ended exactly when it has an outcome.
EndedInv == outcome # "running" <=> pc = "done"

\* The inductive invariant of the publish gate.
IInv ==
  /\ TypeOK
  /\ RegistrationInv
  /\ EndedInv
  /\ PagingLosesNothing
  /\ PublishOnlyFromGreenListing
  /\ NoCiMeansNothingElseRan

(***************************************************************************)
(* Lemmas on the list endpoint.                                            *)
(***************************************************************************)

\* Pages are consecutive: the entries before page p + 1 are those before page
\* p and those of page p.
LEMMA NextPageOffset ==
  ASSUME NEW p \in Nat \ {0}
  PROVE  /\ ((p + 1) - 1) * PerPage = (p - 1) * PerPage + PerPage
         /\ p * PerPage = (p - 1) * PerPage + PerPage
         /\ (p - 1) * PerPage \in Nat
  BY ConstantsAssumption DEF ConstantsAssumption

\* A page never has more entries than per_page.
LEMMA PageLenBound ==
  ASSUME TypeOK, NEW p \in Nat \ {0}
  PROVE  PageLen(p) \in Nat /\ PageLen(p) <= PerPage
  BY NextPageOffset, ConstantsAssumption DEF ConstantsAssumption, PageLen, TypeOK

(***************************************************************************)
(* Type correctness.                                                       *)
(***************************************************************************)
\* The first state has its types.
LEMMA InitType == Init => TypeOK
  BY ConstantsAssumption DEF ConstantsAssumption, Init, TypeOK, Status

\* Every step keeps the types.
LEMMA StepType == TypeOK /\ [Next]_vars => TypeOK'
<1> SUFFICES ASSUME TypeOK, [Next]_vars PROVE TypeOK'
  OBVIOUS
<1> USE ConstantsAssumption DEF ConstantsAssumption, TypeOK, Status,
        github, listing, report
<1>1. ASSUME NEW r \in Runs, Register(r) PROVE TypeOK'
  BY <1>1 DEF Register
<1>2. ASSUME NEW r \in Runs, Conclude(r) PROVE TypeOK'
  BY <1>2 DEF Conclude
<1>3. ASSUME NEW r \in Runs, Rerun(r) PROVE TypeOK'
  BY <1>3 DEF Rerun
<1>4. CASE Tick \/ Start
  BY <1>4 DEF Tick, Start
<1>5. CASE FetchOwn
  BY <1>5 DEF FetchOwn, BeginListing, End, Sleep, SleepOrTimeOut, Registered
<1>6. CASE FetchPage
  <2>1. got' \in Nat
    BY <1>6, PageLenBound DEF FetchPage
  <2>2. seen' \subseteq Observation
    BY <1>6 DEF FetchPage, PageOf, Registered, Observation
  <2> QED
    BY <1>6, <2>1, <2>2 DEF FetchPage, End
<1>7. CASE FetchPageFails
  BY <1>7 DEF FetchPageFails, End, Sleep, SleepOrTimeOut
<1>8. CASE Judge
  BY <1>8 DEF Judge, End, Sleep, SleepOrTimeOut, PendingOthers
<1>9. CASE WakeUp
  BY <1>9 DEF WakeUp, BeginListing, Registered
<1>10. CASE UNCHANGED vars
  BY <1>10 DEF vars
<1> QED
  BY <1>1, <1>2, <1>3, <1>4, <1>5, <1>6, <1>7, <1>8, <1>9, <1>10
  DEF Next, Environment, Gate, Ended

\* Every state of every execution is well typed.
THEOREM TypeCorrect == Spec => []TypeOK
  BY InitType, StepType, PTL DEF Spec

(***************************************************************************)
(* The two facts about a step of the gate that the invariant turns on.     *)
(***************************************************************************)

\* Reading one page keeps PagingLosesNothing: whatever was still unseen and is
\* not on the page lies beyond it, and a complete listing leaves nothing there.
LEMMA PageReadKeepsPaging ==
  ASSUME TypeOK, RegistrationInv, PagingLosesNothing, FetchPage
  PROVE  PagingLosesNothing'
<1> USE ConstantsAssumption DEF ConstantsAssumption, TypeOK
<1> DEFINE before == (page - 1) * PerPage
           through == page * PerPage
<1>1. /\ before \in Nat
      /\ through = before + PerPage
      /\ ((page + 1) - 1) * PerPage = through
  BY NextPageOffset
<1>2. PageLen(page) \in Nat /\ PageLen(page) <= PerPage
  BY PageLenBound
<1>3. got <= before /\ \A r \in begun \ SeenRuns : Position(r) > before
  BY DEF FetchPage, PagingLosesNothing
<1>4. /\ got' = got + PageLen(page)
      /\ seen' = seen \cup {<<r, status[r]>> : r \in PageOf(page)}
      /\ UNCHANGED <<begun, reg, count>>
  BY DEF FetchPage, github
<1>5. got' <= through
  BY <1>1, <1>2, <1>3, <1>4
<1>6. SeenRuns' = SeenRuns \cup PageOf(page)
  <2>1. ASSUME NEW r \in SeenRuns' PROVE r \in SeenRuns \cup PageOf(page)
    BY <1>4, <2>1 DEF SeenRuns
  <2>2. ASSUME NEW r \in SeenRuns PROVE r \in SeenRuns'
    BY <1>4, <2>2 DEF SeenRuns
  <2>3. ASSUME NEW r \in PageOf(page) PROVE r \in SeenRuns'
    <3>1. <<r, status[r]>> \in seen' /\ <<r, status[r]>>[1] = r
      BY <1>4, <2>3
    <3> QED
      BY <3>1 DEF SeenRuns
  <2> QED
    BY <2>1, <2>2, <2>3
<1>7. ASSUME NEW r \in begun \ SeenRuns' PROVE Position(r) > through
  <2>1. r \in Registered /\ Position(r) > before /\ r \notin PageOf(page)
    BY <1>3, <1>4, <1>6, <1>7 DEF RegistrationInv
  <2>2. Position(r) \in Int
    BY <2>1 DEF Position, Registered
  <2> QED
    BY <2>1, <2>2, <1>1 DEF PageOf
<1>8. ASSUME pc' = "list"
      PROVE got' <= (page' - 1) * PerPage /\ \A r \in begun' \ SeenRuns' : Position(r)' > (page' - 1) * PerPage
  <2>1. page' = page + 1
    BY <1>8 DEF FetchPage, End
  <2>2. (page' - 1) * PerPage = through
    BY <2>1, <1>1
  <2> QED
    BY <2>2, <1>4, <1>5, <1>7 DEF Position
<1>9. ASSUME pc' = "judge" PROVE begun' \subseteq SeenRuns'
  <2>1. ListingComplete(got', PageLen(page))
    BY <1>9 DEF FetchPage, End
  <2>2. CASE got' >= count
    <3>1. ASSUME NEW r \in begun \ SeenRuns' PROVE FALSE
      <4>1. Position(r) > count
        BY <1>7, <1>5, <1>1, <1>2, <1>4, <2>2, <3>1 DEF Position, RegistrationInv, Registered
      <4> QED
        BY <4>1, <3>1 DEF Position, RegistrationInv, Registered
    <3> QED
      BY <3>1, <1>4
  <2>3. CASE PageLen(page) = 0
    <3>1. count <= before
      BY <2>3, <1>1 DEF PageLen
    <3>2. ASSUME NEW r \in begun \ SeenRuns' PROVE FALSE
      BY <3>1, <3>2, <1>1, <1>7 DEF Position, RegistrationInv, Registered
    <3> QED
      BY <3>2, <1>4
  <2> QED
    BY <2>1, <2>2, <2>3 DEF ListingComplete
<1> QED
  BY <1>8, <1>9 DEF PagingLosesNothing

\* A verdict of "pass" over a listing that holds every run of `begun` is what
\* PublishOnlyFromGreenListing asks of a publish; "noOtherCi" is what
\* NoCiMeansNothingElseRan asks of a refusal.
LEMMA VerdictOfCompleteListing ==
  ASSUME TypeOK, begun \subseteq SeenRuns
  PROVE  /\ Verdict = "pass" =>
              /\ Others # {}
              /\ \A r \in begun \ OwnRuns : <<r, "green">> \in seen
              /\ \A o \in Others : o[2] = "green"
         /\ Verdict = "noOtherCi" => begun \subseteq OwnRuns
<1>1. ASSUME NEW r \in begun \ OwnRuns
      PROVE \E s \in Status : <<r, s>> \in Others
  <2>1. PICK o \in seen : o[1] = r
    BY <1>1 DEF SeenRuns
  <2>2. o = <<r, o[2]>> /\ o[2] \in Status
    BY <2>1 DEF TypeOK, Observation
  <2> QED
    BY <1>1, <2>1, <2>2 DEF Others
<1>2. ASSUME Verdict = "pass"
      PROVE Others # {} /\ \A o \in Others : o[2] = "green"
  <2>1. /\ Others # {}
        /\ ~HasOther("unrecognized") /\ ~HasOther("red") /\ ~HasOther("pending")
    BY <1>2 DEF Verdict
  <2>2. ASSUME NEW o \in Others PROVE o[2] = "green"
    BY <2>1, <2>2 DEF HasOther, Others, TypeOK, Observation, Status
  <2> QED
    BY <2>1, <2>2
<1>3. ASSUME Verdict = "pass", NEW r \in begun \ OwnRuns
      PROVE <<r, "green">> \in seen
  <2>1. PICK s \in Status : <<r, s>> \in Others
    BY <1>1, <1>3
  <2>2. s = "green"
    BY <1>2, <1>3, <2>1
  <2> QED
    BY <2>1, <2>2 DEF Others
<1>4. ASSUME Verdict = "noOtherCi" PROVE begun \subseteq OwnRuns
  <2>1. Others = {}
    BY <1>4 DEF Verdict
  <2> QED
    BY <2>1, <1>1
<1> QED
  BY <1>2, <1>3, <1>4

(***************************************************************************)
(* The inductive invariant.                                                *)
(***************************************************************************)
\* The first state satisfies the invariant.
LEMMA InitIInv == Init => IInv
<1> SUFFICES ASSUME Init PROVE IInv
  OBVIOUS
<1>1. TypeOK
  BY InitType
<1>2. RegistrationInv
  BY DEF Init, RegistrationInv
<1> QED
  BY <1>1, <1>2 DEF Init, IInv, EndedInv, PagingLosesNothing,
     PublishOnlyFromGreenListing, NoCiMeansNothingElseRan

\* The conjuncts about an ended gate speak of variables no step changes once
\* the gate has ended, and of an outcome no step but Judge can set.
LEMMA SnapshotFrame ==
  ASSUME UNCHANGED <<seen, begun, outcome>>, PublishOnlyFromGreenListing, NoCiMeansNothingElseRan
  PROVE  PublishOnlyFromGreenListing' /\ NoCiMeansNothingElseRan'
  BY DEF PublishOnlyFromGreenListing, NoCiMeansNothingElseRan, Others

\* PagingLosesNothing survives any step that leaves the listing alone and
\* moves runs down the list, or not at all.
LEMMA PagingFrame ==
  ASSUME TypeOK, TypeOK', RegistrationInv, PagingLosesNothing,
         UNCHANGED <<pc, page, got, seen, begun>>,
         \A r \in Registered : Position(r)' >= Position(r)
  PROVE  PagingLosesNothing'
<1>1. SeenRuns' = SeenRuns
  BY DEF SeenRuns
<1>2. ASSUME pc = "list", NEW r \in begun \ SeenRuns
      PROVE Position(r)' > (page' - 1) * PerPage
  <2>1. r \in Registered /\ Position(r) > (page - 1) * PerPage
    BY <1>2 DEF PagingLosesNothing, RegistrationInv
  <2>2. Position(r)' >= Position(r) /\ Position(r) \in Int /\ Position(r)' \in Int
    BY <2>1 DEF TypeOK, Position, Registered
  <2>3. (page - 1) * PerPage \in Nat
    BY NextPageOffset DEF TypeOK
  <2> QED
    BY <2>1, <2>2, <2>3
<1> QED
  BY <1>1, <1>2 DEF PagingLosesNothing

\* Every step keeps the invariant.
LEMMA StepIInv == IInv /\ [Next]_vars => IInv'
<1> SUFFICES ASSUME IInv, [Next]_vars PROVE IInv'
  OBVIOUS
<1> USE DEF IInv
<1>0. TypeOK'
  BY StepType
<1>1. ASSUME NEW r \in Runs, Register(r) PROVE IInv'
  <2>1. RegistrationInv'
    BY <1>1 DEF Register, RegistrationInv, Registered, TypeOK, listing
  <2>2. \A q \in Registered : Position(q)' >= Position(q)
    BY <1>1 DEF Register, Registered, Position, TypeOK
  <2>3. PagingLosesNothing'
    BY <1>0, <1>1, <2>2, PagingFrame DEF Register, listing
  <2> QED
    BY <1>0, <1>1, <2>1, <2>3, SnapshotFrame DEF Register, listing, EndedInv
<1>2. ASSUME NEW r \in Runs, Conclude(r) \/ Rerun(r) PROVE IInv'
  <2>1. RegistrationInv'
    BY <1>2 DEF Conclude, Rerun, RegistrationInv, Registered, listing
  <2>2. \A q \in Registered : Position(q)' >= Position(q)
    BY <1>2 DEF Conclude, Rerun, Registered, Position, TypeOK
  <2>3. PagingLosesNothing'
    BY <1>0, <1>2, <2>2, PagingFrame DEF Conclude, Rerun, listing
  <2> QED
    BY <1>0, <1>2, <2>1, <2>3, SnapshotFrame DEF Conclude, Rerun, listing, EndedInv
<1>3. CASE Tick \/ UNCHANGED vars
  <2>1. RegistrationInv'
    BY <1>3 DEF Tick, vars, RegistrationInv, Registered, github, listing
  <2>2. \A q \in Registered : Position(q)' >= Position(q)
    BY <1>3 DEF Tick, vars, Registered, Position, TypeOK, github
  <2>3. PagingLosesNothing'
    BY <1>0, <1>3, <2>2, PagingFrame DEF Tick, vars, listing
  <2> QED
    BY <1>0, <1>3, <2>1, <2>3, SnapshotFrame DEF Tick, vars, listing, EndedInv
<1>4. ASSUME BeginListing, UNCHANGED github, outcome = "running" PROVE IInv'
  <2>1. RegistrationInv'
    BY <1>4 DEF BeginListing, RegistrationInv, Registered, github
  <2>2. PagingLosesNothing'
    <3>1. got' <= (page' - 1) * PerPage
      BY <1>4, ConstantsAssumption DEF BeginListing, ConstantsAssumption
    <3>2. ASSUME NEW r \in begun' PROVE Position(r)' > (page' - 1) * PerPage
      BY <1>4, <3>2, ConstantsAssumption
      DEF BeginListing, ConstantsAssumption, Registered, Position, RegistrationInv, TypeOK, github
    <3> QED
      BY <3>1, <3>2, <1>4 DEF BeginListing, PagingLosesNothing
  <2> QED
    BY <1>0, <1>4, <2>1, <2>2
    DEF BeginListing, EndedInv, PublishOnlyFromGreenListing, NoCiMeansNothingElseRan
<1>5. ASSUME UNCHANGED <<github, seen, begun, page, got>>, pc \in {"own", "list", "asleep"},
             \/ End("fatal") \/ SleepOrTimeOut("own") \/ SleepOrTimeOut("list")
             \/ pc' = "own" /\ UNCHANGED outcome
      PROVE IInv'
  <2>1. RegistrationInv'
    BY <1>5 DEF RegistrationInv, Registered, github
  <2>2. PagingLosesNothing'
    BY <1>5 DEF End, Sleep, SleepOrTimeOut, PagingLosesNothing
  <2>3. EndedInv' /\ outcome' \notin {"published", "noCi"}
    BY <1>5 DEF End, Sleep, SleepOrTimeOut, EndedInv
  <2> QED
    BY <1>0, <2>1, <2>2, <2>3 DEF PublishOnlyFromGreenListing, NoCiMeansNothingElseRan
<1>6. CASE FetchOwn
  BY <1>4, <1>5, <1>6 DEF FetchOwn, EndedInv, listing
<1>7. CASE FetchPage
  <2>1. RegistrationInv'
    BY <1>7 DEF FetchPage, RegistrationInv, Registered, github
  <2>2. PagingLosesNothing'
    BY <1>7, PageReadKeepsPaging
  <2>3. EndedInv' /\ outcome' \notin {"published", "noCi"}
    BY <1>7 DEF FetchPage, End, EndedInv
  <2> QED
    BY <1>0, <2>1, <2>2, <2>3 DEF PublishOnlyFromGreenListing, NoCiMeansNothingElseRan
<1>8. CASE FetchPageFails
  BY <1>5, <1>8 DEF FetchPageFails, listing
<1>9. CASE Judge
  <2>1. UNCHANGED <<reg, count, page, got, seen, begun>> /\ pc = "judge" /\ outcome = "running"
    BY <1>9 DEF Judge, github, listing, EndedInv
  <2>2. begun \subseteq SeenRuns
    BY <2>1 DEF PagingLosesNothing
  <2>3. RegistrationInv'
    BY <2>1 DEF RegistrationInv, Registered
  <2>4. EndedInv' /\ pc' \in {"asleep", "done"}
    BY <1>9, <2>1 DEF Judge, End, Sleep, SleepOrTimeOut, EndedInv
  <2>5. PagingLosesNothing'
    BY <2>4 DEF PagingLosesNothing
  <2>6. /\ outcome' = "published" => Verdict = "pass"
        /\ outcome' = "noCi" => Verdict = "noOtherCi"
    BY <1>9, <2>1 DEF Judge, End, Sleep, SleepOrTimeOut
  <2>7. PublishOnlyFromGreenListing' /\ NoCiMeansNothingElseRan'
    BY <2>1, <2>2, <2>6, VerdictOfCompleteListing
    DEF PublishOnlyFromGreenListing, NoCiMeansNothingElseRan, Others
  <2> QED
    BY <1>0, <2>3, <2>4, <2>5, <2>7
<1>10. CASE WakeUp
  BY <1>4, <1>5, <1>10 DEF WakeUp, EndedInv, listing
<1>11. CASE Start
  <2>1. RegistrationInv'
    BY <1>11 DEF Start, RegistrationInv, Registered, github, listing
  <2>2. PagingLosesNothing'
    BY <1>11 DEF Start, PagingLosesNothing
  <2> QED
    BY <1>0, <1>11, <2>1, <2>2, SnapshotFrame DEF Start, listing, EndedInv
<1> QED
  BY <1>1, <1>2, <1>3, <1>6, <1>7, <1>8, <1>9, <1>10, <1>11
  DEF Next, Environment, Gate, Ended

(***************************************************************************)
(* The theorems.                                                           *)
(***************************************************************************)
\* The invariant holds for ever.
LEMMA Invariance == Spec => []IInv
  BY InitIInv, StepIInv, PTL DEF Spec

\* However the pages shift under the gate, a publish rests on a green
\* observation of every other run registered when its listing began.
THEOREM PublishIsFromGreenListing == Spec => []PublishOnlyFromGreenListing
<1>1. IInv => PublishOnlyFromGreenListing
  BY DEF IInv
<1> QED
  BY <1>1, Invariance, PTL

\* The gate never says "nothing else ran" of a commit something else ran on
\* when it began to look.
THEOREM NoCiIsTrue == Spec => []NoCiMeansNothingElseRan
<1>1. IInv => NoCiMeansNothingElseRan
  BY DEF IInv
<1> QED
  BY <1>1, Invariance, PTL

\* A listing read page by page loses no run.
THEOREM PagingIsComplete == Spec => []PagingLosesNothing
<1>1. IInv => PagingLosesNothing
  BY DEF IInv
<1> QED
  BY <1>1, Invariance, PTL

(***************************************************************************)
(* What a timeout names.  Until the gate knows its own workflow it has no  *)
(* listing to answer from.                                                 *)
(***************************************************************************)
AnswerInv ==
  pc \in {"queued", "own"} \/ (pc = "asleep" /\ resume = "own") => answer = "none"

CauseInv == AnswerInv /\ TimeoutHasCause

\* A step of GitHub or of the clock gives no timeout another cause.
LEMMA CauseFrame ==
  ASSUME CauseInv, UNCHANGED <<pc, resume, outcome, report>>
  PROVE  CauseInv'
  BY DEF CauseInv, AnswerInv, TimeoutHasCause, report

\* Every step keeps the reason of a timeout: the listing it names was judged
\* last.
LEMMA StepCause ==
  ASSUME Grace <= Deadline, TypeOK, EndedInv, CauseInv, [Next]_vars
  PROVE  CauseInv'
<1>1. CASE Environment \/ Tick \/ UNCHANGED vars
  BY <1>1, CauseFrame DEF Environment, Register, Conclude, Rerun, Tick, vars
<1>2. CASE Start
  BY <1>2 DEF Start, CauseInv, AnswerInv, TimeoutHasCause, report
<1>3. CASE FetchOwn
  BY <1>3 DEF FetchOwn, BeginListing, End, SleepOrTimeOut, Sleep, EndedInv, CauseInv, AnswerInv,
              TimeoutHasCause, report
<1>4. CASE FetchPage
  BY <1>4 DEF FetchPage, End, EndedInv, CauseInv, AnswerInv, TimeoutHasCause, report
<1>5. CASE FetchPageFails
  BY <1>5 DEF FetchPageFails, End, SleepOrTimeOut, Sleep, EndedInv, CauseInv, AnswerInv,
              TimeoutHasCause
<1>6. CASE WakeUp
  <2>1. pc' = "list" \/ (pc' = "own" /\ pc = "asleep" /\ resume = "own")
    BY <1>6 DEF WakeUp, BeginListing, TypeOK
  <2>2. UNCHANGED <<lastWait, judged, answer, outcome>>
    BY <1>6 DEF WakeUp, BeginListing, report
  <2> QED
    BY <2>1, <2>2 DEF CauseInv, AnswerInv, TimeoutHasCause
<1>7. CASE Judge
  <2>0. pc = "judge" /\ outcome = "running" /\ judged' = seen
    BY <1>7 DEF Judge, EndedInv
  <2>1. AnswerInv'
    BY <1>7 DEF Judge, End, SleepOrTimeOut, Sleep, AnswerInv
  <2>2. outcome' = "timeout" => Verdict = "wait"
    <3>1. ASSUME WithinGrace, SleepOrTimeOut("list") PROVE outcome' # "timeout"
      BY <2>0, <3>1, ConstantsAssumption
      DEF WithinGrace, SleepOrTimeOut, Sleep, TypeOK, ConstantsAssumption
    <3> QED
      BY <1>7, <2>0, <3>1 DEF Judge, End
  <2>3. Verdict = "wait" => lastWait' = PendingOthers /\ PendingOthers # {}
    <3>1. HasOther("pending") => PendingOthers # {}
      <4> SUFFICES ASSUME NEW o \in Others, o[2] = "pending" PROVE PendingOthers # {}
        BY DEF HasOther
      <4>1. o = <<o[1], "pending">> /\ o[1] \in Runs /\ o[1] \notin OwnRuns /\ o \in seen
        BY DEF Others, TypeOK, Observation
      <4> QED
        BY <4>1 DEF PendingOthers
    <3> QED
      BY <1>7, <3>1 DEF Judge, Verdict
  <2> QED
    BY <2>0, <2>1, <2>2, <2>3 DEF CauseInv, TimeoutHasCause, PendingOthers
<1>8. CASE Ended
  BY <1>8, CauseFrame DEF Ended, vars
<1> QED
  BY <1>1, <1>2, <1>3, <1>4, <1>5, <1>6, <1>7, <1>8 DEF Next, Gate

\* The gate never waits on itself: with a deadline that is not shorter than the
\* grace period (7200 and 120 seconds by default in main.rs), a timeout after a
\* listing that was read to its end names other runs, each pending in that very
\* listing.
THEOREM TimeoutsHaveCause == ASSUME Grace <= Deadline PROVE Spec => []TimeoutHasCause
<1>1. Init => CauseInv
  BY DEF Init, CauseInv, AnswerInv, TimeoutHasCause
<1>2. (IInv /\ CauseInv) /\ [Next]_vars => CauseInv'
  BY StepCause DEF IInv
<1>3. CauseInv => TimeoutHasCause
  BY DEF CauseInv
<1> QED
  BY <1>1, <1>2, <1>3, Invariance, PTL DEF Spec

-----------------------------------------------------------------------------
(* The append-only gate (FrozenSnapshots)                                  *)

\* The added files and the removed snapshots, by their place in the diff.
Files == 1..Len(added)
Gone == 1..Len(deleted)

\* Every list and every text of the diff is a sequence.
DiffLists ==
  /\ deleted \in Seq(Range(deleted)) /\ added \in Seq(Range(added))
  /\ modified \in Seq(Range(modified))
  /\ \A i \in DOMAIN deleted : deleted[i].content \in Contents
  /\ \A i \in DOMAIN added : added[i].content \in Contents
  /\ \A i \in DOMAIN modified : modified[i].base \in Contents /\ modified[i].head \in Contents

\* The types of the search's state.
SearchTypes ==
  /\ next \in 1..(Len(deleted) + 1)
  /\ carrier \in [Files -> Gone \cup {Nobody}]
  /\ visited \subseteq Files
  /\ calls \in Seq([snapshot : Gone, tried : 0..Len(added)])

\* `carrier` pairs deletions already treated with files that carry them.
PairInv ==
  /\ \A a \in Files : carrier[a] # Nobody => carrier[a] < next /\ a \in Carries(carrier[a])
  /\ \A a, b \in Files : carrier[a] = carrier[b] => a = b \/ carrier[a] = Nobody

\* The calls are a path: each call but the innermost waits for the snapshot of
\* the file it tries to be re-homed by the call after it. A call has visited
\* what its loop has passed.
PathInv ==
  calls # <<>> =>
    /\ next <= Len(deleted)
    /\ calls[1].snapshot = next
    /\ \A k \in 1..Len(calls) : \A b \in Carries(calls[k].snapshot) :
         b <= calls[k].tried => b \in visited
    /\ \A k \in 1..(Len(calls) - 1) :
         /\ calls[k].tried \in visited \cap Carries(calls[k].snapshot)
         /\ carrier[calls[k].tried] = calls[k + 1].snapshot
    /\ \A j, k \in 1..(Len(calls) - 1) : calls[j].tried = calls[k].tried => j = k

\* A visited file carries a snapshot; unless a call waits for that snapshot to
\* be re-homed, all the files that could carry it have been visited.
VisitedInv ==
  calls # <<>> => \A a \in visited :
    /\ carrier[a] # Nobody
    /\ Carries(carrier[a]) \subseteq visited \/ \E k \in 1..(Len(calls) - 1) : calls[k].tried = a

\* Files that all carry a snapshot none of the others could take, and that are
\* all a deletion left unpaired could be carried by.
DeadEnd(S) ==
  /\ \A a \in S : carrier[a] # Nobody /\ Carries(carrier[a]) \subseteq S
  /\ \A d \in (1..(next - 1)) \ Renamed : Carries(d) \subseteq S
DeadEndInv == \E S \in SUBSET Files : DeadEnd(S)

\* The inductive invariant of the search.
SearchInv == DiffLists /\ SearchTypes /\ PairInv /\ PathInv /\ VisitedInv /\ DeadEndInv

\* The number of files and of deletions.
LEMMA DiffNumbers ==
  ASSUME DiffLists
  PROVE  /\ Len(added) \in Nat /\ Len(deleted) \in Nat /\ Len(modified) \in Nat
         /\ DOMAIN added = Files /\ DOMAIN deleted = Gone
         /\ DOMAIN modified = 1..Len(modified)
         /\ Nobody \notin Gone
  BY SnapshotsAssumption, LenProperties DEF DiffLists, Files, Gone, SnapshotsAssumption

\* No pairing has started in the first state.
LEMMA SearchStarts == DiffInit => SearchInv
<1> SUFFICES ASSUME DiffInit PROVE SearchInv
  OBVIOUS
<1>1. DiffLists
  BY SnapshotsAssumption DEF SnapshotsAssumption, DiffInit, DiffLists
<1>2. SearchTypes
  BY <1>1, DiffNumbers, EmptySeq DEF DiffInit, SearchTypes, Files, Gone
<1>3. PairInv /\ PathInv /\ VisitedInv
  BY <1>1, DiffNumbers DEF DiffInit, PairInv, PathInv, VisitedInv, Files
<1>4. DeadEnd({})
  BY <1>1, DiffNumbers DEF DiffInit, DeadEnd
<1> QED
  BY <1>1, <1>2, <1>3, <1>4 DEF SearchInv, DeadEndInv

\* Which files could carry a deletion does not depend on the search.
LEMMA CarriesStands ==
  ASSUME UNCHANGED diff
  PROVE  /\ Files' = Files /\ Gone' = Gone
         /\ \A d \in Gone : Carries(d)' = Carries(d)
         /\ \A d \in Gone : Carries(d) \subseteq Files
         /\ DiffLists => DiffLists'
  BY DEF diff, Files, Gone, Carries, DiffLists

\* A dead end is one of the diff and the pairing alone.
LEMMA DeadEndStands ==
  ASSUME UNCHANGED diff, UNCHANGED carrier, UNCHANGED next, DeadEndInv
  PROVE  DeadEndInv'
<1>1. PICK S \in SUBSET Files : DeadEnd(S)
  BY DEF DeadEndInv
<1>2. Files' = Files /\ Renamed' = Renamed /\ \A d : Carries(d)' = Carries(d)
  BY DEF diff, Files, Renamed, Carries
<1>3. \A a \in S : carrier'[a] # Nobody /\ Carries(carrier[a])' = Carries(carrier[a])
  BY <1>1 DEF DeadEnd, diff, Carries
<1>4. DeadEnd(S)'
  BY <1>1, <1>2, <1>3 DEF DeadEnd
<1> QED
  BY <1>1, <1>2, <1>4 DEF DeadEndInv

\* So are the pairs.
LEMMA PairsStand ==
  ASSUME UNCHANGED diff, UNCHANGED carrier, UNCHANGED next, PairInv
  PROVE  PairInv'
  BY DEF diff, PairInv, Carries, Files

\* A search starts with the deletion whose turn it is and nothing visited.
LEMMA StartSearchKeeps ==
  ASSUME SearchInv, StartSearch
  PROVE  SearchInv'
<1> USE DEF SearchInv
<1>1. UNCHANGED diff /\ UNCHANGED carrier /\ UNCHANGED next
  BY DEF StartSearch
<1>2. Len(added) \in Nat /\ Len(deleted) \in Nat /\ next \in Gone
  BY DiffNumbers DEF StartSearch, SearchTypes, Gone
<1>3. /\ calls' = <<CallFor(next)>>
      /\ CallFor(next) \in [snapshot : Gone, tried : 0..Len(added)]
      /\ visited' = {}
  BY <1>2 DEF StartSearch, CallFor
<1>4. Len(calls') = 1 /\ calls'[1].snapshot = next /\ calls'[1].tried = 0
  BY <1>3 DEF CallFor
<1>5. calls' \in Seq([snapshot : Gone, tried : 0..Len(added)])
  BY <1>3
<1>6. SearchTypes'
  BY <1>1, <1>3, <1>5, CarriesStands DEF SearchTypes, diff
<1>7. PairInv'
  BY <1>1, PairsStand
<1>8. PathInv'
  BY <1>1, <1>2, <1>4, CarriesStands DEF PathInv, diff, Gone, Files
<1>9. VisitedInv'
  BY <1>3 DEF VisitedInv
<1>10. DeadEndInv'
  BY <1>1, DeadEndStands
<1> QED
  BY <1>1, <1>6, <1>7, <1>8, <1>9, <1>10, CarriesStands

\* The innermost call, and what its loop has left.
LEMMA InnermostCall ==
  ASSUME SearchInv, calls # <<>>
  PROVE  /\ Len(calls) \in Nat \ {0}
         /\ Innermost \in [snapshot : Gone, tried : 0..Len(added)]
         /\ Innermost = calls[Len(calls)]
         /\ \A k \in 1..Len(calls) : calls[k] \in [snapshot : Gone, tried : 0..Len(added)]
         /\ Untried \subseteq Carries(Innermost.snapshot) \ visited
         /\ Carries(Innermost.snapshot) \subseteq Files
<1> DEFINE Frame == [snapshot : Gone, tried : 0..Len(added)]
<1>1. calls \in Seq(Frame)
  BY DEF SearchInv, SearchTypes
<1> HIDE DEF Frame
<1>2. Len(calls) \in Nat \ {0}
  BY <1>1, LenProperties, EmptySeq
<1>3. \A k \in 1..Len(calls) : calls[k] \in Frame
  BY <1>1, ElementOfSeq
<1>4. Innermost \in Frame
  BY <1>2, <1>3 DEF Innermost
<1>5. /\ Untried \subseteq Carries(Innermost.snapshot) \ visited
      /\ Carries(Innermost.snapshot) \subseteq Files
  BY DEF Untried, Carries, Files
<1> QED
  BY <1>2, <1>3, <1>4, <1>5 DEF Innermost, Frame

\* The path with the file tried next at its end: every call tries a visited
\* file that could carry its snapshot, no two the same.
IsPath(path) ==
  /\ Len(path) = Len(calls) /\ path \in Seq([snapshot : Gone, tried : 0..Len(added)])
  /\ path[1].snapshot = next
  /\ \A k \in 1..Len(calls) :
       /\ path[k].snapshot = calls[k].snapshot
       /\ path[k].tried \in Carries(path[k].snapshot)
       /\ path[k].tried \in Files
  /\ \A k \in 1..(Len(calls) - 1) :
       /\ path[k].tried = calls[k].tried
       /\ path[k].tried \in visited
       /\ carrier[path[k].tried] = path[k + 1].snapshot
  /\ \A j, k \in 1..Len(calls) : path[j].tried = path[k].tried => j = k

\* The innermost call with the file it tries ends such a path.
LEMMA TryingIsPath ==
  ASSUME SearchInv, calls # <<>>, NEW a \in Untried
  PROVE  /\ IsPath(Trying(a))
         /\ Trying(a)[Len(calls)].tried = a
<1> DEFINE path == Trying(a)
           K == Len(calls)
           Frame == [snapshot : Gone, tried : 0..Len(added)]
<1>1. /\ K \in Nat \ {0} /\ calls \in Seq(Frame)
      /\ a \in Carries(calls[K].snapshot) /\ a \notin visited /\ a \in Files
      /\ a \in 0..Len(added) /\ DOMAIN calls = 1..K
  BY InnermostCall, DiffNumbers, LenProperties DEF SearchInv, SearchTypes, Files
<1>2. calls[K] \in Frame
  BY InnermostCall, <1>1
<1>3. /\ [calls[K] EXCEPT !.tried = a] \in Frame
      /\ [calls[K] EXCEPT !.tried = a].snapshot = calls[K].snapshot
      /\ [calls[K] EXCEPT !.tried = a].tried = a
  BY <1>1, <1>2
<1>4. path = [calls EXCEPT ![K] = [calls[K] EXCEPT !.tried = a]]
  BY DEF Trying
<1>5. SearchInv
  OBVIOUS
<1>6. K = Len(calls)
  OBVIOUS
<1> HIDE DEF path, K, Frame
<1>7. /\ path \in Seq(Frame) /\ Len(path) = K
      /\ path[K] = [calls[K] EXCEPT !.tried = a]
      /\ \A k \in 1..(K - 1) : path[k] = calls[k]
  BY <1>1, <1>3, <1>4, <1>6, ExceptSeq
<1>8. /\ path[K].snapshot = calls[K].snapshot
      /\ path[K].tried = a
      /\ \A k \in 1..K : path[k].snapshot = calls[k].snapshot
  <2>1. path[K].snapshot = calls[K].snapshot /\ path[K].tried = a
    BY <1>3, <1>7
  <2>2. ASSUME NEW k \in 1..K PROVE path[k].snapshot = calls[k].snapshot
    <3>1. CASE k = K
      BY <3>1, <2>1
    <3>2. CASE k \in 1..(K - 1)
      BY <3>2, <1>7
    <3> QED
      BY <1>1, <3>1, <3>2
  <2> QED
    BY <2>1, <2>2
<1>10. /\ calls[1].snapshot = next
       /\ \A k \in 1..(K - 1) :
            /\ calls[k].tried \in visited \cap Carries(calls[k].snapshot)
            /\ carrier[calls[k].tried] = calls[k + 1].snapshot
       /\ \A j, k \in 1..(K - 1) : calls[j].tried = calls[k].tried => j = k
       /\ visited \subseteq Files
  BY <1>5, <1>6 DEF SearchInv, PathInv, SearchTypes
<1>11. \A k \in 1..(K - 1) :
         /\ path[k].tried = calls[k].tried
         /\ path[k].tried \in visited
         /\ path[k].tried \in Carries(path[k].snapshot)
         /\ carrier[path[k].tried] = path[k + 1].snapshot
  <2>1. ASSUME NEW k \in 1..(K - 1)
        PROVE  /\ path[k].tried = calls[k].tried
               /\ path[k].snapshot = calls[k].snapshot
               /\ path[k + 1].snapshot = calls[k + 1].snapshot
    BY <1>1, <1>7, <1>8
  <2> QED
    BY <1>10, <2>1
<1>12. path[1].snapshot = next
  BY <1>1, <1>8, <1>10
<1>13. \A k \in 1..K : path[k].tried \in Carries(path[k].snapshot) /\ path[k].tried \in Files
  <2>1. ASSUME NEW k \in 1..K
        PROVE  path[k].tried \in Carries(path[k].snapshot) /\ path[k].tried \in Files
    <3>1. CASE k = K
      BY <3>1, <1>1, <1>8
    <3>2. CASE k \in 1..(K - 1)
      BY <3>2, <1>10, <1>11
    <3> QED
      BY <1>1, <3>1, <3>2
  <2> QED
    BY <2>1
<1>9. \A j, k \in 1..K : path[j].tried = path[k].tried => j = k
  <2>1. \A j \in 1..(K - 1) : path[j].tried # a
    BY <1>1, <1>11
  <2>2. ASSUME NEW j \in 1..K, NEW k \in 1..K, path[j].tried = path[k].tried
        PROVE  j = k
    <3>1. CASE j = K \/ k = K
      BY <3>1, <1>1, <1>8, <2>1, <2>2
    <3>2. CASE j \in 1..(K - 1) /\ k \in 1..(K - 1)
      BY <3>2, <1>10, <1>11, <2>2
    <3> QED
      BY <1>1, <3>1, <3>2
  <2> QED
    BY <2>2
<1> QED
  BY <1>6, <1>7, <1>8, <1>9, <1>11, <1>12, <1>13 DEF IsPath, path, Frame

\* The snapshots of a path move to the files it tries; other files keep theirs.
LEMMA Rehoming ==
  ASSUME SearchInv, calls # <<>>, NEW path, IsPath(path)
  PROVE  /\ Rehomed(path) \in [Files -> Gone \cup {Nobody}]
         /\ \A k \in 1..Len(calls) : Rehomed(path)[path[k].tried] = path[k].snapshot
         /\ \A b \in Files : (\A k \in 1..Len(calls) : path[k].tried # b)
                                => Rehomed(path)[b] = carrier[b]
<1> DEFINE Frame == [snapshot : Gone, tried : 0..Len(added)]
           Tries(k, b) == path[k].tried = b
<1>1. DOMAIN path = 1..Len(calls) /\ \A k \in 1..Len(calls) : path[k] \in Frame
  <2>1. path \in Seq(Frame) /\ Len(path) = Len(calls)
    BY DEF IsPath
  <2> HIDE DEF Frame
  <2> QED
    BY <2>1, ElementOfSeq, LenProperties
<1>2. \A k \in 1..Len(calls) : path[k].snapshot \in Gone
  BY <1>1
<1>3. /\ \A k \in 1..Len(calls) : path[k].tried \in Files
      /\ \A j, k \in 1..Len(calls) : path[j].tried = path[k].tried => j = k
  BY DEF IsPath
<1>4. carrier \in [Files -> Gone \cup {Nobody}]
  BY DEF SearchInv, SearchTypes
<1>5. Rehomed(path) = [b \in Files |->
         IF \E k \in 1..Len(calls) : path[k].tried = b
         THEN path[CHOOSE k \in 1..Len(calls) : path[k].tried = b].snapshot
         ELSE carrier[b]]
  BY <1>1 DEF Rehomed, Files
<1>6. ASSUME NEW b \in Files, NEW k \in 1..Len(calls), path[k].tried = b
      PROVE  Rehomed(path)[b] = path[k].snapshot
  <2>1. (CHOOSE j \in 1..Len(calls) : path[j].tried = b) = k
    BY <1>3, <1>6
  <2>2. Rehomed(path)[b] = path[CHOOSE j \in 1..Len(calls) : path[j].tried = b].snapshot
    <3>1. Rehomed(path)[b] = IF \E j \in 1..Len(calls) : path[j].tried = b
                             THEN path[CHOOSE j \in 1..Len(calls) : path[j].tried = b].snapshot
                             ELSE carrier[b]
      BY <1>5, Zenon
    <3>2. \E j \in 1..Len(calls) : path[j].tried = b
      BY <1>6
    <3> QED
      BY <3>1, <3>2, Zenon
  <2> QED
    BY <2>1, <2>2
<1>7. ASSUME NEW b \in Files, \A k \in 1..Len(calls) : path[k].tried # b
      PROVE  Rehomed(path)[b] = carrier[b]
  BY <1>5, <1>7
<1>8. ASSUME NEW b \in Files PROVE Rehomed(path)[b] \in Gone \cup {Nobody}
  BY <1>2, <1>4, <1>6, <1>7
<1>9. \A k \in 1..Len(calls) : Rehomed(path)[path[k].tried] = path[k].snapshot
  BY <1>3, <1>6
<1>10. Rehomed(path) \in [Files -> Gone \cup {Nobody}]
  BY <1>5, <1>8
<1> QED
  BY <1>7, <1>9, <1>10

\* A call's snapshot is the next one to pair, or carried by the file the call
\* before it tries; no two calls place the same.
LEMMA PathSnapshots ==
  ASSUME SearchInv, calls # <<>>, NEW path, IsPath(path)
  PROVE  /\ Len(calls) \in Nat \ {0}
         /\ next \in Gone
         /\ \A k \in 2..Len(calls) :
              /\ k - 1 \in 1..(Len(calls) - 1)
              /\ carrier[path[k - 1].tried] = path[k].snapshot
              /\ path[k - 1].tried \in Files
              /\ carrier[path[k - 1].tried] # Nobody
              /\ path[k].snapshot < next
         /\ \A j, k \in 1..Len(calls) : path[j].snapshot = path[k].snapshot => j = k
<1> DEFINE K == Len(calls)
<1>1. K \in Nat \ {0} /\ next \in Gone /\ path[1].snapshot = next
  BY InnermostCall, DiffNumbers DEF SearchInv, SearchTypes, PathInv, IsPath, Gone
<1>2. /\ \A k \in 1..(K - 1) : /\ carrier[path[k].tried] = path[k + 1].snapshot
                               /\ path[k].tried \in visited
      /\ \A k \in 1..K : path[k].tried \in Files
      /\ \A j, k \in 1..K : path[j].tried = path[k].tried => j = k
  BY DEF IsPath
<1>3. \A b \in visited : carrier[b] # Nobody
  BY DEF SearchInv, VisitedInv
<1>4. /\ \A b \in Files : carrier[b] # Nobody => carrier[b] < next
      /\ \A a, b \in Files : carrier[a] = carrier[b] => a = b \/ carrier[a] = Nobody
  BY DEF SearchInv, PairInv
<1> HIDE DEF K
<1>5. ASSUME NEW k \in 2..K
      PROVE  /\ k - 1 \in 1..(K - 1)
             /\ carrier[path[k - 1].tried] = path[k].snapshot
             /\ path[k - 1].tried \in Files
             /\ carrier[path[k - 1].tried] # Nobody
             /\ path[k].snapshot < next
  <2>1. k - 1 \in 1..(K - 1) /\ (k - 1) + 1 = k /\ k - 1 \in 1..K
    BY <1>1, <1>5
  <2>2. carrier[path[k - 1].tried] = path[k].snapshot /\ path[k - 1].tried \in visited
    BY <1>2, <2>1
  <2> QED
    BY <1>2, <1>3, <1>4, <2>1, <2>2
<1>6. ASSUME NEW j \in 1..K, NEW k \in 1..K, path[j].snapshot = path[k].snapshot
      PROVE  j = k
  <2>1. CASE j = 1 \/ k = 1
    <3>1. \A i \in 2..K : path[i].snapshot # path[1].snapshot
      BY <1>1, <1>5 DEF Gone
    <3> QED
      BY <1>1, <1>6, <2>1, <3>1
  <2>2. CASE j \in 2..K /\ k \in 2..K
    <3>1. path[j - 1].tried = path[k - 1].tried
      BY <1>4, <1>5, <1>6, <2>2
    <3>2. j - 1 \in 1..K /\ k - 1 \in 1..K
      BY <1>1, <2>2
    <3>3. j - 1 = k - 1
      BY <1>2, <3>1, <3>2
    <3> QED
      BY <1>1, <3>3
  <2> QED
    BY <1>1, <2>1, <2>2
<1> QED
  BY <1>1, <1>5, <1>6 DEF K

\* A path that ends at a free file meets no dead end: a file of a dead end
\* carries a snapshot whose other files are all in it, down to the last.
LEMMA PathAvoidsDeadEnds ==
  ASSUME SearchInv, calls # <<>>, NEW path, IsPath(path),
         carrier[path[Len(calls)].tried] = Nobody,
         NEW S \in SUBSET Files, DeadEnd(S)
  PROVE  \A k \in 1..Len(calls) : path[k].tried \notin S
<1> DEFINE K == Len(calls)
           T == {n \in Nat : n < K => path[K - n].tried \notin S}
<1>1. K \in Nat \ {0}
  BY InnermostCall
<1>2. /\ \A k \in 1..K : path[k].tried \in Carries(path[k].snapshot)
      /\ \A k \in 1..(K - 1) : carrier[path[k].tried] = path[k + 1].snapshot
  BY DEF IsPath
<1>3. \A a \in S : carrier[a] # Nobody /\ Carries(carrier[a]) \subseteq S
  BY DEF DeadEnd
<1>4. carrier[path[K].tried] = Nobody
  OBVIOUS
<1> HIDE DEF K
<1>5. 0 \in T
  BY <1>1, <1>3, <1>4
<1>6. ASSUME NEW n \in Nat, n \in T PROVE n + 1 \in T
  <2>1. SUFFICES ASSUME n + 1 < K, path[K - (n + 1)].tried \in S PROVE FALSE
    BY DEF T
  <2> DEFINE k == K - (n + 1)
  <2>2. k \in 1..(K - 1) /\ k + 1 \in 1..K /\ k + 1 = K - n
    BY <1>1, <2>1
  <2>3. path[k].tried \in S
    BY <2>1
  <2>4. path[k + 1].tried \notin S
    BY <1>1, <1>6, <2>1, <2>2
  <2> HIDE DEF k
  <2>5. Carries(path[k + 1].snapshot) \subseteq S
    BY <1>2, <1>3, <2>2, <2>3
  <2> QED
    BY <1>2, <2>2, <2>4, <2>5
<1> HIDE DEF T
<1>7. Nat \subseteq T
  BY <1>5, <1>6, SetInduction
<1>8. ASSUME NEW k \in 1..K PROVE path[k].tried \notin S
  <2>1. K - k \in Nat /\ K - k < K /\ K - (K - k) = k
    BY <1>1
  <2>2. K - k \in T
    BY <1>7, <2>1
  <2> QED
    BY <2>1, <2>2 DEF T
<1> QED
  BY <1>8 DEF K

\* A search that finds a free file pairs its deletion, and keeps every pair in
\* one file or another.
LEMMA TakeFreeKeeps ==
  ASSUME SearchInv, TryNext, NEW a \in Untried, TakeFree(a)
  PROVE  SearchInv'
<1> DEFINE path == Trying(a)
           K == Len(calls)
<1>1. /\ calls # <<>> /\ UNCHANGED diff /\ carrier[a] = Nobody
      /\ carrier' = Rehomed(path) /\ next' = next + 1 /\ calls' = <<>>
      /\ visited' \subseteq Files
  <2>1. Untried \subseteq Files /\ visited \subseteq Files
    BY InnermostCall DEF SearchInv, SearchTypes, TryNext
  <2> QED
    BY <2>1 DEF TryNext, TakeFree
<1>2. IsPath(path) /\ path[K].tried = a
  BY <1>1, TryingIsPath
<1> HIDE DEF path
<1>3. /\ carrier' \in [Files -> Gone \cup {Nobody}]
      /\ \A k \in 1..K : carrier'[path[k].tried] = path[k].snapshot
      /\ \A b \in Files : (\A k \in 1..K : path[k].tried # b) => carrier'[b] = carrier[b]
  BY <1>1, <1>2, Rehoming
<1>4. /\ K \in Nat \ {0} /\ next \in Gone
      /\ \A k \in 2..K : /\ k - 1 \in 1..(K - 1)
                         /\ carrier[path[k - 1].tried] = path[k].snapshot
                         /\ path[k - 1].tried \in Files
                         /\ carrier[path[k - 1].tried] # Nobody
                         /\ path[k].snapshot < next
      /\ \A j, k \in 1..K : path[j].snapshot = path[k].snapshot => j = k
  BY <1>1, <1>2, PathSnapshots
<1>5. /\ path[1].snapshot = next
      /\ \A k \in 1..K : path[k].tried \in Carries(path[k].snapshot) /\ path[k].tried \in Files
  BY <1>2 DEF IsPath
<1>6. /\ \A b \in Files : carrier[b] # Nobody => carrier[b] < next /\ b \in Carries(carrier[b])
      /\ \A b, c \in Files : carrier[b] = carrier[c] => b = c \/ carrier[b] = Nobody
      /\ carrier \in [Files -> Gone \cup {Nobody}]
  BY DEF SearchInv, PairInv, SearchTypes
<1>7. Files' = Files /\ Gone' = Gone /\ \A d : Carries(d)' = Carries(d)
  BY <1>1 DEF diff, Files, Gone, Carries
<1>8. Len(added) \in Nat /\ Len(deleted) \in Nat /\ Nobody \notin Gone /\ DiffLists'
  BY <1>1, DiffNumbers, CarriesStands DEF SearchInv
<1> HIDE DEF K
\* Where a snapshot is after the step: on the path, or where it was.
<1>9. ASSUME NEW b \in Files
      PROVE  \/ \E k \in 1..K : path[k].tried = b /\ carrier'[b] = path[k].snapshot
             \/ /\ carrier'[b] = carrier[b]
                /\ \A k \in 1..K : path[k].tried # b
  BY <1>3
<1>10. \A k \in 1..K : path[k].snapshot \in Gone /\ path[k].snapshot <= next
  <2>1. \A k \in 1..K : carrier'[path[k].tried] \in Gone \cup {Nobody}
    BY <1>3, <1>5
  <2>2. \A k \in 2..K : path[k].snapshot # Nobody
    BY <1>4
  <2>3. ASSUME NEW k \in 1..K PROVE path[k].snapshot \in Gone /\ path[k].snapshot <= next
    <3>1. CASE k = 1
      BY <3>1, <1>4, <1>5 DEF Gone
    <3>2. CASE k \in 2..K
      BY <3>2, <1>3, <1>4, <2>1, <2>2 DEF Gone
    <3> QED
      BY <1>4, <3>1, <3>2
  <2> QED
    BY <2>3
<1>11. PairInv'
  <2>1. ASSUME NEW b \in Files, carrier'[b] # Nobody
        PROVE  carrier'[b] < next' /\ b \in Carries(carrier'[b])
    <3>1. CASE carrier'[b] = carrier[b]
      <4>1. carrier[b] \in Gone /\ carrier[b] < next /\ b \in Carries(carrier[b])
        BY <1>6, <2>1, <3>1
      <4> QED
        BY <1>1, <1>4, <3>1, <4>1 DEF Gone
    <3>2. ASSUME NEW k \in 1..K, path[k].tried = b, carrier'[b] = path[k].snapshot
          PROVE  carrier'[b] < next' /\ b \in Carries(carrier'[b])
      BY <1>1, <1>4, <1>5, <1>10, <3>2 DEF Gone
    <3> QED
      BY <1>9, <3>1, <3>2
  <2>2. ASSUME NEW b \in Files, NEW k \in 1..K, \A j \in 1..K : path[j].tried # b,
               carrier[b] = path[k].snapshot
        PROVE  FALSE
    <3>1. CASE k = 1
      BY <1>4, <1>5, <1>6, <1>8, <2>2, <3>1 DEF Gone
    <3>2. CASE k \in 2..K
      BY <1>4, <1>6, <2>2, <3>2
    <3> QED
      BY <1>4, <3>1, <3>2
  <2>3. ASSUME NEW b \in Files, NEW c \in Files, carrier'[b] = carrier'[c]
        PROVE  b = c \/ carrier'[b] = Nobody
    <3>1. CASE (\A k \in 1..K : path[k].tried # b) /\ (\A k \in 1..K : path[k].tried # c)
      BY <1>3, <1>6, <2>3, <3>1
    <3>2. ASSUME NEW j \in 1..K, path[j].tried = b, NEW k \in 1..K, path[k].tried = c
          PROVE  b = c
      BY <1>3, <1>4, <2>3, <3>2
    <3>3. ASSUME NEW j \in 1..K, path[j].tried = b, \A k \in 1..K : path[k].tried # c
          PROVE  FALSE
      BY <1>3, <2>2, <2>3, <3>3
    <3>4. ASSUME NEW j \in 1..K, path[j].tried = c, \A k \in 1..K : path[k].tried # b
          PROVE  FALSE
      BY <1>3, <2>2, <2>3, <3>4
    <3> QED
      BY <3>1, <3>2, <3>3, <3>4
  <2> QED
    BY <1>7, <2>1, <2>3 DEF PairInv
<1>12. SearchTypes'
  <2>1. next' \in 1..(Len(deleted) + 1)
    BY <1>1, <1>4, <1>8 DEF Gone
  <2> QED
    BY <1>1, <1>3, <1>7, <2>1, EmptySeq DEF SearchTypes, diff
<1>13. DeadEndInv'
  <2>1. PICK S \in SUBSET Files : DeadEnd(S)
    BY DEF SearchInv, DeadEndInv
  <2>2. \A k \in 1..K : path[k].tried \notin S
    BY <1>1, <1>2, <2>1, PathAvoidsDeadEnds DEF K
  <2>3. \A b \in S : carrier'[b] = carrier[b]
    BY <1>3, <2>2
  <2>4. ASSUME NEW d \in 1..next, d \notin Renamed' PROVE d \in (1..(next - 1)) \ Renamed
    <3>1. \A b \in Files : carrier'[b] # d
      BY <1>4, <1>7, <1>8, <2>4 DEF Renamed, Files, Gone
    <3>2. \A k \in 1..K : path[k].snapshot # d
      BY <1>3, <1>5, <3>1
    <3>3. d # next
      BY <1>4, <1>5, <3>2
    <3>4. ASSUME NEW b \in Files PROVE carrier[b] # d
      <4>1. CASE \A k \in 1..K : path[k].tried # b
        BY <1>3, <3>1, <4>1
      <4>2. ASSUME NEW k \in 1..K, path[k].tried = b PROVE carrier[b] # d
        <5>1. CASE k = K
          BY <1>1, <1>2, <1>4, <1>8, <2>4, <4>2, <5>1 DEF Gone, K
        <5>2. CASE k \in 1..(K - 1)
          <6>1. k + 1 \in 2..K /\ (k + 1) - 1 = k
            BY <1>4, <5>2
          <6> QED
            BY <1>4, <3>2, <4>2, <6>1
        <5> QED
          BY <1>4, <5>1, <5>2
      <4> QED
        BY <4>1, <4>2
    <3> QED
      BY <1>4, <2>4, <3>3, <3>4 DEF Renamed, Files, Gone
  <2>5. \A b \in S : Carries(carrier[b]) = Carries(carrier'[b])
    BY <2>3
  <2>6. next' - 1 = next
    BY <1>1, <1>4 DEF Gone
  <2>7. DeadEnd(S)'
    BY <1>7, <2>1, <2>3, <2>4, <2>5, <2>6 DEF DeadEnd
  <2> QED
    BY <1>7, <2>1, <2>7 DEF DeadEndInv
<1>14. PathInv' /\ VisitedInv'
  BY <1>1 DEF PathInv, VisitedInv
<1> QED
  BY <1>8, <1>11, <1>12, <1>13, <1>14 DEF SearchInv

\* A call that starts leaves the calls before it as they are, waiting for it.
LEMMA TryRehomingKeeps ==
  ASSUME SearchInv, TryNext, NEW a \in Untried, \A b \in Untried : a <= b,
         visited' = visited \cup {a}, TryRehoming(a)
  PROVE  SearchInv'
<1> DEFINE path == Trying(a)
           K == Len(calls)
           Frame == [snapshot : Gone, tried : 0..Len(added)]
           new == CallFor(carrier[a])
<1>1. /\ calls # <<>> /\ UNCHANGED diff /\ UNCHANGED carrier /\ UNCHANGED next
      /\ carrier[a] # Nobody /\ calls' = Append(path, new)
  BY DEF TryNext, TryRehoming
<1>2. IsPath(path) /\ path[K].tried = a
  BY <1>1, TryingIsPath
<1>3. /\ K \in Nat \ {0} /\ a \in Carries(calls[K].snapshot) /\ a \in Files /\ a \notin visited
  BY <1>1, InnermostCall
<1>4. /\ carrier \in [Files -> Gone \cup {Nobody}] /\ visited \subseteq Files
      /\ next \in 1..(Len(deleted) + 1) /\ Len(added) \in Nat
  BY DiffNumbers DEF SearchInv, SearchTypes
<1>5. new \in Frame /\ new.snapshot = carrier[a] /\ new.tried = 0
  BY <1>1, <1>3, <1>4 DEF CallFor
<1>6. /\ Len(path) = K /\ path \in Seq(Frame)
      /\ path[1].snapshot = next
      /\ \A k \in 1..K : path[k].snapshot = calls[k].snapshot /\ path[k].tried \in Carries(path[k].snapshot)
      /\ \A k \in 1..(K - 1) : /\ path[k].tried = calls[k].tried
                               /\ path[k].tried \in visited
                               /\ carrier[path[k].tried] = path[k + 1].snapshot
      /\ \A j, k \in 1..K : path[j].tried = path[k].tried => j = k
  BY <1>2 DEF IsPath
<1>7. /\ Files' = Files /\ Gone' = Gone /\ \A d : Carries(d)' = Carries(d)
      /\ Len(added)' = Len(added) /\ Len(deleted)' = Len(deleted)
  BY <1>1 DEF diff, Files, Gone, Carries
<1>8. /\ next <= Len(deleted)
      /\ \A k \in 1..K : \A b \in Carries(calls[k].snapshot) : b <= calls[k].tried => b \in visited
      /\ \A b \in visited : /\ carrier[b] # Nobody
                            /\ Carries(carrier[b]) \subseteq visited \/ \E k \in 1..(K - 1) : calls[k].tried = b
  BY <1>1 DEF SearchInv, PathInv, VisitedInv
<1>9. \A b \in Carries(calls[K].snapshot) : b <= a => b \in visited'
  <2>1. SUFFICES ASSUME NEW b \in Carries(calls[K].snapshot), b <= a, b \notin visited
                 PROVE  b = a
    OBVIOUS
  <2>2. b \in Nat /\ a \in Nat /\ calls[K].tried \in Nat
    BY <1>1, <1>3, <1>4, <2>1, InnermostCall DEF Carries, Files
  <2>3. b > calls[K].tried
    BY <1>3, <1>8, <2>1, <2>2
  <2>4. b \in Untried
    BY <2>1, <2>3 DEF Untried, Innermost
  <2> QED
    BY <2>1, <2>2, <2>4
<1> HIDE DEF path, K, Frame, new
<1>10. /\ calls' \in Seq(Frame) /\ Len(calls') = K + 1
       /\ \A k \in 1..K : calls'[k] = path[k]
       /\ calls'[K + 1] = new
  BY <1>1, <1>5, <1>6, AppendProperties
<1>11. SearchTypes'
  BY <1>1, <1>3, <1>4, <1>7, <1>10 DEF SearchTypes, Frame
<1>12. PairInv' /\ DeadEndInv' /\ DiffLists'
  BY <1>1, PairsStand, DeadEndStands, CarriesStands DEF SearchInv
<1>13. PathInv'
  <2>1. ASSUME NEW k \in 1..(K + 1), NEW b \in Carries(calls'[k].snapshot), b <= calls'[k].tried
        PROVE  b \in visited'
    <3>1. CASE k = K + 1
      <4>1. b \in Nat /\ b > 0
        BY <1>4, <2>1 DEF Carries
      <4> QED
        BY <1>5, <1>10, <2>1, <3>1, <4>1
    <3>2. CASE k = K
      BY <1>2, <1>3, <1>6, <1>9, <1>10, <2>1, <3>2 DEF K
    <3>3. CASE k \in 1..(K - 1)
      <4>1. k \in 1..K /\ calls'[k].snapshot = calls[k].snapshot /\ calls'[k].tried = calls[k].tried
        BY <1>3, <1>6, <1>10, <3>3
      <4> QED
        BY <1>8, <2>1, <4>1
    <3> QED
      BY <1>3, <3>1, <3>2, <3>3
  <2>2. ASSUME NEW k \in 1..K
        PROVE  /\ calls'[k].tried \in visited' \cap Carries(calls'[k].snapshot)
               /\ carrier[calls'[k].tried] = calls'[k + 1].snapshot
    <3>1. CASE k = K
      BY <1>2, <1>3, <1>5, <1>6, <1>10, <3>1 DEF K
    <3>2. CASE k \in 1..(K - 1)
      BY <1>3, <1>6, <1>10, <3>2
    <3> QED
      BY <1>3, <3>1, <3>2
  <2>3. \A j, k \in 1..K : calls'[j].tried = calls'[k].tried => j = k
    BY <1>6, <1>10
  <2>4. calls'[1].snapshot = next /\ Len(calls') - 1 = K
    BY <1>3, <1>6, <1>10
  <2> QED
    BY <1>1, <1>3, <1>7, <1>8, <1>10, <2>1, <2>2, <2>3, <2>4 DEF PathInv
<1>14. VisitedInv'
  <2>1. ASSUME NEW b \in visited'
        PROVE  /\ carrier[b] # Nobody
               /\ Carries(carrier[b]) \subseteq visited' \/ \E k \in 1..K : calls'[k].tried = b
    <3>1. CASE b = a
      BY <1>1, <1>2, <1>3, <1>10, <3>1 DEF K
    <3>2. CASE b \in visited
      <4>1. ASSUME NEW k \in 1..(K - 1), calls[k].tried = b
            PROVE  \E j \in 1..K : calls'[j].tried = b
        <5>1. k \in 1..K /\ calls'[k].tried = b
          BY <1>3, <1>6, <1>10, <4>1
        <5> QED
          BY <5>1
      <4> QED
        BY <1>8, <3>2, <4>1
    <3> QED
      BY <2>1, <3>1, <3>2
  <2>2. Len(calls') - 1 = K
    BY <1>3, <1>10
  <2> QED
    BY <1>1, <1>7, <2>1, <2>2 DEF VisitedInv
<1> QED
  BY <1>11, <1>12, <1>13, <1>14 DEF SearchInv

\* A call that gives up has visited every file that could carry its snapshot;
\* when the first does, what has been visited is a dead end.
LEMMA GiveUpKeeps ==
  ASSUME SearchInv, GiveUp
  PROVE  SearchInv'
<1> DEFINE K == Len(calls)
           Frame == [snapshot : Gone, tried : 0..Len(added)]
<1>1. /\ calls # <<>> /\ UNCHANGED diff /\ UNCHANGED carrier /\ UNCHANGED visited
      /\ calls' = SubSeq(calls, 1, K - 1)
      /\ next' = IF K = 1 THEN next + 1 ELSE next
  BY DEF GiveUp
<1>2. /\ K \in Nat \ {0} /\ calls \in Seq(Frame)
      /\ calls[K].tried \in Nat
  BY <1>1, InnermostCall DEF SearchInv, SearchTypes
<1>3. /\ carrier \in [Files -> Gone \cup {Nobody}] /\ visited \subseteq Files
      /\ next \in 1..(Len(deleted) + 1) /\ Len(added) \in Nat /\ Len(deleted) \in Nat
  BY DiffNumbers DEF SearchInv, SearchTypes
<1>4. /\ Files' = Files /\ Gone' = Gone /\ \A d : Carries(d)' = Carries(d)
      /\ Len(added)' = Len(added) /\ Len(deleted)' = Len(deleted)
  BY <1>1 DEF diff, Files, Gone, Carries
<1>5. /\ next <= Len(deleted) /\ calls[1].snapshot = next
      /\ \A k \in 1..K : \A b \in Carries(calls[k].snapshot) : b <= calls[k].tried => b \in visited
      /\ \A k \in 1..(K - 1) : /\ calls[k].tried \in visited \cap Carries(calls[k].snapshot)
                               /\ carrier[calls[k].tried] = calls[k + 1].snapshot
      /\ \A j, k \in 1..(K - 1) : calls[j].tried = calls[k].tried => j = k
      /\ \A b \in visited : /\ carrier[b] # Nobody
                            /\ Carries(carrier[b]) \subseteq visited \/ \E k \in 1..(K - 1) : calls[k].tried = b
  BY <1>1 DEF SearchInv, PathInv, VisitedInv
<1>6. Carries(calls[K].snapshot) \subseteq visited
  <2>1. SUFFICES ASSUME NEW b \in Carries(calls[K].snapshot), b \notin visited PROVE FALSE
    OBVIOUS
  <2>2. b \in Nat
    BY <1>3, <2>1 DEF Carries
  <2>3. b > calls[K].tried
    BY <1>2, <1>5, <2>1, <2>2
  <2> QED
    BY <2>1, <2>3 DEF GiveUp, Untried, Innermost
<1> HIDE DEF K, Frame
<1>7. /\ calls' \in Seq(Frame) /\ Len(calls') = K - 1
      /\ \A k \in 1..(K - 1) : calls'[k] = calls[k]
      /\ calls' = <<>> <=> K = 1
  <2>1. K - 1 \in Nat /\ K - 1 <= Len(calls) /\ 1 \in 1..(Len(calls) + 1) /\ K - 1 \in (1 - 1)..Len(calls)
    BY <1>2 DEF K
  <2>2. /\ calls' \in Seq(Frame) /\ Len(calls') = K - 1
        /\ \A k \in 1..(K - 1) : calls'[k] = calls[k]
    BY <1>1, <1>2, <2>1, SubSeqProperties
  <2> QED
    BY <1>2, <2>2, EmptySeq
<1>8. SearchTypes'
  BY <1>1, <1>3, <1>4, <1>5, <1>7 DEF SearchTypes, Frame
<1>9. DiffLists'
  BY <1>1, CarriesStands DEF SearchInv
<1>10. PairInv'
  <2>1. ASSUME NEW b \in Files, carrier[b] # Nobody
        PROVE  carrier[b] < next' /\ b \in Carries(carrier[b])
    <3>1. carrier[b] \in Nat /\ carrier[b] < next /\ b \in Carries(carrier[b])
      BY <1>3, <2>1 DEF SearchInv, PairInv, Gone
    <3> QED
      BY <1>1, <1>3, <3>1
  <2> QED
    BY <1>1, <1>4, <2>1 DEF SearchInv, PairInv
<1>11. PathInv'
  <2>1. SUFFICES ASSUME K # 1 PROVE PathInv'
    BY <1>7 DEF PathInv
  <2>2. next' = next /\ calls'[1] = calls[1] /\ (K - 1) - 1 \in Nat
    BY <1>1, <1>2, <1>7, <2>1
  <2>3. \A k \in 1..(K - 1) : k \in 1..K /\ calls'[k] = calls[k]
    BY <1>2, <1>7
  <2>4. \A k \in 1..((K - 1) - 1) : /\ k \in 1..(K - 1) /\ k + 1 \in 1..(K - 1)
    BY <1>2
  <2>5. \A k \in 1..(K - 1) : \A b \in Carries(calls'[k].snapshot) :
           b <= calls'[k].tried => b \in visited
    BY <1>5, <2>3
  <2>6. \A k \in 1..((K - 1) - 1) :
          /\ calls'[k].tried \in visited \cap Carries(calls'[k].snapshot)
          /\ carrier[calls'[k].tried] = calls'[k + 1].snapshot
    BY <1>5, <2>3, <2>4
  <2>7. \A j, k \in 1..((K - 1) - 1) : calls'[j].tried = calls'[k].tried => j = k
    BY <1>5, <2>3, <2>4
  <2> QED
    BY SMTT(60), <1>1, <1>4, <1>5, <1>7, <2>2, <2>5, <2>6, <2>7 DEF PathInv
<1>12. VisitedInv'
  <2>1. SUFFICES ASSUME K # 1, NEW b \in visited, ~ (Carries(carrier[b]) \subseteq visited)
                 PROVE  \E k \in 1..((K - 1) - 1) : calls'[k].tried = b
    BY <1>1, <1>4, <1>5, <1>7 DEF VisitedInv
  <2>2. PICK k \in 1..(K - 1) : calls[k].tried = b
    BY <1>5, <2>1
  <2>3. k # K - 1
    <3>1. SUFFICES ASSUME k = K - 1 PROVE FALSE
      OBVIOUS
    <3>2. carrier[b] = calls[K].snapshot
      BY <1>2, <1>5, <2>2, <3>1
    <3> QED
      BY <1>6, <2>1, <3>2
  <2>4. k \in 1..((K - 1) - 1) /\ calls'[k].tried = b
    BY <1>2, <1>7, <2>2, <2>3
  <2> QED
    BY <2>4
<1>13. DeadEndInv'
  <2>1. PICK S \in SUBSET Files : DeadEnd(S)
    BY DEF SearchInv, DeadEndInv
  <2>2. Renamed' = Renamed
    BY <1>1 DEF Renamed, diff
  <2>3. CASE K # 1
    <3>1. DeadEnd(S)'
      BY <1>1, <1>4, <2>1, <2>2, <2>3 DEF DeadEnd
    <3> QED
      BY <1>4, <2>1, <3>1 DEF DeadEndInv
  <2>4. CASE K = 1
    <3>0. PICK T : T = S \cup visited
      OBVIOUS
    <3>1. \A b \in visited : carrier[b] # Nobody /\ Carries(carrier[b]) \subseteq visited
      BY <1>5, <2>4
    <3>2. \A b \in T : carrier'[b] # Nobody /\ Carries(carrier'[b]) \subseteq T
      BY <1>1, <2>1, <3>0, <3>1 DEF DeadEnd
    <3>3. Carries(next) \subseteq T
      BY <1>5, <1>6, <2>4, <3>0
    <3>4. \A d \in 1..(next' - 1) : d = next \/ d \in 1..(next - 1)
      BY <1>1, <1>3, <2>4
    <3>5. \A d \in (1..(next' - 1)) \ Renamed : Carries(d) \subseteq T
      BY <2>1, <3>0, <3>3, <3>4 DEF DeadEnd
    <3>6. DeadEnd(T)'
      BY <1>4, <2>2, <3>2, <3>5 DEF DeadEnd
    <3> QED
      BY <1>3, <1>4, <2>1, <3>0, <3>6 DEF DeadEndInv
  <2> QED
    BY <2>3, <2>4
<1> QED
  BY <1>8, <1>9, <1>10, <1>11, <1>12, <1>13 DEF SearchInv

\* Every step keeps the invariant.
LEMMA SearchSteps == SearchInv /\ [DiffNext]_diffVars => SearchInv'
<1> SUFFICES ASSUME SearchInv, [DiffNext]_diffVars PROVE SearchInv'
  OBVIOUS
<1>1. CASE StartSearch
  BY <1>1, StartSearchKeeps
<1>2. CASE TryNext
  <2>1. PICK a \in Untried :
          /\ \A b \in Untried : a <= b
          /\ visited' = visited \cup {a}
          /\ TakeFree(a) \/ TryRehoming(a)
    BY <1>2 DEF TryNext
  <2> QED
    BY <1>2, <2>1, TakeFreeKeeps, TryRehomingKeeps
<1>3. CASE GiveUp
  BY <1>3, GiveUpKeeps
<1>4. CASE UNCHANGED diffVars
  <2>1. UNCHANGED diff /\ UNCHANGED carrier /\ UNCHANGED next /\ UNCHANGED visited /\ UNCHANGED calls
    BY <1>4 DEF diffVars
  <2>2. DiffLists' /\ PairInv' /\ DeadEndInv'
    BY <2>1, CarriesStands, PairsStand, DeadEndStands DEF SearchInv
  <2>3. SearchTypes' /\ PathInv' /\ VisitedInv'
    <3>1. SearchTypes'
      BY <2>1 DEF SearchInv, SearchTypes, Files, Gone, diff
    <3>2. PathInv'
      BY <2>1 DEF SearchInv, PathInv, Carries, diff
    <3>3. VisitedInv'
      BY <2>1 DEF SearchInv, VisitedInv, Carries, diff
    <3> QED
      BY <3>1, <3>2, <3>3
  <2> QED
    BY <2>2, <2>3 DEF SearchInv
<1> QED
  BY <1>1, <1>2, <1>3, <1>4 DEF DiffNext, DiffExit

\* The invariant holds in every state of every search.
LEMMA SearchInvariant == DiffSpec => []SearchInv
  BY SearchStarts, SearchSteps, PTL DEF DiffSpec

(***************************************************************************)
(* What the pairing means.                                                 *)
(***************************************************************************)
\* `keeps` is survival, of texts that are sequences.
LEMMA KeepsIsSurvival ==
  ASSUME NEW head \in Contents, NEW base \in Contents, NEW tag
  PROVE  Keeps(head, base) <=> Survives([tag |-> tag, content |-> head],
                                        [tag |-> tag, content |-> base])
<1>1. CASE head = NotRegular \/ base = NotRegular
  BY <1>1 DEF Keeps, Survives
<1>2. CASE head \in Texts /\ base \in Texts
  <2>1. base \in Seq(Range(base))
    BY <1>2, SnapshotsAssumption DEF SnapshotsAssumption
  <2>2. SubSeq(base, 1, Len(base)) = base
    BY <2>1, SubSeqFull
  <2>3. head # NotRegular /\ base # NotRegular
    BY <1>2, SnapshotsAssumption DEF SnapshotsAssumption
  <2> QED
    BY <2>2, <2>3 DEF Keeps, Survives, IsPrefix
<1> QED
  BY <1>1, <1>2 DEF Contents

\* The files that could carry a deletion are those its text survives in.
LEMMA CarriersSurvive ==
  ASSUME DiffLists, NEW a \in Files, NEW d \in Gone
  PROVE  a \in Carries(d) <=> Survives(added[a], deleted[d])
<1>1. added[a].content \in Contents /\ deleted[d].content \in Contents
  BY DiffNumbers DEF DiffLists
<1>2. Keeps(added[a].content, deleted[d].content)
        <=> Survives([tag |-> 0, content |-> added[a].content],
                     [tag |-> 0, content |-> deleted[d].content])
  BY <1>1, KeepsIsSurvival
<1> QED
  BY <1>2 DEF Carries, Survives, Files

\* The deletions paired, and how many there can be.
LEMMA RenamedAreGone ==
  ASSUME SearchInv
  PROVE  /\ Renamed \subseteq 1..(next - 1) /\ Renamed \subseteq Gone
         /\ IsFiniteSet(Renamed) /\ Cardinality(Renamed) \in Nat
<1>1. next \in 1..(Len(deleted) + 1) /\ Len(deleted) \in Nat
  BY DiffNumbers DEF SearchInv, SearchTypes
<1>2. ASSUME NEW d \in Renamed PROVE d \in 1..(next - 1) /\ d \in Gone
  <2>1. PICK a \in Files : carrier[a] = d /\ d # Nobody
    BY <1>2 DEF Renamed, Files
  <2>2. d \in Gone /\ d < next
    BY <2>1 DEF SearchInv, SearchTypes, PairInv
  <2> QED
    BY <1>1, <2>2 DEF Gone
<1>3. IsFiniteSet(1..(next - 1))
  BY <1>1, FS_Interval
<1>4. Renamed \subseteq 1..(next - 1) /\ Renamed \subseteq Gone
  BY <1>2
<1> QED
  BY <1>3, <1>4, FS_Subset, FS_CardinalityType

\* A pairing of any deletions treated so far maps into those renamed: a
\* deletion whose file is in the dead end to the snapshot that file carries,
\* any other to itself.
LEMMA PairingsAreNoLarger ==
  ASSUME SearchInv, NEW ds \in SUBSET (1..(next - 1)), Pairable(ds)
  PROVE  Cardinality(ds) <= Cardinality(Renamed)
<1>1. PICK f \in [ds -> Files] : Pairing(ds, f)
  BY DEF Pairable, Files
<1>2. PICK S \in SUBSET Files : DeadEnd(S)
  BY DEF SearchInv, DeadEndInv
<1>3. /\ \A d \in ds : f[d] \in Carries(d)
      /\ \A d, e \in ds : f[d] = f[e] => d = e
  <2>1. ds \subseteq Gone
    BY DiffNumbers DEF SearchInv, SearchTypes, Gone
  <2> QED
    BY <1>1, <2>1, CarriersSurvive DEF Pairing, SearchInv
<1>4. /\ \A a \in S : carrier[a] # Nobody /\ Carries(carrier[a]) \subseteq S
      /\ \A d \in (1..(next - 1)) \ Renamed : Carries(d) \subseteq S
  BY <1>2 DEF DeadEnd
<1>5. \A a, b \in Files : carrier[a] = carrier[b] => a = b \/ carrier[a] = Nobody
  BY DEF SearchInv, PairInv
<1> DEFINE g == [d \in ds |-> IF f[d] \in S THEN carrier[f[d]] ELSE d]
<1>6. ASSUME NEW d \in ds PROVE g[d] \in Renamed
  <2>1. CASE f[d] \in S
    BY <1>1, <1>4, <2>1 DEF Renamed, Files
  <2>2. CASE f[d] \notin S
    BY <1>3, <1>4, <2>2
  <2> QED
    BY <2>1, <2>2
<1>7. ASSUME NEW d \in ds, NEW e \in ds, g[d] = g[e] PROVE d = e
  <2>1. \A x, y \in ds : f[x] \in S /\ f[y] \notin S => carrier[f[x]] # y
    BY <1>3, <1>4
  <2>2. CASE f[d] \in S /\ f[e] \in S
    BY <1>1, <1>3, <1>4, <1>5, <1>7, <2>2
  <2>3. CASE f[d] \notin S \/ f[e] \notin S
    BY <1>7, <2>1, <2>3
  <2> QED
    BY <2>2, <2>3
<1>8. g \in Injection(ds, Renamed)
  BY <1>6, <1>7 DEF Injection, IsInjective
<1> HIDE DEF g
<1>9. \E h : h \in Injection(ds, Renamed)
  BY <1>8
<1> QED
  BY <1>9, RenamedAreGone, FS_Injection 

\* "A maximum one-to-one matching": whatever the order of the diff, no larger
\* set of the deletions treated so far can be paired.
THEOREM PairingsAreMaximum == DiffSpec => []PairingIsMaximum
<1>1. SearchInv => PairingIsMaximum
  BY PairingsAreNoLarger DEF PairingIsMaximum
<1> QED
  BY <1>1, SearchInvariant, PTL

\* When every deletion has been treated, the renamed ones are all of them
\* exactly when they can all be paired.
LEMMA RenamedIsPairable ==
  ASSUME SearchInv, DiffDone
  PROVE  Gone \subseteq Renamed <=> Pairable(Gone)
<1>1. next - 1 = Len(deleted) /\ Len(deleted) \in Nat /\ Nobody \notin Gone
  BY DiffNumbers DEF SearchInv, SearchTypes, DiffDone
<1>2. ASSUME Gone \subseteq Renamed PROVE Pairable(Gone)
  <2> DEFINE f == [d \in Gone |-> CHOOSE a \in Files : carrier[a] = d]
  <2>1. ASSUME NEW d \in Gone PROVE f[d] \in Files /\ carrier[f[d]] = d
    BY <1>2, <2>1 DEF Renamed, Files
  <2>2. f \in [Gone -> Files]
    BY <2>1
  <2> HIDE DEF f
  <2>3. ASSUME NEW d \in Gone PROVE Survives(added[f[d]], deleted[d])
    <3>1. f[d] \in Carries(d)
      BY <1>1, <2>1, <2>3 DEF SearchInv, PairInv
    <3> QED
      BY <2>1, <2>3, <3>1, CarriersSurvive DEF SearchInv
  <2>4. Pairing(Gone, f)
    BY <2>1, <2>3 DEF Pairing
  <2> QED
    BY <2>2, <2>4 DEF Pairable, Files
<1>3. ASSUME Pairable(Gone) PROVE Gone \subseteq Renamed
  <2>1. Gone = 1..(next - 1)
    BY <1>1 DEF Gone
  <2>2. Cardinality(Gone) <= Cardinality(Renamed)
    BY <1>3, <2>1, PairingsAreNoLarger
  <2>3. IsFiniteSet(Gone) /\ Cardinality(Gone) \in Nat
    BY <1>1, FS_Interval, FS_CardinalityType DEF Gone
  <2>4. Renamed \subseteq Gone /\ Cardinality(Renamed) \in Nat
    BY RenamedAreGone
  <2>5. Cardinality(Renamed) <= Cardinality(Gone)
        /\ (Cardinality(Renamed) = Cardinality(Gone) => Renamed = Gone)
    BY <2>3, <2>4, FS_Subset
  <2> QED
    BY <2>2, <2>3, <2>4, <2>5
<1> QED
  BY <1>2, <1>3

\* A branch passes exactly when every frozen snapshot survives.
THEOREM AcceptedSurvive == DiffSpec => []AcceptsExactlySurvivors
<1>1. ASSUME SearchInv, DiffDone
      PROVE  Offenders = {} <=>
               /\ Pairable(1..Len(deleted))
               /\ \A i \in 1..Len(modified) :
                    Survives([tag |-> 0, content |-> modified[i].head],
                             [tag |-> 0, content |-> modified[i].base])
  <2>1. \A i \in 1..Len(modified) :
          Keeps(modified[i].head, modified[i].base)
            <=> Survives([tag |-> 0, content |-> modified[i].head],
                         [tag |-> 0, content |-> modified[i].base])
    BY <1>1, DiffNumbers, KeepsIsSurvival DEF SearchInv, DiffLists
  <2>2. Offenders = {} <=>
          /\ Gone \subseteq Renamed
          /\ \A i \in 1..Len(modified) : Keeps(modified[i].head, modified[i].base)
    BY DEF Offenders, Gone
  <2> QED
    BY <1>1, <2>1, <2>2, RenamedIsPairable DEF Gone
<1>2. SearchInv => AcceptsExactlySurvivors
  BY <1>1 DEF AcceptsExactlySurvivors
<1> QED
  BY <1>2, SearchInvariant, PTL

-----------------------------------------------------------------------------
(* The scanners (TextScanners)                                             *)

\* An import waits for its path when no string and no `;` followed it.
Waits(i) ==
  \E q \in 1 .. i : Text[q] = "import" /\ \A r \in q + 1 .. i : Text[r] \notin {"string", "semicolon"}
\* What has been found are the paths met, and whether one is due is known.
ImportInv ==
  sample.scan = "imports" =>
    /\ found = FirstStrings(Text) \intersect (1 .. at - 1)
    /\ inImport <=> Waits(at - 1)

\* What has been stripped are the lines of the metadata headers already met.
MetadataInv ==
  sample.scan = "metadata" =>
    found = {k \in DOMAIN Text : /\ Owner(Text, k) \in 1 .. at - 1
                                 /\ Text[Owner(Text, k)] = "metadata"}

\* The end of the last statement before position i, the code read since, and the
\* spans of the declarations that end before i.
LastEnd(i) == Max({q \in Ends(Text) : q < i} \union {0})
CodeSince(i) == {p \in LastEnd(i) + 1 .. i - 1 : IsCode(Text[p])}
Spans(i) ==
  UNION {SpanStart(Text, Min(CodeOf(Text, e))) .. e : e \in {x \in Ends(Text) : x < i /\ Declares(Text, x)}}
Statement == CodeSince(at)
\* The kinds of token in the text.
Kinds == {Text[i] : i \in DOMAIN Text}

\* `toks` are code of the statement, in order, at places p: its very first code
\* up to a brace, and all of it when there are fewer than in a declaration.
OpensAt(code, toks, deep, p) ==
  /\ toks \in Seq(Kinds) /\ Len(toks) \in 0 .. 4
  /\ p \in [1 .. Len(toks) -> code]
  /\ \A k \in 1 .. Len(toks) : toks[k] = Text[p[k]]
  /\ \A j, k \in 1 .. Len(toks) : j < k => p[j] < p[k]
  /\ \A k \in 1 .. Len(toks) : (\A j \in 1 .. k - 1 : toks[j] # "open") =>
       \A q \in code : q <= p[k] => \E j \in 1 .. k : q = p[j]
  /\ (\A j \in 1 .. Len(toks) : toks[j] # "open") =>
       Len(toks) = 4 \/ (deep = 0 /\ \A q \in code : \E j \in 1 .. Len(toks) : q = p[j])

\* The depth, the span's start, the statement under way and the spans found.
DependencyInv ==
  sample.scan = "dependencies" /\ Balanced(Text) =>
    /\ depth = DepthAt(Text, at - 1)
    /\ runFrom = SpanStart(Text, at)
    /\ Statement = {} => depth = 0 /\ stmt = 0
    /\ Statement # {} => /\ stmt = SpanStart(Text, Min(Statement))
                         /\ \E p : OpensAt(Statement, tokens, depth, p)
    /\ found = Spans(at)

\* A cut gives, for each place of the pattern, how much of the name is behind
\* it; its piece at a place must fit the character there.
Piece(cut, k) ==
  IF Text[k] = "*" THEN cut[k] >= cut[k - 1]
  ELSE cut[k] = cut[k - 1] + 1 /\ Text[k] \in {"?", Name[cut[k]]}
Cuts == [0 .. Len(Text) -> 0 .. Len(Name)]

\* Where the matcher is: behind the last `*` both have moved in step.
PlaceInv ==
  /\ nameAt \in 1 .. Len(Name) + 1 /\ star \in 0 .. Len(Text) /\ retry \in 1 .. Len(Name) + 1
  /\ verdict \in {"none", "yes", "no"}
  /\ star # 0 => /\ star < at /\ Text[star] = "*"
                 /\ retry <= nameAt /\ (at - 1) - star = nameAt - retry
                 /\ \A k \in star + 1 .. at - 1 :
                      Text[k] # "*" /\ Text[k] \in {"?", Name[retry + (k - (star + 1))]}
\* What has been read of the pattern fits what has been read of the name.
ReadFits ==
  \E cut \in Cuts :
    /\ cut[0] = 0 /\ cut[at - 1] = nameAt - 1 /\ (star # 0 => cut[star] = retry - 1)
    /\ \A k \in 1 .. at - 1 : Piece(cut, k)
\* If the name fits, the rest can be cut where the matcher still looks.
RestFits ==
  \E cut \in Cuts :
    /\ cut[Len(Text)] = Len(Name)
    /\ IF star = 0 THEN cut[at - 1] = nameAt - 1 ELSE cut[star] >= retry - 1
    /\ \A k \in (IF star = 0 THEN at ELSE star + 1) .. Len(Text) : Piece(cut, k)
\* What is read fits, what is left can be fitted, and the verdict is right.
GlobInv ==
  sample.scan = "glob" =>
    /\ PlaceInv
    /\ ReadFits
    /\ Fits(Text, Name) => RestFits
    /\ verdict = "yes" => Fits(Text, Name)
    /\ verdict = "no" => ~ Fits(Text, Name)

\* The inductive invariant of the scanners.
ScanTypes == sample \in Samples /\ at \in 1 .. Len(Text) + 1
ScanInv == ScanTypes /\ ImportInv /\ MetadataInv /\ DependencyInv /\ GlobInv

(***************************************************************************)
(* Least and greatest elements.                                            *)
(***************************************************************************)
\* A set of naturals has a least element.
LEMMA MinIsLeast ==
  ASSUME NEW S \in SUBSET Nat, S # {}
  PROVE  Min(S) \in S /\ \A x \in S : Min(S) <= x
<1> DEFINE R == OpToRel(<, Nat)
<1>1. IsWellFoundedOn(R, Nat)
  BY NatLessThanWellFounded
<1>2. \A x, y \in Nat : x < y => <<x, y>> \in R
  BY DEF OpToRel
<1> HIDE DEF R
<1>3. PICK m \in S : \A x \in S : ~ (<<x, m>> \in R)
  BY <1>1, WFMin
<1>4. ASSUME NEW x \in S PROVE m <= x
  <2>1. x \in Nat /\ m \in Nat /\ ~ (x < m)
    BY <1>2, <1>3
  <2> QED
    BY <2>1
<1> QED
  BY <1>3, <1>4 DEF Min

\* A bounded set of naturals has a greatest element.
LEMMA MaxIsGreatest ==
  ASSUME NEW n \in Nat, NEW S \in SUBSET (0 .. n), S # {}
  PROVE  Max(S) \in S /\ \A x \in S : x <= Max(S)
<1> DEFINE T == {n - x : x \in S}
<1>1. T \in SUBSET Nat
  OBVIOUS
<1>0. T # {}
  <2>1. PICK x : x \in S
    OBVIOUS
  <2>2. n - x \in T
    BY <2>1
  <2> QED
    BY <2>2
<1>2. Min(T) \in T /\ \A y \in T : Min(T) <= y
  BY <1>0, <1>1, MinIsLeast
<1>3. PICK m \in S : Min(T) = n - m
  BY <1>2
<1>4. \A x \in S : n - x \in T
  OBVIOUS
<1> HIDE DEF T
<1>5. \A x \in S : x <= m
  BY <1>2, <1>3, <1>4
<1> QED
  BY <1>3, <1>5 DEF Max

\* What a least and a greatest element are, where one is known.
LEMMA MinIs ==
  ASSUME NEW S \in SUBSET Int, NEW m \in S, \A x \in S : m <= x
  PROVE  Min(S) = m
<1>1. Min(S) \in S /\ \A x \in S : Min(S) <= x
  <2>1. \E y \in S : \A x \in S : y <= x
    OBVIOUS
  <2> QED
    BY <2>1 DEF Min
<1>2. Min(S) \in Int /\ m \in Int
  BY <1>1
<1> QED
  BY <1>1, <1>2

LEMMA MaxIs ==
  ASSUME NEW S \in SUBSET Int, NEW m \in S, \A x \in S : x <= m
  PROVE  Max(S) = m
<1>1. Max(S) \in S /\ \A x \in S : Max(S) >= x
  <2>1. \E y \in S : \A x \in S : y >= x
    OBVIOUS
  <2> QED
    BY <2>1 DEF Max
<1>2. Max(S) \in Int /\ m \in Int
  BY <1>1
<1> QED
  BY <1>1, <1>2

(***************************************************************************)
(* Samples, and the other scanners of a step.                              *)
(***************************************************************************)
\* A text is a sequence, and so is a name, which holds no `*`.
LEMMA TextIsSequence ==
  ASSUME ScanTypes
  PROVE  /\ Len(Text) \in Nat /\ DOMAIN Text = 1 .. Len(Text)
         /\ sample.scan \in {"metadata", "dependencies", "imports", "glob"}
         /\ sample.scan = "glob" =>
              /\ Len(Name) \in Nat /\ DOMAIN Name = 1 .. Len(Name)
              /\ \A j \in 1 .. Len(Name) : Name[j] # "*"
<1>1. /\ sample.scan \in {"metadata", "dependencies", "imports", "glob"}
      /\ Text \in Seq({Text[i] : i \in DOMAIN Text})
      /\ sample.scan = "glob" => Name \in Seq({Name[i] : i \in DOMAIN Name} \ {"*"})
  BY SamplesAssumption DEF ScanTypes, SamplesAssumption, Text, Name
<1>2. ASSUME sample.scan = "glob" PROVE \A j \in 1 .. Len(Name) : Name[j] # "*"
  BY <1>1, <1>2, ElementOfSeq
<1> QED
  BY <1>1, <1>2, LenProperties

(***************************************************************************)
(* import_paths                                                            *)
(***************************************************************************)
\* One token more read.
LEMMA ReadImportKeeps ==
  ASSUME ScanTypes, ImportInv, ReadImport
  PROVE  ImportInv' /\ at' \in 1 .. Len(Text) + 1
<1>1. /\ sample.scan = "imports" /\ at <= Len(Text) /\ at' = at + 1 /\ sample' = sample
      /\ inImport' <=> (Text[at] = "import" \/ (inImport /\ Text[at] \notin {"string", "semicolon"}))
      /\ found' = IF Text[at] = "string" /\ inImport THEN found \union {at} ELSE found
  BY Zenon DEF ReadImport, Scanning
<1>2. /\ found = FirstStrings(Text) \intersect (1 .. at - 1)
      /\ inImport <=> Waits(at - 1)
  BY <1>1, Zenon DEF ImportInv
<1>3. /\ at \in 1 .. Len(Text) /\ at' = at + 1 /\ at' - 1 = at
      /\ Len(Text) \in Nat /\ DOMAIN Text = 1 .. Len(Text)
  <2>1. at \in 1 .. Len(Text) + 1 /\ at <= Len(Text) /\ at' = at + 1
    BY <1>1, Zenon DEF ScanTypes
  <2> QED
    BY <2>1, TextIsSequence
<1>4. Text' = Text /\ FirstStrings(Text)' = FirstStrings(Text) /\ Waits(at)' = Waits(at')
  BY <1>1 DEF Text, FirstStrings, Waits
<1>5. Waits(at) <=> Text[at] = "import" \/ (Waits(at - 1) /\ Text[at] \notin {"string", "semicolon"})
  <2>1. at - 1 \in Nat /\ at \in 1 .. at
    BY <1>3
  <2>2. ASSUME Text[at] \in {"string", "semicolon"} PROVE ~ Waits(at)
    <3>1. SUFFICES ASSUME NEW q \in 1 .. at, Text[q] = "import",
                          \A x \in q + 1 .. at : Text[x] \notin {"string", "semicolon"}
                   PROVE  FALSE
      BY DEF Waits
    <3>2. q # at
      BY <2>2, <3>1
    <3>3. at \in q + 1 .. at
      <4>1. at \in Nat /\ q \in Nat /\ q <= at
        BY <1>3
      <4> QED
        BY <3>2, <4>1
    <3> QED
      BY <2>2, <3>1, <3>3
  <2>3. ASSUME Text[at] = "import" PROVE Waits(at)
    <3>1. at \in 1 .. at /\ \A x \in at + 1 .. at : FALSE
      BY <1>3
    <3> QED
      BY <2>3, <3>1 DEF Waits
  <2>4. ASSUME Text[at] \notin {"string", "semicolon", "import"} PROVE Waits(at) <=> Waits(at - 1)
    <3>1. ASSUME NEW q \in 1 .. at, q # at
          PROVE  /\ q \in 1 .. at - 1
                 /\ \A x \in q + 1 .. at : x = at \/ x \in q + 1 .. at - 1
      BY <1>3, <3>1
    <3>2. \A q \in 1 .. at - 1 : q \in 1 .. at /\ q # at
      BY <1>3
    <3>3. \A q \in 1 .. at - 1 : \A x \in q + 1 .. at - 1 : x \in q + 1 .. at
      BY <1>3
    <3> QED
      BY <2>4, <3>1, <3>2, <3>3 DEF Waits
  <2> QED
    BY <2>2, <2>3, <2>4
<1>6. at \in FirstStrings(Text) <=> Text[at] = "string" /\ Waits(at - 1)
  BY <1>3 DEF FirstStrings, Waits
<1>7. FirstStrings(Text) \intersect (1 .. at) =
        IF at \in FirstStrings(Text)
        THEN (FirstStrings(Text) \intersect (1 .. at - 1)) \union {at}
        ELSE FirstStrings(Text) \intersect (1 .. at - 1)
  BY <1>3
<1>8. found' = FirstStrings(Text) \intersect (1 .. at)
  BY <1>1, <1>2, <1>6, <1>7, Zenon
<1>9. inImport' <=> Waits(at)
  BY <1>1, <1>2, <1>5, Zenon
<1>10. FirstStrings(Text)' \intersect (1 .. at' - 1) = FirstStrings(Text) \intersect (1 .. at)
       /\ (Waits(at' - 1) <=> Waits(at)) /\ at' \in 1 .. Len(Text) + 1
  BY <1>3, <1>4
<1>11. Waits(at - 1)' <=> Waits(at' - 1)
  BY <1>4 DEF Waits
<1> QED
  BY <1>8, <1>9, <1>10, <1>11, Zenon DEF ImportInv

(***************************************************************************)
(* strip_release_metadata                                                  *)
(***************************************************************************)
\* The next header from line i on, and the lines between.
LEMMA NextHeaderIs ==
  ASSUME NEW lines, Len(lines) \in Nat, NEW i \in 1 .. Len(lines) + 1
  PROVE  /\ NextHeader(lines, i) \in i .. Len(lines) + 1
         /\ \A j \in i .. NextHeader(lines, i) - 1 : ~ IsHeader(lines[j])
         /\ NextHeader(lines, i) <= Len(lines) => IsHeader(lines[NextHeader(lines, i)])
<1> DEFINE S == {j \in i .. Len(lines) : IsHeader(lines[j])} \union {Len(lines) + 1}
<1>1. S \in SUBSET Nat /\ S # {}
  OBVIOUS
<1>2. Min(S) \in S /\ \A x \in S : Min(S) <= x
  BY <1>1, MinIsLeast
<1>3. NextHeader(lines, i) = Min(S)
  BY DEF NextHeader
<1>4. PICK m : m = Min(S)
  OBVIOUS
<1>5. m \in S /\ \A x \in S : m <= x
  BY <1>2, <1>4
<1> QED
  BY SMTT(60), <1>3, <1>4, <1>5

\* The comment block above line i.
LEMMA BlockAboveIs ==
  ASSUME NEW lines, NEW i \in Nat, NEW floor \in 1 .. i
  PROVE  /\ BlockAbove(lines, i, floor) \in floor .. i
         /\ \A k \in floor .. i :
              BlockAbove(lines, i, floor) <= k <=> \A j \in k .. i - 1 : lines[j] = "comment"
<1> DEFINE S == {j \in floor .. i : \A k \in j .. i - 1 : lines[k] = "comment"}
<1>1. S \in SUBSET Nat /\ i \in S
  OBVIOUS
<1>2. PICK m : m = Min(S)
  OBVIOUS
<1>3. m \in S /\ \A x \in S : m <= x
  BY <1>1, <1>2, MinIsLeast
<1>4. BlockAbove(lines, i, floor) = m
  BY <1>2 DEF BlockAbove
<1> QED
  BY <1>3, <1>4

\* The two sets Owner chooses from.
Attached(lines, k) ==
  {h \in k + 1 .. Len(lines) :
     IsHeader(lines[h]) /\ \A j \in k .. h - 1 : lines[j] = "comment"}
Above(lines, k) == {h \in 1 .. k : IsHeader(lines[h])}

\* The lines of the section whose header stands on line i.
LEMMA SectionIsOwned ==
  ASSUME NEW lines, Len(lines) \in Nat, DOMAIN lines = 1 .. Len(lines),
         NEW i \in 1 .. Len(lines), IsHeader(lines[i]),
         NEW k \in 1 .. Len(lines), NEW after, after = NextHeader(lines, i + 1)
  PROVE  Owner(lines, k) = i <=>
           k \in BlockAbove(lines, i, 1) .. SectionEnd(lines, i, after) - 1
<1>0. /\ i \in Nat /\ k \in Nat /\ 1 \in 1 .. i /\ i + 1 \in 1 .. Len(lines) + 1
      /\ Above(lines, k) \union {0} # {}
  OBVIOUS
<1>1. /\ after \in i + 1 .. Len(lines) + 1
      /\ \A j \in i + 1 .. after - 1 : ~ IsHeader(lines[j])
      /\ after <= Len(lines) => IsHeader(lines[after])
  BY <1>0, NextHeaderIs
<1>2. \A j \in 1 .. Len(lines) : lines[j] = "comment" => ~ IsHeader(lines[j])
  BY DEF IsHeader
<1>3. PICK b : b = BlockAbove(lines, i, 1)
  OBVIOUS
<1>4. b \in 1 .. i /\ \A x \in 1 .. i : b <= x <=> \A j \in x .. i - 1 : lines[j] = "comment"
  BY <1>0, <1>3, BlockAboveIs
<1>5. PICK e : e = SectionEnd(lines, i, after)
  OBVIOUS
<1>6. /\ e \in i + 1 .. after
      /\ after > Len(lines) => e = after
      /\ after <= Len(lines) => \A x \in i + 1 .. after :
           e <= x <=> \A j \in x .. after - 1 : lines[j] = "comment"
  <2>1. CASE after <= Len(lines)
    <3>1. i + 1 \in 1 .. after /\ after \in Nat
      BY <1>1
    <3> QED
      <4>1. e = BlockAbove(lines, after, i + 1)
        BY <1>5, <2>1 DEF SectionEnd
      <4>2. /\ BlockAbove(lines, after, i + 1) \in i + 1 .. after
            /\ \A x \in i + 1 .. after :
                 BlockAbove(lines, after, i + 1) <= x <=> \A j \in x .. after - 1 : lines[j] = "comment"
        BY <3>1, BlockAboveIs
      <4> QED
        BY <1>1, <2>1, <4>1, <4>2
  <2>2. CASE after > Len(lines)
    BY <1>1, <1>5, <2>2 DEF SectionEnd
  <2> QED
    BY <1>1, <2>1, <2>2
<1>7. /\ Attached(lines, k) \in SUBSET Nat
      /\ Above(lines, k) \union {0} \in SUBSET (0 .. k)
      /\ Owner(lines, k) = IF Attached(lines, k) # {} THEN Min(Attached(lines, k))
                           ELSE Max(Above(lines, k) \union {0})
  BY DEF Attached, Above, Owner
<1>8. CASE k < i /\ k >= b
  <2>1. i \in Attached(lines, k)
    BY <1>4, <1>8 DEF Attached
  <2>2. \A h \in Attached(lines, k) : i <= h
    BY <1>2, <1>4, <1>8 DEF Attached
  <2>3. Owner(lines, k) = i
    BY <1>7, <2>1, <2>2, MinIs
  <2> QED
    BY <1>3, <1>5, <1>6, <1>8, <2>3
<1>9. CASE k < b
  <2>1. i \notin Attached(lines, k)
    <3>1. ~ (\A j \in k .. i - 1 : lines[j] = "comment")
      BY <1>4, <1>9
    <3> QED
      BY <3>1 DEF Attached
  <2>2. Owner(lines, k) # i
    <3>1. CASE Attached(lines, k) # {}
      BY <1>7, <2>1, <3>1, MinIsLeast
    <3>2. CASE Attached(lines, k) = {}
      <4>1. Max(Above(lines, k) \union {0}) \in 0 .. k
        BY <1>0, <1>7, MaxIsGreatest
      <4> QED
        BY <1>4, <1>7, <1>9, <3>2, <4>1
    <3> QED
      BY <3>1, <3>2
  <2> QED
    BY <1>3, <1>4, <1>5, <1>6, <1>9, <2>2
<1>10. CASE k >= i /\ k < e
  <2>1. Attached(lines, k) = {}
    <3>1. SUFFICES ASSUME NEW h \in Attached(lines, k) PROVE FALSE
      OBVIOUS
    <3>2. /\ h \in k + 1 .. Len(lines) /\ IsHeader(lines[h])
          /\ \A j \in k .. h - 1 : lines[j] = "comment"
      BY <3>1 DEF Attached
    <3>3. k # i
      BY <1>2, <3>2
    <3>4. h >= after
      BY <1>1, <1>10, <3>2
    <3>5. after <= Len(lines) /\ \A j \in k .. after - 1 : lines[j] = "comment"
      BY <1>1, <3>2, <3>4
    <3>6. k \in i + 1 .. after
      BY <1>1, <1>6, <1>10, <3>3
    <3> QED
      BY <1>6, <1>10, <3>5, <3>6
  <2>2. i \in Above(lines, k) \union {0} /\ \A h \in Above(lines, k) \union {0} : h <= i
    BY <1>1, <1>6, <1>10 DEF Above
  <2>3. Owner(lines, k) = i
    <3>1. Above(lines, k) \union {0} \in SUBSET Int
      BY DEF Above
    <3>2. Max(Above(lines, k) \union {0}) = i
      BY <2>2, <3>1, MaxIs
    <3> QED
      BY <1>7, <2>1, <3>2
  <2> QED
    BY <1>3, <1>4, <1>5, <1>6, <1>10, <2>3
<1>11. CASE k >= e
  <2>1. Owner(lines, k) # i
    <3>1. CASE Attached(lines, k) # {}
      <4>1. Min(Attached(lines, k)) \in Attached(lines, k)
        BY <1>7, <3>1, MinIsLeast
      <4> QED
        BY SMTT(60), <1>0, <1>6, <1>7, <1>11, <3>1, <4>1 DEF Attached
    <3>2. CASE Attached(lines, k) = {}
      <4>1. after <= k
        <5>1. SUFFICES ASSUME k < after PROVE FALSE
          BY <1>1
        <5>2. after <= Len(lines) /\ k \in i + 1 .. after
          BY <1>1, <1>6, <1>11, <5>1
        <5>3. after \in Attached(lines, k)
          BY <1>1, <1>6, <1>11, <5>1, <5>2 DEF Attached
        <5> QED
          BY <3>2, <5>3
      <4>2. after \in Above(lines, k) \union {0}
        BY <1>1, <4>1 DEF Above
      <4>3. after <= Max(Above(lines, k) \union {0})
        BY <1>0, <1>7, <4>2, MaxIsGreatest
      <4> QED
        BY <1>1, <1>7, <3>2, <4>3
    <3> QED
      BY <3>1, <3>2
  <2> QED
    BY <1>3, <1>4, <1>5, <1>6, <1>11, <2>1
<1> QED
  BY <1>4, <1>6, <1>8, <1>9, <1>10, <1>11

\* A line is owned by a header, or by none.
LEMMA OwnersAreHeaders ==
  ASSUME NEW lines, Len(lines) \in Nat, NEW k \in 1 .. Len(lines)
  PROVE  /\ Owner(lines, k) \in 0 .. Len(lines)
         /\ Owner(lines, k) # 0 => IsHeader(lines[Owner(lines, k)])
<1>1. /\ Attached(lines, k) \in SUBSET Nat
      /\ Above(lines, k) \union {0} \in SUBSET (0 .. k)
      /\ Owner(lines, k) = IF Attached(lines, k) # {} THEN Min(Attached(lines, k))
                           ELSE Max(Above(lines, k) \union {0})
  BY DEF Attached, Above, Owner
<1>0. k \in Nat /\ Above(lines, k) \union {0} # {}
  OBVIOUS
<1>2. CASE Attached(lines, k) # {}
  <2>1. Min(Attached(lines, k)) \in Attached(lines, k)
    BY <1>1, <1>2, MinIsLeast
  <2> QED
    BY <1>1, <1>2, <2>1 DEF Attached
<1>3. CASE Attached(lines, k) = {}
  <2>1. Max(Above(lines, k) \union {0}) \in Above(lines, k) \union {0}
    BY <1>0, <1>1, MaxIsGreatest
  <2> QED
    BY <1>1, <1>3, <2>1 DEF Above
<1> QED
  BY <1>2, <1>3

\* One turn of the loop.
LEMMA MetadataStepKeeps ==
  ASSUME ScanTypes, MetadataInv, KeepLine \/ StripSection
  PROVE  MetadataInv' /\ at' \in 1 .. Len(Text) + 1
<1>1. /\ sample.scan = "metadata" /\ at \in 1 .. Len(Text) /\ sample' = sample
      /\ Len(Text) \in Nat /\ DOMAIN Text = 1 .. Len(Text)
  BY TextIsSequence DEF KeepLine, StripSection, Scanning, ScanTypes
<1>2. Text' = Text /\ \A k : Owner(Text, k)' = Owner(Text, k)
  BY <1>1 DEF Text, Owner, IsHeader
<1>3. found = {k \in DOMAIN Text : Owner(Text, k) \in 1 .. at - 1 /\ Text[Owner(Text, k)] = "metadata"}
  BY <1>1 DEF MetadataInv
<1>4. CASE KeepLine
  <2>1. /\ at' = at + 1 /\ found' = found /\ Text[at] # "metadata"
    BY <1>4 DEF KeepLine
  <2>2. \A k \in DOMAIN Text :
          Owner(Text, k) \in 1 .. at /\ Text[Owner(Text, k)] = "metadata"
            <=> Owner(Text, k) \in 1 .. at - 1 /\ Text[Owner(Text, k)] = "metadata"
    BY <1>1, <2>1
  <2> QED
    BY <1>1, <1>2, <1>3, <2>1, <2>2 DEF MetadataInv
<1>5. CASE StripSection
  <2>1. /\ at' = NextHeader(Text, at + 1) /\ Text[at] = "metadata"
        /\ found' = found \union (BlockAbove(Text, at, 1) .. SectionEnd(Text, at, at') - 1)
    BY <1>5 DEF StripSection
  <2>2. /\ at' \in at + 1 .. Len(Text) + 1
        /\ \A j \in at + 1 .. at' - 1 : ~ IsHeader(Text[j])
    <3>1. at + 1 \in 1 .. Len(Text) + 1
      BY <1>1
    <3> QED
      BY <1>1, <2>1, <3>1, NextHeaderIs
  <2>3. \A k \in 1 .. Len(Text) :
          Owner(Text, k) = at <=> k \in BlockAbove(Text, at, 1) .. SectionEnd(Text, at, at') - 1
    BY <1>1, <2>1, SectionIsOwned DEF IsHeader
  <2>4. \A k \in 1 .. Len(Text) :
          Owner(Text, k) \in 1 .. at' - 1 <=> Owner(Text, k) \in 1 .. at - 1 \/ Owner(Text, k) = at
    <3>1. ASSUME NEW k \in 1 .. Len(Text)
          PROVE  /\ Owner(Text, k) \in 0 .. Len(Text)
                 /\ Owner(Text, k) \notin at + 1 .. at' - 1
      <4>1. PICK o : o = Owner(Text, k)
        OBVIOUS
      <4>2. o \in 0 .. Len(Text) /\ (o # 0 => IsHeader(Text[o]))
        BY <1>1, <4>1, OwnersAreHeaders
      <4>3. o \notin at + 1 .. at' - 1
        <5>1. SUFFICES ASSUME o \in at + 1 .. at' - 1 PROVE FALSE
          OBVIOUS
        <5>2. ~ IsHeader(Text[o])
          BY <2>2, <5>1
        <5>3. o # 0
          BY <1>1, <5>1
        <5> QED
          BY <4>2, <5>2, <5>3
      <4> QED
        BY <4>1, <4>2, <4>3
    <3> QED
      BY <1>1, <2>2, <3>1
  <2>5. BlockAbove(Text, at, 1) .. SectionEnd(Text, at, at') - 1 \subseteq 1 .. Len(Text)
    <3>1. BlockAbove(Text, at, 1) \in 1 .. at
      BY <1>1, BlockAboveIs
    <3>2. at' <= Len(Text) => BlockAbove(Text, at', at + 1) \in at + 1 .. at'
      <4>1. at' \in Nat /\ at + 1 \in 1 .. at'
        BY <1>1, <2>2
      <4> QED
        BY <4>1, BlockAboveIs
    <3> QED
      BY <1>1, <2>2, <3>1, <3>2 DEF SectionEnd
  <2>6. found' = {k \in 1 .. Len(Text) : Owner(Text, k) \in 1 .. at' - 1 /\ Text[Owner(Text, k)] = "metadata"}
    BY <1>1, <1>3, <2>1, <2>3, <2>4, <2>5
  <2> QED
    BY <1>1, <1>2, <2>2, <2>6 DEF MetadataInv
<1> QED
  BY <1>4, <1>5

(***************************************************************************)
(* without_dependencies: places in the text.                               *)
(***************************************************************************)
\* Braces counted one token further.
Count(src, c, i) == Cardinality({q \in 1 .. i : src[q] = c})
LEMMA CountStep ==
  ASSUME NEW src, NEW c, NEW i \in Nat \ {0}
  PROVE  /\ Count(src, c, i) \in Nat /\ Count(src, c, i - 1) \in Nat
         /\ Count(src, c, i) = Count(src, c, i - 1) + (IF src[i] = c THEN 1 ELSE 0)
<1> DEFINE A == {q \in 1 .. i : src[q] = c}
           B == {q \in 1 .. i - 1 : src[q] = c}
<1>1. IsFiniteSet(A) /\ IsFiniteSet(B)
  <2>1. IsFiniteSet(1 .. i) /\ IsFiniteSet(1 .. i - 1)
    BY FS_Interval
  <2> QED
    BY <2>1, FS_Subset
<1>2. A = IF src[i] = c THEN B \union {i} ELSE B
  OBVIOUS
<1>3. i \notin B
  OBVIOUS
<1> HIDE DEF A, B
<1>4. Cardinality(A) \in Nat /\ Cardinality(B) \in Nat
  BY <1>1, FS_CardinalityType
<1>5. Cardinality(B \union {i}) = Cardinality(B) + 1
  BY <1>1, <1>3, FS_AddElement
<1>6. Cardinality(A) = Cardinality(B) + (IF src[i] = c THEN 1 ELSE 0)
  BY <1>2, <1>4, <1>5
<1> QED
  BY <1>4, <1>6 DEF A, B, Count

\* The depth one token further, and before the first.
LEMMA DepthStep ==
  ASSUME NEW src, NEW i \in Nat \ {0}
  PROVE  /\ DepthAt(src, i) \in Int /\ DepthAt(src, i - 1) \in Int
         /\ DepthAt(src, i) = DepthAt(src, i - 1)
              + (IF src[i] = "open" THEN 1 ELSE 0) - (IF src[i] = "close" THEN 1 ELSE 0)
<1>1. PICK a, b, c, d : /\ a = Count(src, "open", i) /\ b = Count(src, "open", i - 1)
                        /\ c = Count(src, "close", i) /\ d = Count(src, "close", i - 1)
  OBVIOUS
<1>2. a \in Nat /\ b \in Nat /\ a = b + (IF src[i] = "open" THEN 1 ELSE 0)
  BY <1>1, CountStep
<1>3. c \in Nat /\ d \in Nat /\ c = d + (IF src[i] = "close" THEN 1 ELSE 0)
  BY <1>1, CountStep
<1>4. DepthAt(src, i) = a - c /\ DepthAt(src, i - 1) = b - d
  BY <1>1 DEF DepthAt, Count
<1>5. PICK x, y : x = (IF src[i] = "open" THEN 1 ELSE 0) /\ y = (IF src[i] = "close" THEN 1 ELSE 0)
  OBVIOUS
<1>6. x \in 0 .. 1 /\ y \in 0 .. 1
  BY <1>5
<1>7. a = b + x /\ c = d + y
  BY <1>2, <1>3, <1>5
<1>8. a - c \in Int /\ b - d \in Int /\ a - c = ((b - d) + x) - y
  BY <1>2, <1>3, <1>6, <1>7
<1> QED
  BY <1>4, <1>5, <1>8

LEMMA DepthStarts == ASSUME NEW src PROVE DepthAt(src, 0) = 0
<1>1. \A c : {q \in 1 .. 0 : src[q] = c} = {}
  OBVIOUS
<1>2. Cardinality({}) = 0
  BY FS_EmptySet
<1> QED
  BY <1>1, <1>2 DEF DepthAt

\* The last end before a place, and whether the statement ends there.
LEMMA LastEndIs ==
  ASSUME Len(Text) \in Nat, DOMAIN Text = 1 .. Len(Text), NEW i \in 1 .. Len(Text) + 1
  PROVE  /\ LastEnd(i) \in 0 .. i - 1
         /\ LastEnd(i) # 0 => LastEnd(i) \in Ends(Text)
         /\ \A q \in Ends(Text) : q < i => q <= LastEnd(i)
<1> DEFINE S == {q \in Ends(Text) : q < i} \union {0}
<1>1. i - 1 \in Nat /\ S \in SUBSET (0 .. i - 1) /\ S # {}
  <2>1. Ends(Text) \in SUBSET (1 .. Len(Text))
    BY DEF Ends
  <2>2. \A q \in Ends(Text) : q < i => q \in 0 .. i - 1
    BY <2>1
  <2>3. 0 \in 0 .. i - 1 /\ i - 1 \in Nat
    OBVIOUS
  <2>4. S \in SUBSET (0 .. i - 1)
    BY <2>2, <2>3
  <2> QED
    BY <2>3, <2>4
<1>2. PICK m : m = Max(S)
  OBVIOUS
<1>3. m \in S /\ \A x \in S : x <= m
  BY <1>1, <1>2, MaxIsGreatest
<1>4. LastEnd(i) = m
  BY <1>2 DEF LastEnd
<1> QED
  BY <1>1, <1>3, <1>4

\* The last end, one token further.
LEMMA LastEndStep ==
  ASSUME Len(Text) \in Nat, DOMAIN Text = 1 .. Len(Text), NEW i \in 1 .. Len(Text)
  PROVE  LastEnd(i + 1) = IF i \in Ends(Text) THEN i ELSE LastEnd(i)
<1>1. /\ LastEnd(i) \in 0 .. i - 1
      /\ LastEnd(i) # 0 => LastEnd(i) \in Ends(Text)
      /\ \A q \in Ends(Text) : q < i => q <= LastEnd(i)
  BY LastEndIs
<1>2. i + 1 \in 1 .. Len(Text) + 1
  OBVIOUS
<1>3. /\ LastEnd(i + 1) \in 0 .. (i + 1) - 1
      /\ LastEnd(i + 1) # 0 => LastEnd(i + 1) \in Ends(Text)
      /\ \A q \in Ends(Text) : q < i + 1 => q <= LastEnd(i + 1)
  BY <1>2, LastEndIs
<1>4. PICK m, n : m = LastEnd(i) /\ n = LastEnd(i + 1)
  OBVIOUS
<1>5. /\ m \in 0 .. i - 1 /\ n \in 0 .. i
      /\ m # 0 => m \in Ends(Text)
      /\ n # 0 => n \in Ends(Text)
      /\ \A q \in Ends(Text) : q < i => q <= m
      /\ \A q \in Ends(Text) : q < i + 1 => q <= n
  BY <1>1, <1>3, <1>4
<1>6. CASE i \in Ends(Text)
  BY <1>4, <1>5, <1>6
<1>7. CASE i \notin Ends(Text)
  <2>1. n # 0 => n < i /\ n <= m
    BY <1>5, <1>7
  <2>2. m # 0 => m <= n
    BY <1>5
  <2>3. m = n
    BY <1>5, <2>1, <2>2
  <2> QED
    BY <1>4, <1>7, <2>3
<1> QED
  BY <1>6, <1>7

\* The code since the last end, one token further; the code of the statement
\* that ends at a place.
LEMMA CodeSinceStep ==
  ASSUME Len(Text) \in Nat, DOMAIN Text = 1 .. Len(Text), NEW i \in 1 .. Len(Text)
  PROVE  /\ CodeSince(i) \in SUBSET (1 .. i - 1)
         /\ CodeOf(Text, i) = IF IsCode(Text[i]) THEN CodeSince(i) \union {i} ELSE CodeSince(i)
         /\ CodeSince(i + 1) = IF i \in Ends(Text) THEN {} ELSE CodeOf(Text, i)
<1>1. /\ LastEnd(i) \in 0 .. i - 1
      /\ LastEnd(i + 1) = IF i \in Ends(Text) THEN i ELSE LastEnd(i)
  BY LastEndIs, LastEndStep
<1>2. PICK m : m = LastEnd(i)
  OBVIOUS
<1>3. /\ CodeSince(i) = {p \in m + 1 .. i - 1 : IsCode(Text[p])}
      /\ CodeOf(Text, i) = {p \in m + 1 .. i : IsCode(Text[p])}
  BY <1>2 DEF CodeSince, CodeOf, LastEnd
<1>4. (i + 1) - 1 = i
  OBVIOUS
<1>5. CodeSince(i + 1) = IF i \in Ends(Text) THEN {p \in i + 1 .. i : IsCode(Text[p])}
                         ELSE {p \in m + 1 .. i : IsCode(Text[p])}
  BY <1>1, <1>2, <1>4 DEF CodeSince
<1>6. CodeSince(i) \in SUBSET (1 .. i - 1)
  BY <1>1, <1>2, <1>3
<1>7. {p \in m + 1 .. i : IsCode(Text[p])} =
        IF IsCode(Text[i]) THEN {p \in m + 1 .. i - 1 : IsCode(Text[p])} \union {i}
        ELSE {p \in m + 1 .. i - 1 : IsCode(Text[p])}
  <2>1. m + 1 \in 1 .. i
    BY <1>1, <1>2
  <2>2. m + 1 .. i = (m + 1 .. i - 1) \union {i} /\ i \notin m + 1 .. i - 1
    BY <2>1
  <2> QED
    BY <2>2
<1>8. {p \in i + 1 .. i : IsCode(Text[p])} = {}
  OBVIOUS
<1> QED
  BY <1>3, <1>5, <1>6, <1>7, <1>8

\* Where a statement's span would start, one token further.
LEMMA SpanStartStep ==
  ASSUME NEW src, NEW i \in Nat \ {0}
  PROVE  /\ SpanStart(src, i) \in 1 .. i
         /\ SpanStart(src, i + 1) =
              IF IsCode(src[i]) \/ src[i] = "comment" THEN i + 1 ELSE SpanStart(src, i)
<1> DEFINE Stops(n) == {q \in 1 .. n - 1 : IsCode(src[q]) \/ src[q] = "comment"} \union {0}
<1>1. /\ i - 1 \in Nat /\ Stops(i) \in SUBSET (0 .. i - 1) /\ Stops(i) # {}
  OBVIOUS
<1>2. PICK m : m = Max(Stops(i))
  OBVIOUS
<1>3. m \in Stops(i) /\ \A x \in Stops(i) : x <= m
  BY <1>1, <1>2, MaxIsGreatest
<1>4. SpanStart(src, i) = m + 1 /\ SpanStart(src, i + 1) = Max(Stops(i + 1)) + 1
  BY <1>2 DEF SpanStart
<1>5. Stops(i + 1) = IF IsCode(src[i]) \/ src[i] = "comment" THEN Stops(i) \union {i} ELSE Stops(i)
  OBVIOUS
<1> HIDE DEF Stops
<1>6. CASE IsCode(src[i]) \/ src[i] = "comment"
  <2>1. Stops(i + 1) = Stops(i) \union {i}
    BY <1>5, <1>6
  <2>2. Stops(i + 1) \in SUBSET Int /\ i \in Stops(i + 1) /\ \A x \in Stops(i + 1) : x <= i
    BY <1>1, <2>1
  <2>3. Max(Stops(i + 1)) = i
    BY <2>2, MaxIs
  <2> QED
    BY <1>1, <1>3, <1>4, <1>6, <2>3
<1>7. CASE ~ (IsCode(src[i]) \/ src[i] = "comment")
  BY <1>1, <1>2, <1>3, <1>4, <1>5, <1>7
<1> QED
  BY <1>6, <1>7

\* The first token may start a span.
LEMMA SpanStarts == ASSUME NEW src PROVE SpanStart(src, 1) = 1
<1>1. {q \in 1 .. 1 - 1 : IsCode(src[q]) \/ src[q] = "comment"} \union {0} = {0}
  OBVIOUS
<1>2. Max({0}) = 0
  BY MaxIs
<1> QED
  BY <1>1, <1>2 DEF SpanStart

(***************************************************************************)
(* without_dependencies: the first tokens of a statement.                  *)
(***************************************************************************)
\* The first token of a statement.
LEMMA OpensFirst ==
  ASSUME NEW i \in DOMAIN Text, NEW deep, deep = 0 \/ Text[i] = "open"
  PROVE  \E p : OpensAt({i}, <<Text[i]>>, deep, p)
<1> DEFINE p == [k \in 1 .. 1 |-> i]
           toks == <<Text[i]>>
<1>1. /\ Len(toks) = 1 /\ toks[1] = Text[i] /\ toks \in Seq(Kinds)
      /\ p \in [1 .. 1 -> {i}] /\ p[1] = i
  BY DEF Kinds
<1>2. \A k \in 1 .. 1 : k = 1
  OBVIOUS
<1>3. 1 \in 1 .. 1
  OBVIOUS
<1> HIDE DEF p, toks
<1>4. OpensAt({i}, toks, deep, p)
  <2>1. Len(toks) \in 0 .. 4
    BY <1>1
  <2>2. \A k \in 1 .. Len(toks) : toks[k] = Text[p[k]]
    BY <1>1, <1>2
  <2>3. \A j, k \in 1 .. Len(toks) : ~ (j < k)
    BY <1>1, <1>2
  <2>4. \A k \in 1 .. Len(toks) : \A q \in {i} : \E j \in 1 .. k : q = p[j]
    BY <1>1, <1>2, <1>3
  <2>5. (\A j \in 1 .. Len(toks) : toks[j] # "open") => deep = 0
    BY <1>1, <1>3
  <2> QED
    BY <1>1, <1>3, <2>1, <2>2, <2>3, <2>4, <2>5 DEF OpensAt
<1> QED
  BY <1>4 DEF toks

\* One more token, kept or not.
LEMMA OpensStep ==
  ASSUME NEW i \in DOMAIN Text, i \in Nat, NEW code \in SUBSET (1 .. i - 1),
         NEW toks, NEW deep, NEW p, OpensAt(code, toks, deep, p),
         NEW later, deep = 0 => later = 0 \/ Text[i] = "open"
  PROVE  \E q : OpensAt(code \union {i},
                        IF deep = 0 /\ Len(toks) < 4 THEN Append(toks, Text[i]) ELSE toks,
                        later, q)
<1>0. PICK n : n = Len(toks)
  OBVIOUS
<1>1. /\ toks \in Seq(Kinds) /\ n = Len(toks) /\ n \in 0 .. 4
      /\ p \in [1 .. n -> code]
      /\ \A k \in 1 .. n : toks[k] = Text[p[k]]
      /\ \A j, k \in 1 .. n : j < k => p[j] < p[k]
      /\ \A k \in 1 .. n : (\A j \in 1 .. k - 1 : toks[j] # "open") =>
           \A q \in code : q <= p[k] => \E j \in 1 .. k : q = p[j]
      /\ (\A j \in 1 .. n : toks[j] # "open") =>
           n = 4 \/ (deep = 0 /\ \A q \in code : \E j \in 1 .. n : q = p[j])
  BY <1>0 DEF OpensAt
<1>2. \A k \in 1 .. n : p[k] \in code /\ p[k] \in Nat /\ p[k] < i
  <2>1. \A x \in code : x \in Nat /\ x < i
    OBVIOUS
  <2> QED
    BY <1>1, <2>1
<1>3. CASE deep = 0 /\ n < 4
  <2> DEFINE more == Append(toks, Text[i])
             r == [k \in 1 .. n + 1 |-> IF k = n + 1 THEN i ELSE p[k]]
  <2>1. /\ Len(more) = n + 1 /\ more \in Seq(Kinds) /\ more[n + 1] = Text[i]
        /\ \A k \in 1 .. n : more[k] = toks[k]
    <3>1. Text[i] \in Kinds
      BY DEF Kinds
    <3> QED
      BY <1>1, <3>1, AppendProperties
  <2>2. /\ r[n + 1] = i /\ \A k \in 1 .. n : r[k] = p[k]
        /\ r \in [1 .. n + 1 -> code \union {i}]
    BY <1>1
  <2>3. \A k \in 1 .. n + 1 : k = n + 1 \/ k \in 1 .. n
    BY <1>1
  <2>4. n + 1 \in 1 .. n + 1 /\ n + 1 \in 0 .. 4 /\ n + 1 # 0 /\ \A k \in 1 .. n : k < n + 1 /\ k \in 1 .. n + 1
    BY <1>1, <1>3
  <2> HIDE DEF more, r
  <2>5. \A k \in 1 .. n + 1 : more[k] = Text[r[k]]
    BY <1>1, <2>1, <2>2, <2>3
  <2>6. \A j, k \in 1 .. n + 1 : j < k => r[j] < r[k]
    <3>1. SUFFICES ASSUME NEW j \in 1 .. n + 1, NEW k \in 1 .. n + 1, j < k PROVE r[j] < r[k]
      OBVIOUS
    <3>2. j \in 1 .. n
      BY <1>1, <3>1
    <3> QED
      BY <1>1, <1>2, <2>2, <2>3, <3>1, <3>2
  <2>7. ASSUME \A j \in 1 .. n : more[j] # "open"
        PROVE  \A q \in code \union {i} : \E j \in 1 .. n + 1 : q = r[j]
    <3>1. \A q \in code : \E j \in 1 .. n : q = p[j]
      BY <1>1, <1>3, <2>1, <2>7
    <3> QED
      BY <2>2, <2>4, <3>1
  <2>8. ASSUME NEW k \in 1 .. n + 1, \A j \in 1 .. k - 1 : more[j] # "open",
               NEW q \in code \union {i}, q <= r[k]
        PROVE  \E j \in 1 .. k : q = r[j]
    <3>1. CASE k = n + 1
      <4>1. k - 1 = n
        BY <1>1, <3>1
      <4> QED
        BY <2>7, <2>8, <3>1, <4>1
    <3>2. CASE k \in 1 .. n
      <4>1. \A j \in 1 .. k - 1 : toks[j] # "open"
        <5>1. \A j \in 1 .. k - 1 : j \in 1 .. n
          BY <1>1, <3>2
        <5> QED
          BY <2>1, <2>8, <5>1
      <4>2. q \in code /\ q <= p[k]
        BY <1>2, <2>2, <2>8, <3>2
      <4>3. PICK j \in 1 .. k : q = p[j]
        BY <1>1, <3>2, <4>1, <4>2
      <4>4. j \in 1 .. n
        BY <1>1, <3>2
      <4> QED
        BY <2>2, <4>3, <4>4
    <3> QED
      BY <2>3, <3>1, <3>2
  <2>9. ASSUME \A j \in 1 .. n + 1 : more[j] # "open"
        PROVE  later = 0 /\ \A q \in code \union {i} : \E j \in 1 .. n + 1 : q = r[j]
    <3>1. Text[i] # "open"
      BY <2>1, <2>4, <2>9
    <3>2. \A j \in 1 .. n : more[j] # "open"
      BY <2>4, <2>9
    <3> QED
      BY <1>3, <2>7, <3>1, <3>2
  <2>10. OpensAt(code \union {i}, more, later, r)
    BY <2>1, <2>2, <2>4, <2>5, <2>6, <2>8, <2>9 DEF OpensAt
  <2> QED
    BY <1>0, <1>3, <2>10 DEF more
<1>4. CASE ~ (deep = 0 /\ n < 4)
  <2>1. p \in [1 .. n -> code \union {i}]
    BY <1>1
  <2>2. ASSUME NEW k \in 1 .. n, \A j \in 1 .. k - 1 : toks[j] # "open",
               NEW q \in code \union {i}, q <= p[k]
        PROVE  \E j \in 1 .. k : q = p[j]
    <3>1. q \in code
      BY <1>2, <2>2
    <3> QED
      BY <1>1, <2>2, <3>1
  <2>3. (\A j \in 1 .. n : toks[j] # "open") => n = 4
    BY <1>1, <1>4
  <2>4. OpensAt(code \union {i}, toks, later, p)
    BY <1>0, <1>1, <2>1, <2>2, <2>3 DEF OpensAt
  <2> QED
    BY <1>0, <1>4, <2>4
<1> QED
  BY <1>3, <1>4

\* The tokens kept of a whole statement are those of a declaration when it
\* declares the dependencies.
LEMMA OpensDeclares ==
  ASSUME NEW e, NEW toks, NEW deep, NEW p, CodeOf(Text, e) \in SUBSET Nat,
         OpensAt(CodeOf(Text, e), toks, deep, p)
  PROVE  toks = Declaration <=> Declares(Text, e)
<1> DEFINE code == CodeOf(Text, e)
<1>0. PICK n : n = Len(toks)
  OBVIOUS
<1>1. /\ toks \in Seq(Kinds) /\ n = Len(toks) /\ n \in 0 .. 4
      /\ p \in [1 .. n -> code]
      /\ \A k \in 1 .. n : toks[k] = Text[p[k]]
      /\ \A j, k \in 1 .. n : j < k => p[j] < p[k]
      /\ \A k \in 1 .. n : (\A j \in 1 .. k - 1 : toks[j] # "open") =>
           \A q \in code : q <= p[k] => \E j \in 1 .. k : q = p[j]
      /\ (\A j \in 1 .. n : toks[j] # "open") =>
           n = 4 \/ (deep = 0 /\ \A q \in code : \E j \in 1 .. n : q = p[j])
  BY <1>0 DEF OpensAt
<1>2. /\ Len(Declaration) = 4 /\ Declaration[1] = "bytes" /\ Declaration[2] = "constant"
      /\ Declaration[3] = "DEPENDENCIES" /\ Declaration[4] = "="
  BY DEF Declaration
<1> HIDE DEF code
<1>3. ASSUME toks = Declaration PROVE Declares(Text, e)
  <2>1. n = 4
    BY <1>1, <1>2, <1>3
  <2>2. /\ 1 \in 1 .. 4 /\ 2 \in 1 .. 4 /\ 3 \in 1 .. 4 /\ 4 \in 1 .. 4
        /\ \A j \in 1 .. 4 : j = 1 \/ j = 2 \/ j = 3 \/ j = 4
        /\ \A j \in 1 .. 4 - 1 : j = 1 \/ j = 2 \/ j = 3
    OBVIOUS
  <2>3. /\ p[1] \in code /\ p[2] \in code /\ p[3] \in code /\ p[4] \in code
        /\ p[1] < p[2] /\ p[2] < p[3] /\ p[3] < p[4]
    BY <1>1, <2>1, <2>2
  <2>4. \A j \in 1 .. 4 - 1 : toks[j] # "open"
    BY <1>2, <1>3, <2>2
  <2>5. \A q \in code : q <= p[4] => q \in {p[1], p[2], p[3], p[4]}
    BY <1>1, <2>1, <2>2, <2>4
  <2>6. <<Text[p[1]], Text[p[2]], Text[p[3]], Text[p[4]]>> = Declaration
    <3>1. /\ Text[p[1]] = "bytes" /\ Text[p[2]] = "constant"
          /\ Text[p[3]] = "DEPENDENCIES" /\ Text[p[4]] = "="
      BY <1>1, <1>2, <1>3, <2>1, <2>2
    <3> QED
      BY <3>1 DEF Declaration
  <2> QED
    BY <2>3, <2>5, <2>6 DEF Declares, code
<1>4. ASSUME Declares(Text, e) PROVE toks = Declaration
  <2>1. PICK p1, p2, p3, p4 \in code :
          /\ p1 < p2 /\ p2 < p3 /\ p3 < p4
          /\ \A q \in code : q <= p4 => q \in {p1, p2, p3, p4}
          /\ <<Text[p1], Text[p2], Text[p3], Text[p4]>> = Declaration
    BY <1>4 DEF Declares, code
  <2>2. /\ Text[p1] = "bytes" /\ Text[p2] = "constant"
        /\ Text[p3] = "DEPENDENCIES" /\ Text[p4] = "="
    BY <2>1 DEF Declaration
  <2>3. \A k \in 1 .. n : p[k] \in code /\ p[k] \in Nat
    BY <1>1 DEF code
  <2>4. p1 \in Nat /\ p2 \in Nat /\ p3 \in Nat /\ p4 \in Nat
    BY DEF code
  <2>5. n >= 1 => p[1] = p1 /\ toks[1] = "bytes"
    <3>1. SUFFICES ASSUME n >= 1 PROVE p[1] = p1
      <4>1. n >= 1 => 1 \in 1 .. n
        BY <1>1
      <4> QED
        BY <1>1, <2>2, <4>1
    <3>2. 1 \in 1 .. n /\ (\A j \in 1 .. 1 - 1 : FALSE) /\ \A j \in 1 .. 1 : j = 1
      BY <1>1, <3>1
    <3>3. \A q \in code : q <= p[1] => q = p[1]
      BY <1>1, <3>2
    <3>4. p1 <= p[1] => p1 = p[1]
      BY <3>3
    <3>5. p[1] <= p4 => p[1] \in {p1, p2, p3, p4}
      BY <2>1, <2>3, <3>2
    <3> QED
      BY <2>1, <2>3, <2>4, <3>2, <3>4, <3>5
  <2>6. n >= 2 => p[2] = p2 /\ toks[2] = "constant"
    <3>1. SUFFICES ASSUME n >= 2 PROVE p[2] = p2
      <4>1. n >= 2 => 2 \in 1 .. n
        BY <1>1
      <4> QED
        BY <1>1, <2>2, <4>1
    <3>2. /\ 1 \in 1 .. n /\ 2 \in 1 .. n /\ p[1] = p1 /\ p[1] < p[2]
          /\ (\A j \in 1 .. 2 - 1 : j = 1) /\ \A j \in 1 .. 2 : j = 1 \/ j = 2
      <4>1. 1 \in 1 .. n /\ 2 \in 1 .. n
        BY <1>1, <3>1
      <4> QED
        BY <1>1, <2>5, <3>1, <4>1
    <3>3. \A j \in 1 .. 2 - 1 : toks[j] # "open"
      BY <1>1, <2>5, <3>1, <3>2
    <3>4. \A q \in code : q <= p[2] => q = p[1] \/ q = p[2]
      BY <1>1, <3>2, <3>3
    <3>5. p2 <= p[2] => p2 = p[2]
      BY <2>1, <2>4, <3>2, <3>4
    <3>6. p[2] <= p4 => p[2] \in {p1, p2, p3, p4}
      BY <2>1, <2>3, <3>2
    <3> QED
      BY <2>1, <2>3, <2>4, <3>2, <3>5, <3>6
  <2>7. n >= 3 => p[3] = p3 /\ toks[3] = "DEPENDENCIES"
    <3>1. SUFFICES ASSUME n >= 3 PROVE p[3] = p3
      <4>1. n >= 3 => 3 \in 1 .. n
        BY <1>1
      <4> QED
        BY <1>1, <2>2, <4>1
    <3>2. /\ 1 \in 1 .. n /\ 2 \in 1 .. n /\ 3 \in 1 .. n
          /\ p[1] = p1 /\ p[2] = p2 /\ p[2] < p[3]
          /\ (\A j \in 1 .. 3 - 1 : j = 1 \/ j = 2) /\ \A j \in 1 .. 3 : j = 1 \/ j = 2 \/ j = 3
      <4>1. 1 \in 1 .. n /\ 2 \in 1 .. n /\ 3 \in 1 .. n
        BY <1>1, <3>1
      <4> QED
        BY <1>1, <2>5, <2>6, <3>1, <4>1
    <3>3. \A j \in 1 .. 3 - 1 : toks[j] # "open"
      BY <1>1, <2>5, <2>6, <3>1, <3>2
    <3>4. \A q \in code : q <= p[3] => q = p[1] \/ q = p[2] \/ q = p[3]
      BY <1>1, <3>2, <3>3
    <3>5. p3 <= p[3] => p3 = p[3]
      BY <2>1, <2>4, <3>2, <3>4
    <3>6. p[3] <= p4 => p[3] \in {p1, p2, p3, p4}
      BY <2>1, <2>3, <3>2
    <3> QED
      BY <2>1, <2>3, <2>4, <3>2, <3>5, <3>6
  <2>8. n >= 4 => p[4] = p4 /\ toks[4] = "="
    <3>1. SUFFICES ASSUME n >= 4 PROVE p[4] = p4
      <4>1. n >= 4 => 4 \in 1 .. n
        BY <1>1
      <4> QED
        BY <1>1, <2>2, <4>1
    <3>2. /\ 1 \in 1 .. n /\ 2 \in 1 .. n /\ 3 \in 1 .. n /\ 4 \in 1 .. n
          /\ p[1] = p1 /\ p[2] = p2 /\ p[3] = p3 /\ p[3] < p[4]
          /\ (\A j \in 1 .. 4 - 1 : j = 1 \/ j = 2 \/ j = 3)
          /\ \A j \in 1 .. 4 : j = 1 \/ j = 2 \/ j = 3 \/ j = 4
      <4>1. 1 \in 1 .. n /\ 2 \in 1 .. n /\ 3 \in 1 .. n /\ 4 \in 1 .. n
        BY <1>1, <3>1
      <4> QED
        BY <1>1, <2>5, <2>6, <2>7, <3>1, <4>1
    <3>3. \A j \in 1 .. 4 - 1 : toks[j] # "open"
      BY <1>1, <2>5, <2>6, <2>7, <3>1, <3>2
    <3>4. \A q \in code : q <= p[4] => q = p[1] \/ q = p[2] \/ q = p[3] \/ q = p[4]
      BY SMTT(60), <1>1, <3>2, <3>3
    <3>5. p4 <= p[4] => p4 = p[4]
      BY <2>1, <2>4, <3>2, <3>4
    <3>6. p[4] <= p4 => p[4] \in {p1, p2, p3, p4}
      BY <2>1, <2>3, <3>2
    <3> QED
      BY <2>1, <2>3, <2>4, <3>2, <3>5, <3>6
  <2>9. n = 4
    <3>1. SUFFICES ASSUME n # 4 PROVE FALSE
      OBVIOUS
    <3>2. \A j \in 1 .. n : /\ j = 1 \/ j = 2 \/ j = 3
                            /\ j = 2 => n >= 2
                            /\ j = 3 => n >= 3
                            /\ n >= 1
      BY <1>1, <3>1
    <3>3. \A j \in 1 .. n : toks[j] # "open" /\ p[j] \in {p1, p2, p3}
      BY <2>5, <2>6, <2>7, <3>2
    <3>4. PICK j \in 1 .. n : p4 = p[j]
      BY <1>1, <3>1, <3>3
    <3> QED
      BY <2>1, <2>4, <3>3, <3>4
  <2>10. toks[1] = "bytes" /\ toks[2] = "constant" /\ toks[3] = "DEPENDENCIES" /\ toks[4] = "="
    BY <2>5, <2>6, <2>7, <2>8, <2>9
  <2>11. PICK S : S = Kinds \union {"bytes", "constant", "DEPENDENCIES", "="}
    OBVIOUS
  <2>12. toks \in Seq(S) /\ Declaration \in Seq(S)
    BY <1>1, <2>11 DEF Declaration
  <2>13. \A j \in 1 .. 4 : toks[j] = Declaration[j]
    <3>1. \A j \in 1 .. 4 : j = 1 \/ j = 2 \/ j = 3 \/ j = 4
      OBVIOUS
    <3> QED
      BY <1>2, <2>10, <3>1
  <2>14. Len(toks) = Len(Declaration) /\ \A j \in 1 .. Len(toks) : toks[j] = Declaration[j]
    BY <1>1, <1>2, <2>9, <2>13
  <2> QED
    BY <2>12, <2>14, SeqEqual
<1> QED
  BY <1>3, <1>4

(***************************************************************************)
(* without_dependencies: one token more.                                   *)
(***************************************************************************)
\* The spans, one token further.
LEMMA SpansStep ==
  ASSUME NEW i \in 1 .. Len(Text), Ends(Text) \in SUBSET Nat
  PROVE  Spans(i + 1) = IF i \in Ends(Text) /\ Declares(Text, i)
                        THEN Spans(i) \union (SpanStart(Text, Min(CodeOf(Text, i))) .. i)
                        ELSE Spans(i)
<1> DEFINE Whole(n) == {x \in Ends(Text) : x < n /\ Declares(Text, x)}
           Span(e) == SpanStart(Text, Min(CodeOf(Text, e))) .. e
<1>1. Whole(i + 1) = IF i \in Ends(Text) /\ Declares(Text, i) THEN Whole(i) \union {i} ELSE Whole(i)
  <2>1. \A x \in Ends(Text) : x < i + 1 <=> x < i \/ x = i
    OBVIOUS
  <2>2. ~ (i < i)
    OBVIOUS
  <2> QED
    BY <2>1, <2>2, Zenon
<1>2. Spans(i + 1) = UNION {Span(e) : e \in Whole(i + 1)} /\ Spans(i) = UNION {Span(e) : e \in Whole(i)}
  BY DEF Spans
<1> HIDE DEF Whole, Span
<1>3. UNION {Span(e) : e \in Whole(i) \union {i}} = (UNION {Span(e) : e \in Whole(i)}) \union Span(i)
  OBVIOUS
<1>4. Span(i) = SpanStart(Text, Min(CodeOf(Text, i))) .. i
  BY DEF Span
<1> HIDE DEF Span
<1>5. Spans(i + 1) = IF i \in Ends(Text) /\ Declares(Text, i) THEN Spans(i) \union Span(i) ELSE Spans(i)
  BY <1>1, <1>2, <1>3
<1> QED
  BY <1>4, <1>5

\* What holds of a snapshot at every token.
DependenciesAt(i) ==
  /\ depth = DepthAt(Text, i - 1)
  /\ runFrom = SpanStart(Text, i)
  /\ CodeSince(i) = {} => depth = 0 /\ stmt = 0
  /\ CodeSince(i) # {} => /\ stmt = SpanStart(Text, Min(CodeSince(i)))
                          /\ \E p : OpensAt(CodeSince(i), tokens, depth, p)
  /\ found = Spans(i)

\* Where the scanner of a snapshot is, and what the invariant says there.
LEMMA DependencyFacts ==
  ASSUME ScanTypes, Scanning("dependencies")
  PROVE  /\ at \in 1 .. Len(Text) /\ at \in Nat \ {0} /\ at \in DOMAIN Text
         /\ Len(Text) \in Nat /\ DOMAIN Text = 1 .. Len(Text)
         /\ Ends(Text) \in SUBSET Nat
         /\ DependencyInv <=> (Balanced(Text) => DependenciesAt(at))
<1>1. /\ sample.scan = "dependencies" /\ at <= Len(Text) /\ at \in 1 .. Len(Text) + 1
      /\ Len(Text) \in Nat /\ DOMAIN Text = 1 .. Len(Text)
  BY TextIsSequence DEF Scanning, ScanTypes
<1>2. at \in 1 .. Len(Text) /\ at \in Nat \ {0} /\ Ends(Text) \in SUBSET Nat
  BY <1>1 DEF Ends
<1> QED
  BY <1>1, <1>2 DEF DependencyInv, DependenciesAt, Statement, Spans

\* The place moves one token on, and the definitions do not read the state.
LEMMA DependencyMoves ==
  ASSUME sample' = sample, at' = at + 1, at \in Nat
  PROVE  DependencyInv' <=>
           (sample.scan = "dependencies" /\ Balanced(Text) =>
              /\ depth' = DepthAt(Text, at)
              /\ runFrom' = SpanStart(Text, at + 1)
              /\ CodeSince(at + 1) = {} => depth' = 0 /\ stmt' = 0
              /\ CodeSince(at + 1) # {} =>
                   /\ stmt' = SpanStart(Text, Min(CodeSince(at + 1)))
                   /\ \E p : OpensAt(CodeSince(at + 1), tokens', depth', p)
              /\ found' = Spans(at + 1))
<1>1. at' - 1 = at
  OBVIOUS
<1>2. Text' = Text
  BY DEF Text
<1>3. Statement' = CodeSince(at + 1)
  BY <1>2 DEF Statement, CodeSince, LastEnd
<1>4. \A p : OpensAt(Statement, tokens, depth, p)' <=> OpensAt(CodeSince(at + 1), tokens', depth', p)
  BY <1>2, <1>3 DEF OpensAt, Kinds
<1>5. DependencyInv' <=>
        (sample.scan = "dependencies" /\ Balanced(Text) =>
           /\ depth' = DepthAt(Text, at' - 1)
           /\ runFrom' = SpanStart(Text, at')
           /\ Statement' = {} => depth' = 0 /\ stmt' = 0
           /\ Statement' # {} => /\ stmt' = SpanStart(Text, Min(Statement'))
                                 /\ \E p : OpensAt(Statement, tokens, depth, p)'
           /\ found' = Spans(at'))
  BY <1>2 DEF DependencyInv, Spans
<1> QED
  BY <1>1, <1>3, <1>4, <1>5

\* Whitespace, NatSpec and comments start and end no statement.
LEMMA SkipKeeps ==
  ASSUME ScanTypes, DependencyInv, ReadSpace \/ ReadComment
  PROVE  DependencyInv' /\ at' \in 1 .. Len(Text) + 1
<1>1. /\ Scanning("dependencies") /\ Text[at] \in {"space", "natspec", "comment"}
      /\ sample' = sample /\ at' = at + 1 /\ found' = found /\ depth' = depth
      /\ stmt' = stmt /\ tokens' = tokens
      /\ runFrom' = IF Text[at] = "comment" THEN at + 1 ELSE runFrom
  BY DEF ReadSpace, ReadComment, lexer, matcher
<1>2. /\ at \in 1 .. Len(Text) /\ at \in Nat \ {0} /\ at \in DOMAIN Text
      /\ Len(Text) \in Nat /\ DOMAIN Text = 1 .. Len(Text)
      /\ Ends(Text) \in SUBSET Nat
      /\ Balanced(Text) => DependenciesAt(at)
  BY <1>1, DependencyFacts
<1>3. /\ ~ IsCode(Text[at]) /\ at \notin Ends(Text)
      /\ Text[at] # "open" /\ Text[at] # "close"
  BY <1>1 DEF IsCode, Ends
<1>4. DepthAt(Text, at) = DepthAt(Text, at - 1)
  <2>1. PICK x, y : x = DepthAt(Text, at) /\ y = DepthAt(Text, at - 1)
    OBVIOUS
  <2>2. x \in Int /\ y \in Int /\ x = y + 0 - 0
    BY <1>2, <1>3, <2>1, DepthStep
  <2> QED
    BY <2>1, <2>2
<1>5. SpanStart(Text, at + 1) = IF Text[at] = "comment" THEN at + 1 ELSE SpanStart(Text, at)
  BY <1>2, <1>3, SpanStartStep
<1>6. CodeSince(at + 1) = CodeSince(at)
  BY <1>2, <1>3, CodeSinceStep
<1>7. Spans(at + 1) = Spans(at)
  BY <1>2, <1>3, SpansStep
<1>8. at' \in 1 .. Len(Text) + 1 /\ at \in Nat
  BY <1>1, <1>2
<1>9. ASSUME Balanced(Text)
      PROVE  /\ depth' = DepthAt(Text, at)
             /\ runFrom' = SpanStart(Text, at + 1)
             /\ CodeSince(at + 1) = {} => depth' = 0 /\ stmt' = 0
             /\ CodeSince(at + 1) # {} =>
                  /\ stmt' = SpanStart(Text, Min(CodeSince(at + 1)))
                  /\ \E p : OpensAt(CodeSince(at + 1), tokens', depth', p)
             /\ found' = Spans(at + 1)
  <2>1. DependenciesAt(at)
    BY <1>2, <1>9
  <2> QED
    BY <1>1, <1>4, <1>5, <1>6, <1>7, <2>1 DEF DependenciesAt
<1> QED
  BY <1>1, <1>8, <1>9, DependencyMoves

\* Code opens a statement, goes on with it or ends it.
LEMMA ReadCodeKeeps ==
  ASSUME ScanTypes, DependencyInv, ReadCode
  PROVE  DependencyInv' /\ at' \in 1 .. Len(Text) + 1
<1> DEFINE code == CodeOf(Text, at)
           before == IF Starts THEN <<>> ELSE tokens
           from == IF Starts THEN runFrom ELSE stmt
           ends == Text[at] \in {"semicolon", "close"} /\ Deeper = 0
<1>1. /\ Scanning("dependencies") /\ IsCode(Text[at])
      /\ sample' = sample /\ at' = at + 1 /\ runFrom' = at + 1 /\ depth' = Deeper
      /\ tokens' = IF depth = 0 /\ Len(before) < Len(Declaration)
                   THEN Append(before, Text[at]) ELSE before
      /\ stmt' = IF ends THEN 0 ELSE from
      /\ found' = IF ends /\ from # 0 /\ tokens' = Declaration
                  THEN found \union (from .. at) ELSE found
  BY DEF ReadCode
<1>2. /\ at \in 1 .. Len(Text) /\ at \in Nat \ {0} /\ at \in DOMAIN Text
      /\ Len(Text) \in Nat /\ DOMAIN Text = 1 .. Len(Text)
      /\ Ends(Text) \in SUBSET Nat
      /\ Balanced(Text) => DependenciesAt(at)
  BY <1>1, DependencyFacts
<1>3. /\ CodeSince(at) \in SUBSET (1 .. at - 1)
      /\ code = CodeSince(at) \union {at}
      /\ CodeSince(at + 1) = IF at \in Ends(Text) THEN {} ELSE code
  BY <1>1, <1>2, CodeSinceStep
<1>4. SpanStart(Text, at + 1) = at + 1 /\ SpanStart(Text, at) \in 1 .. at
  BY <1>1, <1>2, SpanStartStep
<1>5. Spans(at + 1) = IF at \in Ends(Text) /\ Declares(Text, at)
                      THEN Spans(at) \union (SpanStart(Text, Min(code)) .. at)
                      ELSE Spans(at)
  BY <1>2, SpansStep
<1>6. at' \in 1 .. Len(Text) + 1 /\ at \in Nat
  BY <1>1, <1>2
<1> HIDE DEF code, before, from, ends
<1>7. ASSUME Balanced(Text)
      PROVE  /\ depth' = DepthAt(Text, at)
             /\ runFrom' = SpanStart(Text, at + 1)
             /\ CodeSince(at + 1) = {} => depth' = 0 /\ stmt' = 0
             /\ CodeSince(at + 1) # {} =>
                  /\ stmt' = SpanStart(Text, Min(CodeSince(at + 1)))
                  /\ \E p : OpensAt(CodeSince(at + 1), tokens', depth', p)
             /\ found' = Spans(at + 1)
  <2>1. /\ depth = DepthAt(Text, at - 1) /\ runFrom = SpanStart(Text, at)
        /\ CodeSince(at) = {} => depth = 0 /\ stmt = 0
        /\ CodeSince(at) # {} => /\ stmt = SpanStart(Text, Min(CodeSince(at)))
                                 /\ \E p : OpensAt(CodeSince(at), tokens, depth, p)
        /\ found = Spans(at)
    BY <1>2, <1>7 DEF DependenciesAt
  <2>2. depth \in Nat
    <3>1. CASE at = 1
      <4>1. DepthAt(Text, 0) = 0 /\ at - 1 = 0
        BY <3>1, DepthStarts
      <4> QED
        BY <2>1, <4>1
    <3>2. CASE at # 1
      <4>1. at - 1 \in DOMAIN Text /\ at - 1 \in Nat \ {0}
        BY <1>2, <3>2
      <4>2. DepthAt(Text, at - 1) \in Int
        BY <4>1, DepthStep
      <4>3. DepthAt(Text, at - 1) >= 0
        BY <1>7, <4>1 DEF Balanced
      <4> QED
        BY <2>1, <4>2, <4>3
    <3> QED
      BY <3>1, <3>2
  <2>3. Deeper = DepthAt(Text, at)
    <3>1. PICK d : d = DepthAt(Text, at)
      OBVIOUS
    <3>2. /\ d \in Int
          /\ d = depth + (IF Text[at] = "open" THEN 1 ELSE 0) - (IF Text[at] = "close" THEN 1 ELSE 0)
      BY <1>2, <2>1, <3>1, DepthStep
    <3>3. d >= 0
      BY <1>2, <1>7, <3>1 DEF Balanced
    <3>4. Deeper = d
      BY <2>2, <3>2, <3>3 DEF Deeper
    <3> QED
      BY <3>1, <3>4
  <2>4. ends <=> at \in Ends(Text)
    BY <1>2, <2>3 DEF Ends, ends
  <2>5. Starts <=> CodeSince(at) = {}
    <3>1. ASSUME CodeSince(at) # {} PROVE stmt # 0
      <4>1. PICK m : m = Min(CodeSince(at))
        OBVIOUS
      <4>2. m \in CodeSince(at)
        <5>1. CodeSince(at) \in SUBSET Nat
          BY <1>3
        <5> QED
          BY <3>1, <4>1, <5>1, MinIsLeast
      <4>3. m \in Nat \ {0}
        BY <1>3, <4>2
      <4>4. SpanStart(Text, m) \in 1 .. m
        BY <4>3, SpanStartStep
      <4> QED
        BY <2>1, <3>1, <4>1, <4>4
    <3> QED
      BY <2>1, <3>1 DEF Starts
  <2>6. from = SpanStart(Text, Min(code)) /\ from # 0
    <3>1. CASE CodeSince(at) = {}
      <4>1. code = {at}
        BY <1>3, <3>1
      <4>2. Min({at}) = at
        <5>1. {at} \in SUBSET Int /\ \A x \in {at} : at <= x
          BY <1>6
        <5> QED
          BY <5>1, MinIs
      <4> QED
        BY <1>4, <2>1, <2>5, <3>1, <4>1, <4>2 DEF from
    <3>2. CASE CodeSince(at) # {}
      <4>1. PICK m : m = Min(CodeSince(at))
        OBVIOUS
      <4>2. m \in CodeSince(at) /\ \A x \in CodeSince(at) : m <= x
        <5>1. CodeSince(at) \in SUBSET Nat
          BY <1>3
        <5> QED
          BY <3>2, <4>1, <5>1, MinIsLeast
      <4>3. code \in SUBSET Int /\ m \in code /\ \A x \in code : m <= x
        BY <1>3, <1>6, <4>2
      <4>4. Min(code) = m
        BY <4>3, MinIs
      <4>5. ~ Starts
        BY <2>5, <3>2
      <4>6. from = stmt /\ stmt = SpanStart(Text, m)
        BY <2>1, <3>2, <4>1, <4>5 DEF from
      <4>7. stmt # 0
        <5>1. m \in Nat \ {0}
          BY <1>3, <4>2
        <5>2. SpanStart(Text, m) \in 1 .. m
          BY <5>1, SpanStartStep
        <5> QED
          BY <4>6, <5>2
      <4> QED
        BY <4>4, <4>6, <4>7
    <3> QED
      BY <3>1, <3>2
  <2>7. depth = 0 => Deeper = 0 \/ Text[at] = "open"
    BY DEF Deeper
  <2>8. \E p : OpensAt(code, tokens', Deeper, p)
    <3>1. CASE CodeSince(at) = {}
      <4>1. depth = 0 /\ before = <<>> /\ code = {at}
        BY <1>3, <2>1, <2>5, <3>1 DEF before
      <4>2. tokens' = <<Text[at]>>
        BY <1>1, <4>1 DEF Declaration
      <4> QED
        BY <1>2, <2>7, <4>1, <4>2, OpensFirst
    <3>2. CASE CodeSince(at) # {}
      <4>1. PICK p : OpensAt(CodeSince(at), tokens, depth, p)
        BY <2>1, <3>2
      <4>2. tokens' = IF depth = 0 /\ Len(tokens) < 4 THEN Append(tokens, Text[at]) ELSE tokens
        BY <1>1, <2>5, <3>2 DEF before, Declaration
      <4> QED
        BY <1>2, <1>3, <1>6, <2>7, <4>1, <4>2, OpensStep
    <3> QED
      BY <3>1, <3>2
  <2>9. tokens' = Declaration <=> Declares(Text, at)
    <3>1. CodeOf(Text, at) \in SUBSET Nat
      BY <1>3, <1>6 DEF code
    <3> QED
      BY <2>8, <3>1, OpensDeclares DEF code
  <2>10. at \in code
    BY <1>3
  <2>11. found' = Spans(at + 1)
    BY <1>1, <1>5, <2>1, <2>4, <2>6, <2>9
  <2>12. CASE at \in Ends(Text)
    <3>1. CodeSince(at + 1) = {} /\ stmt' = 0 /\ depth' = 0
      BY <1>1, <1>3, <2>4, <2>12 DEF ends
    <3> QED
      BY <1>1, <1>4, <2>3, <2>11, <3>1
  <2>13. CASE at \notin Ends(Text)
    <3>1. CodeSince(at + 1) = code /\ code # {} /\ stmt' = from
      BY <1>1, <1>3, <2>4, <2>10, <2>13
    <3> QED
      BY <1>1, <1>4, <2>3, <2>6, <2>8, <2>11, <3>1
  <2> QED
    BY <2>12, <2>13
<1> QED
  BY <1>1, <1>6, <1>7, DependencyMoves

(***************************************************************************)
(* segment_matches: what a cut does between two places of the pattern.     *)
(***************************************************************************)
\* What a cut gives are numbers up to the length of the name.
CutFacts(cut) ==
  /\ \A k \in 0 .. Len(Text) : cut[k] \in 0 .. Len(Name)
  /\ \A k \in 0 .. Len(Text) : cut[k] \in Int
LEMMA CutsAreNumbers ==
  ASSUME Len(Text) \in Nat, Len(Name) \in Nat, NEW cut \in Cuts
  PROVE  CutFacts(cut)
  BY DEF Cuts, CutFacts

\* Along pieces a cut never goes back; along single characters it keeps step.
LEMMA CutsAdvance ==
  ASSUME Len(Text) \in Nat, Len(Name) \in Nat, NEW cut \in Cuts,
         NEW a \in 0 .. Len(Text), NEW b \in a .. Len(Text),
         \A k \in a + 1 .. b : Piece(cut, k)
  PROVE  /\ cut[a] <= cut[b]
         /\ (\A k \in a + 1 .. b : Text[k] # "*") => cut[b] = cut[a] + (b - a)
<1>1. \A k \in 0 .. Len(Text) : cut[k] \in Int
  BY CutsAreNumbers DEF CutFacts
<1> DEFINE T == {m \in Nat : a + m <= b =>
                   /\ cut[a] <= cut[a + m]
                   /\ (\A k \in a + 1 .. b : Text[k] # "*") => cut[a + m] = cut[a] + m}
<1>2. 0 \in T
  BY <1>1
<1>3. ASSUME NEW m \in Nat, m \in T PROVE m + 1 \in T
  <2>1. SUFFICES ASSUME a + (m + 1) <= b
                 PROVE  /\ cut[a] <= cut[a + (m + 1)]
                        /\ (\A k \in a + 1 .. b : Text[k] # "*") => cut[a + (m + 1)] = cut[a] + (m + 1)
    BY <1>3
  <2>2. PICK k : k = a + (m + 1)
    OBVIOUS
  <2>3. k \in a + 1 .. b /\ k - 1 = a + m /\ k \in 0 .. Len(Text) /\ k - 1 \in 0 .. Len(Text)
    BY <2>1, <2>2
  <2>4. /\ cut[a] <= cut[k - 1]
        /\ (\A j \in a + 1 .. b : Text[j] # "*") => cut[k - 1] = cut[a] + m
    BY <1>3, <2>1, <2>3
  <2>5. IF Text[k] = "*" THEN cut[k] >= cut[k - 1] ELSE cut[k] = cut[k - 1] + 1
    BY <2>3 DEF Piece
  <2>6. cut[a] \in Int /\ cut[k] \in Int /\ cut[k - 1] \in Int
    BY <1>1, <2>3
  <2>7. cut[a] <= cut[k]
    BY <2>4, <2>5, <2>6
  <2>8. ASSUME \A j \in a + 1 .. b : Text[j] # "*" PROVE cut[k] = cut[a] + (m + 1)
    <3>1. Text[k] # "*"
      BY <2>3, <2>8
    <3>2. cut[k] = cut[k - 1] + 1 /\ cut[k - 1] = cut[a] + m
      BY <2>4, <2>5, <2>8, <3>1
    <3> QED
      BY SMTT(60), <2>6, <3>2
  <2> QED
    BY <2>2, <2>7, <2>8
<1>4. Nat \subseteq T
  <2> HIDE DEF T
  <2> QED
    BY <1>2, <1>3, SetInduction
<1>5. b - a \in T /\ a + (b - a) = b
  BY <1>4
<1> QED
  BY <1>5

\* Pieces read the pattern and the name only; a cut changed at one place keeps
\* the pieces that do not touch it.
LEMMA CutChanges ==
  ASSUME Len(Text) \in Nat, Len(Name) \in Nat, NEW cut \in Cuts,
         NEW i \in 1 .. Len(Text), NEW v \in 0 .. Len(Name)
  PROVE  \E new \in Cuts :
           /\ new[i] = v /\ \A k \in 0 .. Len(Text) : k # i => new[k] = cut[k]
           /\ \A k \in 1 .. i - 1 : Piece(cut, k) => Piece(new, k)
<1> DEFINE new == [cut EXCEPT ![i] = v]
<1>1. new \in Cuts /\ new[i] = v /\ \A k \in 0 .. Len(Text) : k # i => new[k] = cut[k]
  BY DEF Cuts
<1> HIDE DEF new
<1>2. \A k \in 1 .. i - 1 : new[k] = cut[k] /\ new[k - 1] = cut[k - 1]
  <2>1. \A k \in 1 .. i - 1 : /\ k \in 0 .. Len(Text) /\ k - 1 \in 0 .. Len(Text)
                              /\ k # i /\ k - 1 # i
    OBVIOUS
  <2> QED
    BY <1>1, <2>1
<1>3. \A k \in 1 .. i - 1 : Piece(cut, k) => Piece(new, k)
  BY <1>2 DEF Piece
<1> QED
  BY <1>1, <1>3

(***************************************************************************)
(* segment_matches: where the matcher is.                                  *)
(***************************************************************************)
\* What the invariant says while the matcher runs.
LEMMA MatchingFacts ==
  ASSUME ScanTypes, GlobInv, Matching
  PROVE  /\ Len(Text) \in Nat /\ Len(Name) \in Nat
         /\ \A j \in 1 .. Len(Name) : Name[j] # "*"
         /\ at \in 1 .. Len(Text) + 1 /\ nameAt \in 1 .. Len(Name) + 1
         /\ star \in 0 .. Len(Text) /\ retry \in 1 .. Len(Name) + 1
         /\ star # 0 => /\ star < at /\ Text[star] = "*"
                        /\ retry <= nameAt /\ (at - 1) - star = nameAt - retry
                        /\ \A k \in star + 1 .. at - 1 :
                             Text[k] # "*" /\ Text[k] \in {"?", Name[retry + (k - (star + 1))]}
         /\ sample.scan = "glob" /\ verdict = "none"
         /\ ReadFits
         /\ Fits(Text, Name) => RestFits
<1>1. sample.scan = "glob" /\ verdict = "none"
  BY DEF Matching
<1> QED
  BY <1>1, TextIsSequence DEF GlobInv, PlaceInv, ScanTypes

\* However the rest is cut, it starts no earlier than the matcher stands, and
\* just there when the last `*` takes what it has taken.
LEMMA RestReaches ==
  ASSUME ScanTypes, GlobInv, Matching, Fits(Text, Name)
  PROVE  \E cut \in Cuts :
           /\ cut[Len(Text)] = Len(Name)
           /\ cut[at - 1] >= nameAt - 1
           /\ star # 0 => cut[star] >= retry - 1
           /\ star = 0 \/ cut[star] = retry - 1 => cut[at - 1] = nameAt - 1
           /\ \A k \in (IF star = 0 THEN at ELSE star + 1) .. Len(Text) : Piece(cut, k)
           /\ \A k \in at .. Len(Text) : Piece(cut, k)
<1>1. /\ Len(Text) \in Nat /\ Len(Name) \in Nat
      /\ at \in 1 .. Len(Text) + 1 /\ nameAt \in 1 .. Len(Name) + 1
      /\ star \in 0 .. Len(Text) /\ retry \in 1 .. Len(Name) + 1
      /\ star # 0 => /\ star < at /\ Text[star] = "*"
                     /\ retry <= nameAt /\ (at - 1) - star = nameAt - retry
                     /\ \A k \in star + 1 .. at - 1 : Text[k] # "*"
      /\ RestFits
  BY MatchingFacts
<1>2. PICK cut \in Cuts :
        /\ cut[Len(Text)] = Len(Name)
        /\ IF star = 0 THEN cut[at - 1] = nameAt - 1 ELSE cut[star] >= retry - 1
        /\ \A k \in (IF star = 0 THEN at ELSE star + 1) .. Len(Text) : Piece(cut, k)
  BY <1>1 DEF RestFits
<1>3. CASE star = 0
  <2>1. cut[at - 1] >= nameAt - 1 /\ \A k \in at .. Len(Text) : Piece(cut, k)
    BY <1>1, <1>2, <1>3
  <2> QED
    BY <1>2, <1>3, <2>1
<1>4. CASE star # 0
  <2>1. /\ star \in 0 .. Len(Text) /\ at - 1 \in star .. Len(Text)
        /\ \A k \in star + 1 .. at - 1 : k \in star + 1 .. Len(Text)
        /\ \A k \in at .. Len(Text) : k \in star + 1 .. Len(Text)
    BY <1>1, <1>4
  <2>2. cut[at - 1] = cut[star] + ((at - 1) - star)
    <3>1. \A k \in star + 1 .. at - 1 : Piece(cut, k)
      BY <1>2, <1>4, <2>1
    <3>2. \A k \in star + 1 .. at - 1 : Text[k] # "*"
      BY <1>1, <1>4
    <3> QED
      BY <1>1, <2>1, <3>1, <3>2, CutsAdvance
  <2>3. cut[star] \in Int /\ cut[star] >= retry - 1
    <3>1. cut[star] \in Int
      BY <1>1, CutsAreNumbers DEF CutFacts
    <3> QED
      BY <1>2, <1>4, <3>1
  <2>4. cut[at - 1] >= nameAt - 1 /\ (cut[star] = retry - 1 => cut[at - 1] = nameAt - 1)
    BY SMTT(60), <1>1, <1>4, <2>2, <2>3
  <2> QED
    BY <1>2, <1>4, <2>1, <2>3, <2>4
<1> QED
  BY <1>3, <1>4

\* Where no character matches, the last `*` must take more, if there is one.
LEMMA StuckHere ==
  ASSUME ScanTypes, GlobInv, Matching, nameAt <= Len(Name), ~ IsOne, ~ IsStar, Fits(Text, Name)
  PROVE  /\ star # 0
         /\ \E cut \in Cuts : /\ cut[Len(Text)] = Len(Name) /\ cut[star] >= retry
                              /\ \A k \in star + 1 .. Len(Text) : Piece(cut, k)
<1>1. /\ Len(Text) \in Nat /\ Len(Name) \in Nat
      /\ at \in 1 .. Len(Text) + 1 /\ nameAt \in 1 .. Len(Name)
      /\ star \in 0 .. Len(Text) /\ retry \in 1 .. Len(Name) + 1
  BY MatchingFacts
<1>2. PICK cut \in Cuts :
        /\ cut[Len(Text)] = Len(Name)
        /\ cut[at - 1] >= nameAt - 1
        /\ star # 0 => cut[star] >= retry - 1
        /\ star = 0 \/ cut[star] = retry - 1 => cut[at - 1] = nameAt - 1
        /\ \A k \in (IF star = 0 THEN at ELSE star + 1) .. Len(Text) : Piece(cut, k)
        /\ \A k \in at .. Len(Text) : Piece(cut, k)
  BY RestReaches
<1>3. cut[at - 1] # nameAt - 1
  <2>1. SUFFICES ASSUME cut[at - 1] = nameAt - 1 PROVE FALSE
    OBVIOUS
  <2>2. CASE at = Len(Text) + 1
    <3>1. at - 1 = Len(Text)
      BY <1>1, <2>2
    <3> QED
      BY <1>1, <1>2, <2>1, <3>1
  <2>3. CASE at <= Len(Text)
    <3>1. Text[at] # "*" /\ Text[at] \notin {"?", Name[nameAt]}
      BY <2>3 DEF IsOne, IsStar
    <3>2. Piece(cut, at)
      BY <1>1, <1>2, <2>3
    <3>3. cut[at] = (nameAt - 1) + 1 /\ Text[at] \in {"?", Name[cut[at]]}
      BY <2>1, <3>1, <3>2 DEF Piece
    <3>4. cut[at] = nameAt
      BY <1>1, <3>3
    <3> QED
      BY <3>1, <3>3, <3>4
  <2> QED
    BY <1>1, <2>2, <2>3
<1>4. star # 0 /\ cut[star] # retry - 1
  BY <1>2, <1>3
<1>5. cut[star] \in Int
  BY <1>1, CutsAreNumbers DEF CutFacts
<1>6. cut[star] >= retry
  BY <1>1, <1>2, <1>4, <1>5
<1> QED
  BY <1>2, <1>4, <1>6

(***************************************************************************)
(* segment_matches: its steps.                                             *)
(***************************************************************************)
\* A step that ends nothing keeps the invariant when its parts hold after it.
LEMMA GlobMoves ==
  ASSUME sample' = sample, verdict' = "none", PlaceInv', ReadFits', Fits(Text, Name) => RestFits'
  PROVE  GlobInv'
<1>1. Text' = Text /\ Name' = Name
  BY DEF Text, Name
<1>2. Fits(Text, Name)' <=> Fits(Text, Name)
  BY <1>1 DEF Fits
<1> QED
  BY <1>2 DEF GlobInv

\* Pieces and cuts read nothing that a step changes.
LEMMA PiecesStay ==
  ASSUME sample' = sample
  PROVE  /\ Text' = Text /\ Name' = Name /\ Cuts' = Cuts
         /\ \A cut, k : Piece(cut, k)' <=> Piece(cut, k)
<1>1. Text' = Text /\ Name' = Name
  BY DEF Text, Name
<1> QED
  BY <1>1 DEF Cuts, Piece

\* A character matches: both move on.
LEMMA MatchOneKeeps ==
  ASSUME ScanTypes, GlobInv, MatchOne
  PROVE  GlobInv' /\ at' \in 1 .. Len(Text) + 1
<1>1. /\ Matching /\ nameAt <= Len(Name) /\ IsOne
      /\ at' = at + 1 /\ nameAt' = nameAt + 1
      /\ sample' = sample /\ star' = star /\ retry' = retry /\ verdict' = verdict
  BY DEF MatchOne
<1>2. /\ Len(Text) \in Nat /\ Len(Name) \in Nat
      /\ \A j \in 1 .. Len(Name) : Name[j] # "*"
      /\ at \in 1 .. Len(Text) + 1 /\ nameAt \in 1 .. Len(Name) + 1
      /\ star \in 0 .. Len(Text) /\ retry \in 1 .. Len(Name) + 1
      /\ star # 0 => /\ star < at /\ Text[star] = "*"
                     /\ retry <= nameAt /\ (at - 1) - star = nameAt - retry
                     /\ \A k \in star + 1 .. at - 1 :
                          Text[k] # "*" /\ Text[k] \in {"?", Name[retry + (k - (star + 1))]}
      /\ sample.scan = "glob" /\ verdict = "none"
      /\ ReadFits
      /\ Fits(Text, Name) => RestFits
  BY <1>1, MatchingFacts
<1>3. /\ Text' = Text /\ Name' = Name /\ Cuts' = Cuts
      /\ \A cut, k : Piece(cut, k)' <=> Piece(cut, k)
  BY <1>1, PiecesStay
<1>4. /\ at \in 1 .. Len(Text) /\ nameAt \in 1 .. Len(Name)
      /\ Text[at] \in {"?", Name[nameAt]} /\ Text[at] # "*"
  BY <1>1, <1>2 DEF IsOne
<1>5. at' - 1 = at /\ nameAt' - 1 = nameAt /\ at' \in 1 .. Len(Text) + 1
  BY <1>1, <1>4, <1>2
<1>6. PlaceInv'
  <2>1. ASSUME star # 0
        PROVE  /\ star < at' /\ retry <= nameAt' /\ (at' - 1) - star = nameAt' - retry
               /\ \A k \in star + 1 .. at' - 1 :
                    Text[k] # "*" /\ Text[k] \in {"?", Name[retry + (k - (star + 1))]}
    <3>1. star < at' /\ retry <= nameAt' /\ (at' - 1) - star = nameAt' - retry
      BY <1>1, <1>2, <1>4, <2>1
    <3>2. retry + (at - (star + 1)) = nameAt
      BY <1>2, <1>4, <2>1
    <3>3. \A k \in star + 1 .. at' - 1 : k = at \/ k \in star + 1 .. at - 1
      <4>1. star \in Int /\ at \in Int /\ at' - 1 = at
        <5>1. star \in Int
          BY <1>2
        <5>2. at \in Int
          BY <1>2
        <5> QED
          BY <1>5, <5>1, <5>2
      <4>2. \A k \in star + 1 .. at : k = at \/ k \in star + 1 .. at - 1
        BY <4>1
      <4> QED
        BY <4>1, <4>2
    <3> QED
      BY <1>2, <1>4, <2>1, <3>1, <3>2, <3>3
  <2>2. nameAt' \in 1 .. Len(Name) + 1 /\ verdict' \in {"none", "yes", "no"}
    BY <1>1, <1>2, <1>4
  <2> QED
    BY <1>1, <1>2, <1>3, <2>1, <2>2 DEF PlaceInv
<1>7. ReadFits'
  <2>1. PICK cut \in Cuts :
          /\ cut[0] = 0 /\ cut[at - 1] = nameAt - 1 /\ (star # 0 => cut[star] = retry - 1)
          /\ \A k \in 1 .. at - 1 : Piece(cut, k)
    BY <1>2 DEF ReadFits
  <2>2. PICK new \in Cuts :
          /\ new[at] = nameAt /\ \A k \in 0 .. Len(Text) : k # at => new[k] = cut[k]
          /\ \A k \in 1 .. at - 1 : Piece(cut, k) => Piece(new, k)
    <3>1. nameAt \in 0 .. Len(Name)
      BY <1>2, <1>4
    <3> QED
      BY <1>2, <1>4, <3>1, CutChanges
  <2>3. /\ 0 \in 0 .. Len(Text) /\ 0 # at /\ at - 1 \in 0 .. Len(Text) /\ at - 1 # at
        /\ star # 0 => star # at
    BY <1>2, <1>4
  <2>4. new[0] = 0 /\ new[at - 1] = nameAt - 1 /\ (star # 0 => new[star] = retry - 1)
    BY <1>2, <2>1, <2>2, <2>3
  <2>5. Piece(new, at)
    <3>1. new[at] = new[at - 1] + 1
      BY <1>2, <2>2, <2>4
    <3> QED
      BY <1>4, <2>2, <3>1 DEF Piece
  <2>6. \A k \in 1 .. at : k = at \/ k \in 1 .. at - 1
    BY <1>2
  <2>7. \A k \in 1 .. at : Piece(new, k)
    BY <2>1, <2>2, <2>5, <2>6
  <2> QED
    BY <1>1, <1>3, <1>5, <2>2, <2>4, <2>7 DEF ReadFits
<1>8. ASSUME Fits(Text, Name) PROVE RestFits'
  <2>1. PICK cut \in Cuts :
          /\ cut[Len(Text)] = Len(Name)
          /\ IF star = 0 THEN cut[at - 1] = nameAt - 1 ELSE cut[star] >= retry - 1
          /\ \A k \in (IF star = 0 THEN at ELSE star + 1) .. Len(Text) : Piece(cut, k)
    BY <1>2, <1>8 DEF RestFits
  <2>2. CASE star = 0
    <3>1. Piece(cut, at)
      BY <1>4, <2>1, <2>2
    <3>2. cut[at] = nameAt
      BY <1>2, <1>4, <2>1, <2>2, <3>1 DEF Piece
    <3>3. \A k \in at + 1 .. Len(Text) : Piece(cut, k)
      BY <1>2, <2>1, <2>2
    <3>4. star' = 0 /\ cut[at' - 1] = nameAt' - 1 /\ \A k \in at' .. Len(Text') : Piece(cut, k)'
      BY <1>1, <1>3, <1>5, <2>2, <3>2, <3>3
    <3> QED
      BY <1>3, <2>1, <3>4 DEF RestFits
  <2>3. CASE star # 0
    <3>1. cut[star] >= retry - 1 /\ \A k \in star + 1 .. Len(Text) : Piece(cut, k)
      BY <2>1, <2>3
    <3> QED
      BY <1>1, <1>3, <2>1, <2>3, <3>1 DEF RestFits
  <2> QED
    BY <2>2, <2>3
<1> QED
  BY <1>1, <1>2, <1>5, <1>6, <1>7, <1>8, GlobMoves

\* A `*` takes nothing yet; what earlier ones took cannot be too little.
LEMMA MeetStarKeeps ==
  ASSUME ScanTypes, GlobInv, MeetStar
  PROVE  GlobInv' /\ at' \in 1 .. Len(Text) + 1
<1>1. /\ Matching /\ nameAt <= Len(Name) /\ IsStar
      /\ star' = at /\ at' = at + 1 /\ retry' = nameAt
      /\ sample' = sample /\ nameAt' = nameAt /\ verdict' = verdict
  BY DEF MeetStar
<1>2. /\ Len(Text) \in Nat /\ Len(Name) \in Nat
      /\ at \in 1 .. Len(Text) + 1 /\ nameAt \in 1 .. Len(Name) + 1
      /\ star \in 0 .. Len(Text) /\ retry \in 1 .. Len(Name) + 1
      /\ sample.scan = "glob" /\ verdict = "none"
      /\ ReadFits
  BY <1>1, MatchingFacts
<1>3. /\ Text' = Text /\ Name' = Name /\ Cuts' = Cuts
      /\ \A cut, k : Piece(cut, k)' <=> Piece(cut, k)
  BY <1>1, PiecesStay
<1>4. at \in 1 .. Len(Text) /\ nameAt \in 1 .. Len(Name) /\ Text[at] = "*"
  BY <1>1, <1>2 DEF IsStar
<1>5. at' - 1 = at /\ at' \in 1 .. Len(Text) + 1 /\ star' # 0
  BY <1>1, <1>2, <1>4
<1>6. PlaceInv'
  <2>1. /\ star' < at' /\ Text[star'] = "*" /\ retry' <= nameAt' /\ (at' - 1) - star' = nameAt' - retry'
        /\ \A k \in star' + 1 .. at' - 1 : FALSE
    BY <1>1, <1>2, <1>4
  <2>2. /\ nameAt' \in 1 .. Len(Name) + 1 /\ verdict' \in {"none", "yes", "no"}
        /\ star' \in 0 .. Len(Text) /\ retry' \in 1 .. Len(Name) + 1
    BY <1>1, <1>2, <1>4
  <2> QED
    BY <1>3, <2>1, <2>2 DEF PlaceInv
<1>7. ReadFits'
  <2>1. PICK cut \in Cuts :
          /\ cut[0] = 0 /\ cut[at - 1] = nameAt - 1
          /\ \A k \in 1 .. at - 1 : Piece(cut, k)
    BY <1>2 DEF ReadFits
  <2>2. PICK new \in Cuts :
          /\ new[at] = nameAt - 1 /\ \A k \in 0 .. Len(Text) : k # at => new[k] = cut[k]
          /\ \A k \in 1 .. at - 1 : Piece(cut, k) => Piece(new, k)
    <3>1. nameAt - 1 \in 0 .. Len(Name)
      BY <1>2, <1>4
    <3> QED
      BY <1>2, <1>4, <3>1, CutChanges
  <2>3. 0 \in 0 .. Len(Text) /\ 0 # at /\ at - 1 \in 0 .. Len(Text) /\ at - 1 # at
    BY <1>2, <1>4
  <2>4. new[0] = 0 /\ new[at - 1] = nameAt - 1
    BY <2>1, <2>2, <2>3
  <2>5. Piece(new, at)
    <3>1. new[at] >= new[at - 1]
      BY <1>2, <2>2, <2>4
    <3> QED
      BY <1>4, <3>1 DEF Piece
  <2>6. \A k \in 1 .. at : k = at \/ k \in 1 .. at - 1
    BY <1>2
  <2>7. \A k \in 1 .. at : Piece(new, k)
    BY <2>1, <2>2, <2>5, <2>6
  <2> QED
    BY <1>1, <1>3, <1>5, <2>2, <2>4, <2>7 DEF ReadFits
<1>8. ASSUME Fits(Text, Name) PROVE RestFits'
  <2>1. PICK cut \in Cuts :
          /\ cut[Len(Text)] = Len(Name)
          /\ cut[at - 1] >= nameAt - 1
          /\ \A k \in at .. Len(Text) : Piece(cut, k)
    BY <1>1, <1>8, RestReaches
  <2>2. Piece(cut, at) /\ \A k \in at + 1 .. Len(Text) : Piece(cut, k)
    BY <1>2, <1>4, <2>1
  <2>3. cut[at] >= cut[at - 1] /\ cut[at] \in Int /\ cut[at - 1] \in Int
    <3>1. at \in 0 .. Len(Text) /\ at - 1 \in 0 .. Len(Text)
      BY <1>2, <1>4
    <3> QED
      BY <1>2, <1>4, <2>2, <3>1, CutsAreNumbers DEF Piece, CutFacts
  <2>4. cut[at] >= nameAt - 1
    BY <1>2, <2>1, <2>3
  <2>5. cut[star'] >= retry' - 1 /\ \A k \in star' + 1 .. Len(Text) : Piece(cut, k)
    BY <1>1, <2>2, <2>4
  <2> QED
    BY <1>3, <1>5, <2>1, <2>5 DEF RestFits
<1> QED
  BY <1>1, <1>2, <1>5, <1>6, <1>7, <1>8, GlobMoves

\* The last `*` takes one character more: with what it has, nothing fits.
LEMMA BacktrackKeeps ==
  ASSUME ScanTypes, GlobInv, Backtrack
  PROVE  GlobInv' /\ at' \in 1 .. Len(Text) + 1
<1>1. /\ Matching /\ nameAt <= Len(Name) /\ ~ IsOne /\ ~ IsStar /\ star # 0
      /\ at' = star + 1 /\ retry' = retry + 1 /\ nameAt' = retry + 1
      /\ sample' = sample /\ star' = star /\ verdict' = verdict
  BY DEF Backtrack
<1>2. /\ Len(Text) \in Nat /\ Len(Name) \in Nat
      /\ at \in 1 .. Len(Text) + 1 /\ nameAt \in 1 .. Len(Name)
      /\ star \in 1 .. Len(Text) /\ retry \in 1 .. Len(Name)
      /\ star < at /\ Text[star] = "*"
      /\ sample.scan = "glob" /\ verdict = "none"
      /\ ReadFits
  <2>1. /\ Len(Text) \in Nat /\ Len(Name) \in Nat
        /\ at \in 1 .. Len(Text) + 1 /\ nameAt \in 1 .. Len(Name) + 1
        /\ star \in 0 .. Len(Text) /\ retry \in 1 .. Len(Name) + 1
        /\ star < at /\ Text[star] = "*" /\ retry <= nameAt
        /\ sample.scan = "glob" /\ verdict = "none"
        /\ ReadFits
    BY <1>1, MatchingFacts
  <2> QED
    BY <1>1, <2>1
<1>3. /\ Text' = Text /\ Name' = Name /\ Cuts' = Cuts
      /\ \A cut, k : Piece(cut, k)' <=> Piece(cut, k)
  BY <1>1, PiecesStay
<1>5. /\ at' - 1 = star /\ nameAt' - 1 = retry /\ retry' - 1 = retry
      /\ at' \in 1 .. Len(Text) + 1 /\ star' # 0
  BY <1>1, <1>2
<1>6. PlaceInv'
  <2>1. /\ star' < at' /\ Text[star'] = "*" /\ retry' <= nameAt' /\ (at' - 1) - star' = nameAt' - retry'
        /\ \A k \in star' + 1 .. at' - 1 : FALSE
    BY <1>1, <1>2
  <2>2. /\ nameAt' \in 1 .. Len(Name) + 1 /\ verdict' \in {"none", "yes", "no"}
        /\ star' \in 0 .. Len(Text) /\ retry' \in 1 .. Len(Name) + 1
    BY <1>1, <1>2
  <2> QED
    BY <1>3, <2>1, <2>2 DEF PlaceInv
<1>7. ReadFits'
  <2>1. PICK cut \in Cuts :
          /\ cut[0] = 0 /\ cut[star] = retry - 1
          /\ \A k \in 1 .. at - 1 : Piece(cut, k)
    BY <1>1, <1>2 DEF ReadFits
  <2>2. PICK new \in Cuts :
          /\ new[star] = retry /\ \A k \in 0 .. Len(Text) : k # star => new[k] = cut[k]
          /\ \A k \in 1 .. star - 1 : Piece(cut, k) => Piece(new, k)
    <3>1. retry \in 0 .. Len(Name)
      BY <1>2
    <3> QED
      BY <1>2, <3>1, CutChanges
  <2>3. /\ 0 \in 0 .. Len(Text) /\ 0 # star /\ star - 1 \in 0 .. Len(Text) /\ star - 1 # star
        /\ star \in 1 .. at - 1 /\ \A k \in 1 .. star - 1 : k \in 1 .. at - 1
    BY <1>2
  <2>4. new[0] = 0 /\ new[star - 1] = cut[star - 1]
    BY <2>1, <2>2, <2>3
  <2>5. Piece(new, star)
    <3>1. cut[star] >= cut[star - 1] /\ cut[star - 1] \in Int
      BY <1>2, <2>1, <2>3, CutsAreNumbers DEF Piece, CutFacts
    <3>2. new[star] >= new[star - 1]
      BY <1>2, <2>1, <2>2, <2>4, <3>1
    <3> QED
      BY <1>2, <3>2 DEF Piece
  <2>6. \A k \in 1 .. star : k = star \/ k \in 1 .. star - 1
    BY <1>2
  <2>7. \A k \in 1 .. star : Piece(new, k)
    BY <2>1, <2>2, <2>3, <2>5, <2>6
  <2>8. /\ new[at' - 1] = nameAt' - 1 /\ new[star'] = retry' - 1
        /\ \A k \in 1 .. at' - 1 : Piece(new, k)
    BY <1>1, <1>5, <2>2, <2>7
  <2> QED
    BY <1>3, <2>2, <2>4, <2>8 DEF ReadFits
<1>8. ASSUME Fits(Text, Name) PROVE RestFits'
  <2>1. PICK cut \in Cuts : /\ cut[Len(Text)] = Len(Name) /\ cut[star] >= retry
                            /\ \A k \in star + 1 .. Len(Text) : Piece(cut, k)
    BY <1>1, <1>8, StuckHere
  <2>2. cut[star'] >= retry' - 1 /\ \A k \in star' + 1 .. Len(Text) : Piece(cut, k)
    BY <1>1, <1>5, <2>1
  <2> QED
    BY <1>3, <1>5, <2>1, <2>2 DEF RestFits
<1> QED
  BY <1>1, <1>2, <1>5, <1>6, <1>7, <1>8, GlobMoves

\* The verdict changes nothing else.
LEMMA VerdictKeeps ==
  ASSUME GlobInv, sample' = sample, sample.scan = "glob",
         at' = at, nameAt' = nameAt, star' = star, retry' = retry,
         verdict' \in {"yes", "no"},
         verdict' = "yes" <=> Fits(Text, Name)
  PROVE  GlobInv'
<1>1. /\ Text' = Text /\ Name' = Name /\ Cuts' = Cuts
      /\ \A cut, k : Piece(cut, k)' <=> Piece(cut, k)
  BY PiecesStay
<1>2. PlaceInv /\ ReadFits /\ (Fits(Text, Name) => RestFits)
  BY DEF GlobInv
<1>3. PlaceInv'
  BY <1>1, <1>2 DEF PlaceInv
<1>4. ReadFits'
  BY <1>1, <1>2 DEF ReadFits
<1>5. Fits(Text, Name) => RestFits'
  BY <1>1, <1>2 DEF RestFits
<1>6. Fits(Text, Name)' <=> Fits(Text, Name)
  BY <1>1 DEF Fits
<1> QED
  BY <1>3, <1>4, <1>5, <1>6 DEF GlobInv

\* Without a `*` to take more, the name does not fit.
LEMMA MismatchKeeps ==
  ASSUME ScanTypes, GlobInv, Mismatch
  PROVE  GlobInv' /\ at' \in 1 .. Len(Text) + 1
<1>1. /\ Matching /\ nameAt <= Len(Name) /\ ~ IsOne /\ ~ IsStar /\ star = 0
      /\ verdict' = "no" /\ sample' = sample /\ at' = at /\ nameAt' = nameAt
      /\ star' = star /\ retry' = retry
  BY DEF Mismatch
<1>2. ~ Fits(Text, Name)
  BY <1>1, StuckHere
<1>3. sample.scan = "glob" /\ at' \in 1 .. Len(Text) + 1
  BY <1>1 DEF Matching, ScanTypes
<1> QED
  BY <1>1, <1>2, <1>3, VerdictKeeps

\* At the end of the name only `*` may be left of the pattern.
LEMMA NameEndsKeeps ==
  ASSUME ScanTypes, GlobInv, NameEnds
  PROVE  GlobInv' /\ at' \in 1 .. Len(Text) + 1
<1>1. /\ Matching /\ nameAt > Len(Name)
      /\ verdict' = IF \A k \in at .. Len(Text) : Text[k] = "*" THEN "yes" ELSE "no"
      /\ sample' = sample /\ at' = at /\ nameAt' = nameAt /\ star' = star /\ retry' = retry
  BY DEF NameEnds
<1>2. /\ Len(Text) \in Nat /\ Len(Name) \in Nat
      /\ at \in 1 .. Len(Text) + 1 /\ nameAt = Len(Name) + 1
      /\ sample.scan = "glob" /\ ReadFits
  BY <1>1, MatchingFacts
<1>3. ASSUME \A k \in at .. Len(Text) : Text[k] = "*" PROVE Fits(Text, Name)
  <2>1. PICK cut \in Cuts : /\ cut[0] = 0 /\ cut[at - 1] = nameAt - 1
                            /\ \A k \in 1 .. at - 1 : Piece(cut, k)
    BY <1>2 DEF ReadFits
  <2> DEFINE new == [k \in 0 .. Len(Text) |-> IF k < at THEN cut[k] ELSE Len(Name)]
  <2>2. /\ new \in Cuts
        /\ \A k \in 0 .. at - 1 : k \in 0 .. Len(Text) /\ new[k] = cut[k]
        /\ \A k \in at .. Len(Text) : new[k] = Len(Name)
    BY <1>2, CutsAreNumbers DEF Cuts, CutFacts
  <2> HIDE DEF new
  <2>3. cut[at - 1] = Len(Name)
    BY <1>2, <2>1
  <2>4. \A k \in at - 1 .. Len(Text) : new[k] = Len(Name)
    <3>1. at - 1 \in 0 .. at - 1 /\ \A k \in at - 1 .. Len(Text) : k = at - 1 \/ k \in at .. Len(Text)
      BY <1>2
    <3> QED
      BY <2>2, <2>3, <3>1
  <2>5. new[0] = 0 /\ new[Len(Text)] = Len(Name)
    <3>1. 0 \in 0 .. at - 1 /\ Len(Text) \in at - 1 .. Len(Text)
      BY <1>2
    <3> QED
      BY <2>1, <2>2, <2>4, <3>1
  <2>6. ASSUME NEW k \in 1 .. Len(Text) PROVE Piece(new, k)
    <3>1. CASE k < at
      <4>1. k \in 0 .. at - 1 /\ k - 1 \in 0 .. at - 1 /\ k \in 1 .. at - 1
        BY <1>2, <3>1
      <4> QED
        BY <2>1, <2>2, <4>1 DEF Piece
    <3>2. CASE k >= at
      <4>1. k \in at - 1 .. Len(Text) /\ k - 1 \in at - 1 .. Len(Text) /\ k \in at .. Len(Text)
        BY <1>2, <3>2
      <4>2. new[k] >= new[k - 1]
        BY <1>2, <2>4, <4>1
      <4> QED
        BY <1>3, <4>1, <4>2 DEF Piece
    <3> QED
      BY <1>2, <3>1, <3>2
  <2> QED
    BY <2>2, <2>5, <2>6, TextIsSequence DEF Fits, Cuts, Piece
<1>4. ASSUME Fits(Text, Name), NEW x \in at .. Len(Text) PROVE Text[x] = "*"
  <2>1. PICK cut \in Cuts : /\ cut[at - 1] >= nameAt - 1
                            /\ \A k \in at .. Len(Text) : Piece(cut, k)
    BY <1>1, <1>4, RestReaches
  <2>2. /\ at - 1 \in 0 .. Len(Text) /\ x - 1 \in at - 1 .. Len(Text)
        /\ x \in 0 .. Len(Text) /\ x - 1 \in 0 .. Len(Text)
        /\ \A k \in (at - 1) + 1 .. x - 1 : k \in at .. Len(Text)
    BY <1>2
  <2>3. cut[at - 1] <= cut[x - 1]
    BY <1>2, <2>1, <2>2, CutsAdvance
  <2>4. cut[x] \in 0 .. Len(Name) /\ cut[x - 1] \in Int /\ cut[at - 1] \in Int
    BY <1>2, <2>2, CutsAreNumbers DEF CutFacts
  <2>5. cut[x - 1] >= Len(Name)
    BY <1>2, <2>1, <2>3, <2>4
  <2>6. Piece(cut, x)
    BY <2>1
  <2>7. cut[x] # cut[x - 1] + 1
    BY <1>2, <2>4, <2>5
  <2> QED
    BY <2>6, <2>7 DEF Piece
<1>5. verdict' \in {"yes", "no"} /\ (verdict' = "yes" <=> Fits(Text, Name))
  BY <1>1, <1>3, <1>4
<1>6. at' \in 1 .. Len(Text) + 1
  BY <1>1, <1>2
<1> QED
  BY <1>1, <1>2, <1>5, <1>6, VerdictKeeps

(***************************************************************************)
(* The invariant of the scanners.                                          *)
(***************************************************************************)
\* A step of one scanner moves no other.
LEMMA OthersRest ==
  ASSUME sample' = sample
  PROVE  /\ sample.scan # "imports" => ImportInv'
         /\ sample.scan # "metadata" => MetadataInv'
         /\ sample.scan # "dependencies" => DependencyInv'
         /\ sample.scan # "glob" => GlobInv'
  BY DEF ImportInv, MetadataInv, DependencyInv, GlobInv

\* The first state satisfies the invariant,
LEMMA InitScans == ASSUME ScanInit PROVE ScanInv
<1>1. /\ sample \in Samples /\ at = 1 /\ found = {} /\ depth = 0 /\ runFrom = 1 /\ stmt = 0
      /\ nameAt = 1 /\ star = 0 /\ retry = 1 /\ verdict = "none"
  BY DEF ScanInit, ScanStarts
<1>2. inImport = FALSE
  BY Zenon DEF ScanInit, ScanStarts
<1>3. ScanTypes
  <2>1. Text \in Seq({Text[i] : i \in DOMAIN Text})
    BY <1>1, SamplesAssumption DEF SamplesAssumption, Text
  <2>2. Len(Text) \in Nat
    BY <2>1, LenProperties
  <2> QED
    BY <1>1, <2>2 DEF ScanTypes
<1>4. Len(Text) \in Nat /\ DOMAIN Text = 1 .. Len(Text) /\ 1 - 1 = 0
  BY <1>3, TextIsSequence
<1>5. ImportInv
  <2>1. ~ Waits(at - 1)
    BY <1>1 DEF Waits
  <2>2. found = FirstStrings(Text) \intersect (1 .. at - 1)
    BY <1>1
  <2> QED
    BY <1>2, <2>1, <2>2, Zenon DEF ImportInv
<1>6. MetadataInv
  <2>1. \A x : x \notin 1 .. at - 1
    BY <1>1
  <2> QED
    BY <1>1, <2>1 DEF MetadataInv
<1>7. DependencyInv
  <2>1. CodeSince(1) = {}
    <3>1. 1 \in 1 .. Len(Text) + 1
      BY <1>4
    <3>2. LastEnd(1) \in 0 .. 1 - 1
      BY <1>4, <3>1, LastEndIs
    <3>3. LastEnd(1) = 0
      BY <3>2
    <3> QED
      BY <3>3 DEF CodeSince
  <2>2. Spans(1) = {}
    <3>1. \A x \in Ends(Text) : ~ (x < 1)
      BY <1>4 DEF Ends
    <3> QED
      BY <3>1 DEF Spans
  <2>3. depth = DepthAt(Text, at - 1) /\ runFrom = SpanStart(Text, at)
    BY <1>1, <1>4, DepthStarts, SpanStarts
  <2> QED
    BY <1>1, <2>1, <2>2, <2>3 DEF DependencyInv, Statement, Spans
<1>8. GlobInv
  <2>1. SUFFICES ASSUME sample.scan = "glob" PROVE PlaceInv /\ ReadFits /\ (Fits(Text, Name) => RestFits)
    BY <1>1 DEF GlobInv
  <2>2. Len(Name) \in Nat
    BY <1>3, <2>1, TextIsSequence
  <2>3. PlaceInv
    BY <1>1, <1>4, <2>2 DEF PlaceInv
  <2>4. ReadFits
    <3> DEFINE cut == [k \in 0 .. Len(Text) |-> 0]
    <3>1. cut \in Cuts /\ cut[0] = 0
      BY <1>4, <2>2 DEF Cuts
    <3> HIDE DEF cut
    <3>2. cut[at - 1] = nameAt - 1 /\ (\A k \in 1 .. at - 1 : FALSE)
      BY <1>1, <3>1
    <3> QED
      BY <1>1, <3>1, <3>2 DEF ReadFits
  <2>5. ASSUME Fits(Text, Name) PROVE RestFits
    <3>1. PICK cut \in Cuts : /\ cut[0] = 0 /\ cut[Len(Text)] = Len(Name)
                              /\ \A k \in DOMAIN Text : Piece(cut, k)
      BY <2>5 DEF Fits, Piece, Cuts
    <3>2. cut[at - 1] = nameAt - 1 /\ \A k \in at .. Len(Text) : Piece(cut, k)
      BY <1>1, <1>4, <3>1
    <3> QED
      BY <1>1, <3>1, <3>2 DEF RestFits
  <2> QED
    BY <2>3, <2>4, <2>5
<1> QED
  BY <1>3, <1>5, <1>6, <1>7, <1>8 DEF ScanInv

\* every step keeps it,
LEMMA NextScans == ASSUME ScanInv, [ScanNext]_scanVars PROVE ScanInv'
<1>1. ScanTypes /\ ImportInv /\ MetadataInv /\ DependencyInv /\ GlobInv
  BY DEF ScanInv
<1>2. ASSUME sample' = sample, at' \in 1 .. Len(Text) + 1 PROVE ScanTypes'
  BY <1>1, <1>2 DEF ScanTypes, Text
<1>3. CASE KeepLine \/ StripSection
  <2>1. sample' = sample /\ sample.scan = "metadata"
    BY <1>3 DEF KeepLine, StripSection, Scanning
  <2>2. MetadataInv' /\ at' \in 1 .. Len(Text) + 1
    BY <1>1, <1>3, MetadataStepKeeps
  <2> QED
    BY <1>2, <2>1, <2>2, OthersRest DEF ScanInv
<1>4. CASE ReadSpace \/ ReadComment
  <2>1. sample' = sample /\ sample.scan = "dependencies"
    BY <1>4 DEF ReadSpace, ReadComment, Scanning
  <2>2. DependencyInv' /\ at' \in 1 .. Len(Text) + 1
    BY <1>1, <1>4, SkipKeeps
  <2> QED
    BY <1>2, <2>1, <2>2, OthersRest DEF ScanInv
<1>5. CASE ReadCode
  <2>1. sample' = sample /\ sample.scan = "dependencies"
    BY <1>5 DEF ReadCode, Scanning
  <2>2. DependencyInv' /\ at' \in 1 .. Len(Text) + 1
    BY <1>1, <1>5, ReadCodeKeeps
  <2> QED
    BY <1>2, <2>1, <2>2, OthersRest DEF ScanInv
<1>6. CASE ReadImport
  <2>1. sample' = sample /\ sample.scan = "imports"
    BY <1>6, Zenon DEF ReadImport, Scanning
  <2>2. ImportInv' /\ at' \in 1 .. Len(Text) + 1
    BY <1>1, <1>6, ReadImportKeeps
  <2> QED
    BY <1>2, <2>1, <2>2, OthersRest DEF ScanInv
<1>7. CASE MatchOne \/ MeetStar \/ Backtrack \/ Mismatch \/ NameEnds
  <2>1. sample' = sample /\ sample.scan = "glob"
    BY <1>7 DEF MatchOne, MeetStar, Backtrack, Mismatch, NameEnds, Matching
  <2>2. GlobInv' /\ at' \in 1 .. Len(Text) + 1
    BY <1>1, <1>7, MatchOneKeeps, MeetStarKeeps, BacktrackKeeps, MismatchKeeps, NameEndsKeeps
  <2> QED
    BY <1>2, <2>1, <2>2, OthersRest DEF ScanInv
<1>8. CASE ScanDone \/ UNCHANGED scanVars
  <2>1. UNCHANGED scanVars
    BY <1>8 DEF ScanDone
  <2>2. /\ sample' = sample /\ at' = at /\ found' = found /\ depth' = depth /\ runFrom' = runFrom
        /\ stmt' = stmt /\ tokens' = tokens /\ nameAt' = nameAt /\ star' = star
        /\ retry' = retry /\ verdict' = verdict
    BY <2>1 DEF scanVars, lexer, matcher
  <2>3. inImport' = inImport
    BY <2>1 DEF scanVars
  <2>4. Text' = Text /\ Name' = Name
    BY <2>2 DEF Text, Name
  <2>5. ScanTypes'
    BY <1>1, <2>2, <2>4 DEF ScanTypes
  <2>6. ImportInv'
    <3>1. FirstStrings(Text)' = FirstStrings(Text) /\ (Waits(at - 1)' <=> Waits(at - 1))
      BY <2>2, <2>4 DEF FirstStrings, Waits
    <3>2. (sample.scan)' = sample.scan /\ found' = found /\ (1 .. at - 1)' = 1 .. at - 1
      BY <2>2
    <3> QED
      BY <1>1, <2>3, <3>1, <3>2, Zenon DEF ImportInv
  <2>7. MetadataInv'
    <3>1. \A k : Owner(Text, k)' = Owner(Text, k)
      BY <2>4 DEF Owner
    <3>2. (1 .. at - 1)' = 1 .. at - 1 /\ (DOMAIN Text)' = DOMAIN Text
      BY <2>2, <2>4
    <3> QED
      BY <1>1, <2>2, <2>4, <3>1, <3>2 DEF MetadataInv
  <2>8. DependencyInv'
    <3>1. Statement' = Statement
      BY <2>2, <2>4 DEF Statement, CodeSince, LastEnd
    <3>2. \A p : OpensAt(Statement, tokens, depth, p)' <=> OpensAt(Statement, tokens, depth, p)
      BY <2>2, <2>4, <3>1 DEF OpensAt, Kinds
    <3>3. Spans(at)' = Spans(at)
      BY <2>2, <2>4 DEF Spans
    <3>4. DependencyInv <=>
            (sample.scan = "dependencies" /\ Balanced(Text) =>
               /\ depth = DepthAt(Text, at - 1)
               /\ runFrom = SpanStart(Text, at)
               /\ Statement = {} => depth = 0 /\ stmt = 0
               /\ Statement # {} => /\ stmt = SpanStart(Text, Min(Statement))
                                    /\ \E p : OpensAt(Statement, tokens, depth, p)
               /\ found = Spans(at))
      BY DEF DependencyInv, Spans
    <3>5. DependencyInv' <=>
            (sample'.scan = "dependencies" /\ Balanced(Text') =>
               /\ depth' = DepthAt(Text', at' - 1)
               /\ runFrom' = SpanStart(Text', at')
               /\ Statement' = {} => depth' = 0 /\ stmt' = 0
               /\ Statement' # {} => /\ stmt' = SpanStart(Text', Min(Statement'))
                                     /\ \E p : OpensAt(Statement, tokens, depth, p)'
               /\ found' = Spans(at)')
      BY DEF DependencyInv, Spans
    <3> QED
      BY <1>1, <2>2, <2>4, <3>1, <3>2, <3>3, <3>4, <3>5
  <2>9. GlobInv'
    <3>1. Cuts' = Cuts /\ (\A cut, k : Piece(cut, k)' <=> Piece(cut, k)) /\ (Fits(Text, Name)' <=> Fits(Text, Name))
      BY <2>2, <2>4, PiecesStay DEF Fits
    <3> QED
      BY <1>1, <2>2, <2>4, <3>1 DEF GlobInv, PlaceInv, ReadFits, RestFits
  <2> QED
    BY <2>5, <2>6, <2>7, <2>8, <2>9 DEF ScanInv
<1> QED
  BY <1>3, <1>4, <1>5, <1>6, <1>7, <1>8 DEF ScanNext

\* and at the end of a scan it says that what was found is exact.
LEMMA ScansEndExact == ASSUME ScanInv PROVE ScansAreExact
<1>1. SUFFICES ASSUME Scanned
               PROVE  /\ sample.scan = "metadata" => found = OwnedByMetadata(Text)
                      /\ sample.scan = "dependencies" /\ Balanced(Text) => found = DependencySpans(Text)
                      /\ sample.scan = "imports" => found = FirstStrings(Text)
                      /\ sample.scan = "glob" => (verdict = "yes" <=> Fits(Text, Name))
  BY DEF ScansAreExact
<1>2. ScanTypes /\ ImportInv /\ MetadataInv /\ DependencyInv /\ GlobInv
  BY DEF ScanInv
<1>3. Len(Text) \in Nat /\ DOMAIN Text = 1 .. Len(Text) /\ at \in 1 .. Len(Text) + 1
  BY <1>2, TextIsSequence DEF ScanTypes
<1>4. ASSUME sample.scan # "glob" PROVE at - 1 = Len(Text) /\ at = Len(Text) + 1
  BY <1>1, <1>3, <1>4 DEF Scanned
<1>5. ASSUME sample.scan = "metadata" PROVE found = OwnedByMetadata(Text)
  <2>1. ASSUME NEW k \in 1 .. Len(Text)
        PROVE  Owner(Text, k) \in 1 .. Len(Text) <=> Owner(Text, k) # 0
    <3>1. PICK o : o = Owner(Text, k)
      OBVIOUS
    <3>2. o \in 0 .. Len(Text)
      BY <1>3, <3>1, OwnersAreHeaders
    <3> QED
      BY <1>3, <3>1, <3>2
  <2>2. found = {k \in 1 .. Len(Text) : Owner(Text, k) \in 1 .. Len(Text) /\ Text[Owner(Text, k)] = "metadata"}
    BY <1>2, <1>3, <1>4, <1>5 DEF MetadataInv
  <2> QED
    BY <1>3, <2>1, <2>2 DEF OwnedByMetadata
<1>6. ASSUME sample.scan = "dependencies", Balanced(Text) PROVE found = DependencySpans(Text)
  <2>1. {x \in Ends(Text) : x < at /\ Declares(Text, x)} = {x \in Ends(Text) : Declares(Text, x)}
    <3>1. at = Len(Text) + 1
      BY <1>4, <1>6
    <3>2. \A x \in Ends(Text) : x < at
      BY <1>3, <3>1 DEF Ends
    <3> QED
      BY <3>2
  <2> QED
    BY <1>2, <1>6, <2>1 DEF DependencyInv, DependencySpans, Spans
<1>7. ASSUME sample.scan = "imports" PROVE found = FirstStrings(Text)
  <2>1. found = FirstStrings(Text) \intersect (1 .. at - 1)
    BY <1>2, <1>7, Zenon DEF ImportInv
  <2>2. at - 1 = Len(Text)
    BY <1>4, <1>7
  <2> QED
    BY <1>3, <2>1, <2>2 DEF FirstStrings
<1>8. ASSUME sample.scan = "glob" PROVE verdict = "yes" <=> Fits(Text, Name)
  BY <1>1, <1>2, <1>8 DEF GlobInv, PlaceInv, Scanned
<1> QED
  BY <1>5, <1>6, <1>7, <1>8

\* Every scanner finds what its definition says, on every text: ScansAreExact.
THEOREM ScansFindExactly == ScanSpec => []ScansAreExact
<1>1. ScanSpec => []ScanInv
  BY InitScans, NextScans, PTL DEF ScanSpec
<1> QED
  BY <1>1, ScansEndExact, PTL
=============================================================================
