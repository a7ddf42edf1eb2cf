---------------------------- MODULE ToolsProofs ----------------------------
(***************************************************************************)
(* Proofs about the programs that talk to services or run code generators: *)
(* the forwarder of own-node-auth.py, the tasks of subgraph-deploy and the *)
(* artifacts check. They hold for every number of threads, gates, tasks,   *)
(* networks, paths and hooks, and whatever the times and the margin are.   *)
(***************************************************************************)
EXTENDS AuthForwarder, SubgraphDeploy, CopyArtifacts, TLAPS

-----------------------------------------------------------------------------
(* own-node-auth.py: tokens, their lock and the tries of a request *)

Call == [pc : {"want", "mint"} \union Flight, aud : Audience, attempt : Nat,
         fresh : BOOLEAN, drops : Nat, exp : Nat, since : Nat,
         verdict : {"none", "passed", "refused", "expired"}]
Answer == [status : {"200", "401", "502"}, fresh : BOOLEAN, drops : Nat,
           tries : Nat, minting : BOOLEAN]

AuthTypeOK ==
  /\ clock \in Nat
  /\ cache \in [Audience -> Nat]
  /\ lock \in Thread \union {Nobody}
  /\ call \in [Thread -> {NoCall} \union Call]
  /\ open \in [Thread -> SUBSET Audience]
  /\ answer \in [Thread -> {NoAnswer} \union Answer]

\* The lock is held exactly through a mint, so at most one thread mints; what
\* made its mint due when it took the lock still does.
LockInv ==
  \A t \in Thread : call[t].pc = "mint" =>
    /\ lock = t
    /\ \/ call[t].fresh
       \/ cache[call[t].aud] = 0
       \/ cache[call[t].aud] - call[t].since < Margin

\* A mint began in the past.
ClockInv == \A t \in Thread : call[t].pc = "mint" => call[t].since <= clock

\* The tries are spent on drops, and one on a refusal.
TriesInv ==
  \A t \in Thread : call[t].pc # "idle" =>
    /\ call[t].attempt <= Attempts - 1
    /\ call[t].attempt = call[t].drops + (IF call[t].fresh THEN 1 ELSE 0)

AuthIInv == AuthTypeOK /\ LockInv /\ ClockInv /\ TriesInv /\ GivesUpOnlyWhenSpent

\* The forwarder that has served nothing satisfies the invariant.
LEMMA AuthInitIInv == ASSUME NEW n \in Nat, AuthInit(n) PROVE AuthIInv
  BY AuthAssumption DEF AuthAssumption, AuthInit, AuthIInv, AuthTypeOK, LockInv, ClockInv,
     TriesInv, GivesUpOnlyWhenSpent, NoCall, NoAnswer

\* A thread that serves a request has a call of full shape.
LEMMA ServingCall ==
  ASSUME AuthTypeOK, NEW t \in Thread, call[t].pc # "idle"
  PROVE  call[t] \in Call
  BY DEF AuthTypeOK, NoCall

\* An answer given to a client has its type.
LEMMA RespondType ==
  ASSUME AuthTypeOK, NEW t \in Thread, call[t] \in Call,
         NEW status \in {"200", "401", "502"}, Respond(t, status)
  PROVE  /\ call' \in [Thread -> {NoCall} \union Call]
         /\ answer' \in [Thread -> {NoAnswer} \union Answer]
<1>1. [status |-> status, fresh |-> call[t].fresh, drops |-> call[t].drops,
       tries |-> call[t].attempt + 1, minting |-> Doing(t, "mint")] \in Answer
  BY DEF Call, Answer, Doing
<1> QED
  BY <1>1 DEF AuthTypeOK, Respond, Set

\* A call that tries again has its type.
LEMMA RetryType ==
  ASSUME AuthTypeOK, NEW t \in Thread, NEW c \in Call, Retry(t, c)
  PROVE  /\ call' \in [Thread -> {NoCall} \union Call]
         /\ answer' \in [Thread -> {NoAnswer} \union Answer]
<1>1. [c EXCEPT !.pc = "want", !.attempt = @ + 1, !.exp = 0, !.since = 0,
                !.verdict = "none"] \in Call
  <2>1. c.attempt + 1 \in Nat
    BY DEF Call
  <2> QED
    BY <2>1 DEF Call
<1> QED
  BY <1>1 DEF AuthTypeOK, Retry, Set

\* A call that leaves for the gate keeps its type and its tries, and no other
\* call changes.
LEMMA LeaveKeeps ==
  ASSUME AuthTypeOK, NEW t \in Thread, call[t] \in Call, NEW exp \in Nat, Leave(t, exp)
  PROVE  /\ call' \in [Thread -> {NoCall} \union Call]
         /\ call'[t].pc \in Flight
         /\ call'[t].attempt = call[t].attempt
         /\ call'[t].fresh = call[t].fresh
         /\ call'[t].drops = call[t].drops
         /\ \A u \in Thread : u # t => call'[u] = call[u]
<1> DEFINE leg == IF call[t].aud \in open[t] THEN "send" ELSE "resolve"
<1>1. leg \in Flight
  BY DEF Flight
<1>2. call' = [call EXCEPT ![t] = [call[t] EXCEPT !.pc = leg, !.exp = exp, !.since = clock]]
  BY DEF Leave, Set
<1> HIDE DEF leg
<1>3. [call[t] EXCEPT !.pc = leg, !.exp = exp, !.since = clock] \in Call
  BY <1>1 DEF AuthTypeOK, Call
<1>4. call'[t] = [call[t] EXCEPT !.pc = leg, !.exp = exp, !.since = clock]
  BY <1>2 DEF AuthTypeOK
<1> QED
  BY <1>1, <1>2, <1>3, <1>4 DEF AuthTypeOK, Call

\* So does a call that goes on to its next operation, or whose request is sent.
LEMMA ProceedKeeps ==
  ASSUME AuthTypeOK, NEW t \in Thread,
         Resolved(t) \/ NextOperation(t) \/ Connected(t) \/ Sent(t)
  PROVE  /\ call' \in [Thread -> {NoCall} \union Call]
         /\ open' \in [Thread -> SUBSET Audience]
         /\ call[t].pc \in Flight /\ call'[t].pc \in Flight
         /\ call'[t].attempt = call[t].attempt
         /\ call'[t].fresh = call[t].fresh
         /\ call'[t].drops = call[t].drops
         /\ \A u \in Thread : u # t => call'[u] = call[u]
         /\ UNCHANGED <<clock, cache, lock, answer>>
<1>1. call[t].pc \in Flight /\ UNCHANGED <<clock, cache, lock, answer>>
  BY DEF Resolved, NextOperation, Connected, Sent, Proceed, Doing, Flight
<1>2. call[t] \in Call
  BY <1>1, ServingCall DEF Flight
<1>3. open' \in [Thread -> SUBSET Audience]
  <2>1. open' = open \/ open' = [open EXCEPT ![t] = @ \union {call[t].aud}]
    BY DEF Resolved, NextOperation, Connected, Sent
  <2>2. open[t] \union {call[t].aud} \in SUBSET Audience
    BY <1>2 DEF AuthTypeOK, Call
  <2> QED
    BY <2>1, <2>2 DEF AuthTypeOK
<1>4. ASSUME NEW pc \in Flight, NEW since \in Nat,
             NEW verdict \in {"none", "passed", "refused", "expired"},
             call' = [call EXCEPT ![t] = [call[t] EXCEPT !.pc = pc, !.since = since,
                                                         !.verdict = verdict]]
      PROVE  /\ call' \in [Thread -> {NoCall} \union Call]
             /\ call'[t].pc \in Flight
             /\ call'[t].attempt = call[t].attempt
             /\ call'[t].fresh = call[t].fresh
             /\ call'[t].drops = call[t].drops
             /\ \A u \in Thread : u # t => call'[u] = call[u]
  <2>1. [call[t] EXCEPT !.pc = pc, !.since = since, !.verdict = verdict] \in Call
    BY <1>2 DEF Call
  <2>2. call'[t] = [call[t] EXCEPT !.pc = pc, !.since = since, !.verdict = verdict]
    BY <1>4 DEF AuthTypeOK
  <2> QED
    BY <1>2, <1>4, <2>1, <2>2 DEF AuthTypeOK, Call
<1>5. \E pc \in Flight, since \in Nat, verdict \in {"none", "passed", "refused", "expired"} :
        call' = [call EXCEPT ![t] = [call[t] EXCEPT !.pc = pc, !.since = since,
                                                    !.verdict = verdict]]
  <2>1. ASSUME NEW to \in Flight,
               call' = [call EXCEPT ![t] = [call[t] EXCEPT !.pc = to, !.since = clock]]
        PROVE  \E pc \in Flight, since \in Nat,
                  verdict \in {"none", "passed", "refused", "expired"} :
                 call' = [call EXCEPT ![t] = [call[t] EXCEPT !.pc = pc, !.since = since,
                                                             !.verdict = verdict]]
    <3>1. /\ call[t].verdict \in {"none", "passed", "refused", "expired"}
          /\ [call[t] EXCEPT !.pc = to, !.since = clock]
               = [call[t] EXCEPT !.pc = to, !.since = clock, !.verdict = call[t].verdict]
      BY <1>2 DEF Call
    <3> QED
      BY <2>1, <3>1 DEF AuthTypeOK
  <2>2. CASE Resolved(t) \/ NextOperation(t) \/ Connected(t)
    <3>1. \E to \in Flight :
            call' = [call EXCEPT ![t] = [call[t] EXCEPT !.pc = to, !.since = clock]]
      BY <2>2 DEF Resolved, NextOperation, Connected, Proceed, Set, Flight
    <3> QED
      BY <2>1, <3>1
  <2>3. CASE Sent(t)
    <3>1. PICK verdict \in {"passed", "refused", "expired"} :
            Set(t, [call[t] EXCEPT !.pc = "reply", !.since = 0, !.verdict = verdict])
      BY <2>3 DEF Sent
    <3> QED
      BY <3>1 DEF Set, Flight
  <2> QED
    BY <2>2, <2>3
<1> QED
  BY <1>1, <1>3, <1>4, <1>5

\* A mint that ends frees the lock and fills the cache, and leaves for the gate
\* or answers.
LEMMA MintEndsKeeps ==
  ASSUME AuthTypeOK, NEW t \in Thread, MintEnds(t)
  PROVE  /\ call[t] \in Call /\ call[t].pc = "mint"
         /\ cache' \in [Audience -> Nat]
         /\ UNCHANGED <<clock, open>>
         /\ lock' = Nobody
         /\ \A a \in Audience : a # call[t].aud => cache'[a] = cache[a]
         /\ \/ Respond(t, "502")
            \/ \E exp \in Nat : Leave(t, exp) /\ UNCHANGED answer
<1>1. call[t] \in Call /\ call[t].pc = "mint"
  BY ServingCall DEF MintEnds, Doing
<1>2. CASE Respond(t, "502") /\ UNCHANGED cache
  BY <1>1, <1>2 DEF MintEnds, AuthTypeOK
<1>3. ASSUME NEW issued \in call[t].since .. clock,
             cache' = [cache EXCEPT ![call[t].aud] = issued + Lifetime],
             Leave(t, issued + Lifetime), UNCHANGED answer
      PROVE  /\ cache' \in [Audience -> Nat]
             /\ \A a \in Audience : a # call[t].aud => cache'[a] = cache[a]
             /\ \E exp \in Nat : Leave(t, exp) /\ UNCHANGED answer
  <2>1. issued + Lifetime \in Nat
    BY <1>1, AuthAssumption DEF AuthAssumption, AuthTypeOK, Call
  <2> QED
    BY <1>3, <2>1 DEF AuthTypeOK
<1> QED
  BY <1>1, <1>2, <1>3 DEF MintEnds

\* Every step keeps the types.
LEMMA AuthStepType == AuthTypeOK /\ [AuthNext]_authVars => AuthTypeOK'
<1> SUFFICES ASSUME AuthTypeOK, [AuthNext]_authVars PROVE AuthTypeOK'
  OBVIOUS
<1>1. CASE Tick
  BY <1>1 DEF AuthTypeOK, Tick
<1>2. ASSUME NEW t \in Thread, Accept(t) PROVE AuthTypeOK'
  BY <1>2 DEF AuthTypeOK, Accept, Set, Call
<1>3. ASSUME NEW t \in Thread, UseCached(t) PROVE AuthTypeOK'
  <2>1. call[t] \in Call /\ cache[call[t].aud] \in Nat
    BY <1>3, ServingCall DEF UseCached, Doing, AuthTypeOK, Call
  <2> QED
    BY <1>3, <2>1, LeaveKeeps DEF AuthTypeOK, UseCached
<1>4. ASSUME NEW t \in Thread, StartMint(t) PROVE AuthTypeOK'
  <2>1. call[t] \in Call
    BY <1>4, ServingCall DEF StartMint, Doing
  <2>2. [call[t] EXCEPT !.pc = "mint", !.since = clock] \in Call
    BY <2>1 DEF AuthTypeOK, Call
  <2> QED
    BY <1>4, <2>2 DEF AuthTypeOK, StartMint, Set
<1>5. ASSUME NEW t \in Thread, MintEnds(t) PROVE AuthTypeOK'
  <2>1. call[t] \in Call
    BY <1>5, MintEndsKeeps
  <2>2. CASE Respond(t, "502")
    BY <1>5, <2>1, <2>2, MintEndsKeeps, RespondType DEF AuthTypeOK
  <2>3. ASSUME NEW exp \in Nat, Leave(t, exp), UNCHANGED answer PROVE AuthTypeOK'
    BY <1>5, <2>1, <2>3, MintEndsKeeps, LeaveKeeps DEF AuthTypeOK
  <2> QED
    BY <1>5, <2>2, <2>3, MintEndsKeeps
<1>6. ASSUME NEW t \in Thread, Resolved(t) \/ NextOperation(t) \/ Connected(t) \/ Sent(t)
      PROVE  AuthTypeOK'
  BY <1>6, ProceedKeeps DEF AuthTypeOK
<1>7. ASSUME NEW t \in Thread, KeepOrClose(t) \/ open' = [open EXCEPT ![t] = @ \ {call[t].aud}]
      PROVE  open' \in [Thread -> SUBSET Audience]
  BY <1>7 DEF KeepOrClose, AuthTypeOK
<1>8. ASSUME NEW t \in Thread, Dropped(t) PROVE AuthTypeOK'
  <2>1. call[t] \in Call /\ [call[t] EXCEPT !.drops = @ + 1] \in Call
    BY <1>8, ServingCall DEF Dropped, Flight, Call
  <2> QED
    BY <1>7, <1>8, <2>1, RespondType, RetryType DEF AuthTypeOK, Dropped
<1>9. ASSUME NEW t \in Thread, TokenRefused(t) PROVE AuthTypeOK'
  <2>1. call[t] \in Call /\ [call[t] EXCEPT !.fresh = TRUE] \in Call
    BY <1>9, ServingCall DEF TokenRefused, Doing, Call
  <2> QED
    BY <1>7, <1>9, <2>1, RespondType, RetryType DEF AuthTypeOK, TokenRefused
<1>10. ASSUME NEW t \in Thread, Answered(t) PROVE AuthTypeOK'
  <2>1. call[t] \in Call
    BY <1>10, ServingCall DEF Answered, Doing
  <2> QED
    BY <1>7, <1>10, <2>1, RespondType DEF AuthTypeOK, Answered
<1>11. CASE UNCHANGED authVars
  BY <1>11 DEF authVars, AuthTypeOK
<1> QED
  BY <1>1, <1>2, <1>3, <1>4, <1>5, <1>6, <1>8, <1>9, <1>10, <1>11 DEF AuthNext, Serve

\* What becomes of a call that ends, and of one that is tried again.
LEMMA RespondIdles ==
  ASSUME AuthTypeOK, NEW t \in Thread, NEW status, Respond(t, status)
  PROVE  /\ call'[t].pc = "idle"
         /\ \A u \in Thread : u # t => call'[u] = call[u]
  BY DEF AuthTypeOK, Respond, Set, NoCall

\* An answer records how its own call went, and no other changes.
LEMMA RespondAnswers ==
  ASSUME AuthTypeOK, NEW t \in Thread, NEW status, Respond(t, status)
  PROVE  /\ answer'[t].status = status
         /\ answer'[t].fresh = call[t].fresh
         /\ answer'[t].drops = call[t].drops
         /\ answer'[t].tries = call[t].attempt + 1
         /\ \A u \in Thread : u # t => answer'[u] = answer[u]
  BY DEF AuthTypeOK, Respond

\* A retry wants a token again, one try later, and no other call changes.
LEMMA RetryWants ==
  ASSUME AuthTypeOK, NEW t \in Thread, NEW c \in Call, Retry(t, c)
  PROVE  /\ call'[t].pc = "want"
         /\ call'[t].attempt = c.attempt + 1
         /\ call'[t].fresh = c.fresh
         /\ call'[t].drops = c.drops
         /\ \A u \in Thread : u # t => call'[u] = call[u]
<1>1. call'[t] = [c EXCEPT !.pc = "want", !.attempt = @ + 1, !.exp = 0, !.since = 0,
                           !.verdict = "none"]
  BY DEF AuthTypeOK, Retry, Set
<1> QED
  BY <1>1 DEF AuthTypeOK, Retry, Set, Call

\* A send that ends leaves lock, cache and the other threads alone, and its
\* thread without a token.
LEMMA SendEnds ==
  ASSUME AuthTypeOK, NEW t \in Thread, Dropped(t) \/ TokenRefused(t) \/ Answered(t)
  PROVE  /\ call'[t].pc \in {"idle", "want"}
         /\ \A u \in Thread : u # t => call'[u] = call[u]
         /\ UNCHANGED <<clock, lock, cache>>
<1>1. call[t] \in Call
  BY ServingCall DEF Dropped, TokenRefused, Answered, Doing, Flight
<1>2. /\ [call[t] EXCEPT !.drops = @ + 1] \in Call
      /\ [call[t] EXCEPT !.fresh = TRUE] \in Call
  <2>1. call[t].drops + 1 \in Nat
    BY <1>1 DEF Call
  <2> QED
    BY <1>1, <2>1 DEF Call
<1>3. UNCHANGED <<clock, lock, cache>>
  BY DEF Dropped, TokenRefused, Answered
<1>4. ASSUME NEW status, Respond(t, status)
      PROVE  /\ call'[t].pc \in {"idle", "want"}
             /\ \A u \in Thread : u # t => call'[u] = call[u]
  BY <1>4, RespondIdles
<1>5. ASSUME NEW c \in Call, Retry(t, c)
      PROVE  /\ call'[t].pc \in {"idle", "want"}
             /\ \A u \in Thread : u # t => call'[u] = call[u]
  BY <1>5, RetryWants
<1>6. \/ \E status \in {"200", "401", "502"} : Respond(t, status)
      \/ \E c \in Call : Retry(t, c)
  <2>1. CASE Dropped(t)
    BY <1>2, <2>1 DEF Dropped
  <2>2. CASE TokenRefused(t)
    BY <1>2, <2>2 DEF TokenRefused
  <2>3. CASE Answered(t)
    BY <2>3 DEF Answered
  <2> QED
    BY <2>1, <2>2, <2>3
<1> QED
  BY <1>3, <1>4, <1>5, <1>6

\* Every step keeps a mint under the lock, due, and begun in the past.
LEMMA AuthStepLock ==
  AuthTypeOK /\ LockInv /\ ClockInv /\ [AuthNext]_authVars => LockInv' /\ ClockInv'
<1> SUFFICES ASSUME AuthTypeOK, LockInv, ClockInv, [AuthNext]_authVars
             PROVE  LockInv' /\ ClockInv'
  OBVIOUS
<1>1. CASE Tick
  <2>1. \A t \in Thread : call[t].pc = "mint" => call[t].since \in Nat
    BY ServingCall DEF Call
  <2> QED
    BY <1>1, <2>1 DEF LockInv, ClockInv, Tick, AuthTypeOK
<1>2. ASSUME NEW t \in Thread, Accept(t) PROVE LockInv' /\ ClockInv'
  BY <1>2 DEF LockInv, ClockInv, Accept, Set, AuthTypeOK
<1>3. ASSUME NEW t \in Thread, UseCached(t) PROVE LockInv' /\ ClockInv'
  <2>1. call[t] \in Call /\ cache[call[t].aud] \in Nat
    BY <1>3, ServingCall DEF UseCached, Doing, AuthTypeOK, Call
  <2> QED
    BY <1>3, <2>1, LeaveKeeps DEF LockInv, ClockInv, UseCached, Flight
<1>4. ASSUME NEW t \in Thread, StartMint(t) PROVE LockInv' /\ ClockInv'
  <2>1. call[t] \in Call
    BY <1>4, ServingCall DEF StartMint, Doing
  <2>2. \A u \in Thread : u # t => call'[u] = call[u] /\ call[u].pc # "mint"
    BY <1>4, AuthAssumption DEF AuthAssumption, LockInv, StartMint, LockFree, Set, AuthTypeOK
  <2>3. /\ lock' = t
        /\ cache' = cache /\ clock' = clock /\ clock \in Nat
        /\ call'[t] = [call[t] EXCEPT !.pc = "mint", !.since = clock]
    BY <1>4 DEF StartMint, Set, AuthTypeOK
  <2>4. /\ call'[t].fresh = call[t].fresh
        /\ call'[t].aud = call[t].aud
        /\ call'[t].since = clock
    BY <2>1, <2>3 DEF Call
  <2>5. call[t].fresh \/ cache[call[t].aud] = 0 \/ cache[call[t].aud] - clock < Margin
    BY <1>4 DEF StartMint, MintDue
  <2>6. LockInv'
    BY <2>2, <2>3, <2>4, <2>5 DEF LockInv
  <2>7. ASSUME NEW u \in Thread, call'[u].pc = "mint" PROVE call'[u].since <= clock'
    <3>1. u = t
      BY <2>2, <2>7
    <3>2. call'[u].since = clock /\ clock' = clock
      BY <2>3, <2>4, <3>1
    <3>3. clock \in Nat
      BY DEF AuthTypeOK
    <3> QED
      BY <3>2, <3>3
  <2> QED
    BY <2>6, <2>7 DEF ClockInv
<1>5. ASSUME NEW t \in Thread, MintEnds(t) PROVE LockInv' /\ ClockInv'
  <2>1. call[t] \in Call /\ lock = t /\ clock' = clock
    BY <1>5, MintEndsKeeps DEF LockInv
  <2>2. /\ \A u \in Thread : u # t => call'[u] = call[u] /\ call[u].pc # "mint"
        /\ call'[t].pc # "mint"
    <3>1. CASE Respond(t, "502")
      BY <2>1, <3>1, RespondIdles DEF LockInv
    <3>2. ASSUME NEW exp \in Nat, Leave(t, exp)
          PROVE  /\ \A u \in Thread : u # t => call'[u] = call[u] /\ call[u].pc # "mint"
                 /\ call'[t].pc # "mint"
      BY <2>1, <3>2, LeaveKeeps DEF LockInv, Flight
    <3> QED
      BY <1>5, <3>1, <3>2, MintEndsKeeps
  <2> QED
    BY <2>1, <2>2 DEF LockInv, ClockInv
<1>6. ASSUME NEW t \in Thread, Resolved(t) \/ NextOperation(t) \/ Connected(t) \/ Sent(t)
      PROVE  LockInv' /\ ClockInv'
  BY <1>6, ProceedKeeps DEF LockInv, ClockInv, Flight
<1>7. ASSUME NEW t \in Thread, Dropped(t) \/ TokenRefused(t) \/ Answered(t)
      PROVE  LockInv' /\ ClockInv'
  BY <1>7, SendEnds DEF LockInv, ClockInv
<1>8. CASE UNCHANGED authVars
  BY <1>8 DEF authVars, LockInv, ClockInv
<1> QED
  BY <1>1, <1>2, <1>3, <1>4, <1>5, <1>6, <1>7, <1>8 DEF AuthNext, Serve

\* Every step keeps count of the tries and answers errors only when they are
\* spent.
LEMMA AuthStepTries ==
  AuthTypeOK /\ TriesInv /\ GivesUpOnlyWhenSpent /\ [AuthNext]_authVars
    => TriesInv' /\ GivesUpOnlyWhenSpent'
<1> SUFFICES ASSUME AuthTypeOK, TriesInv, GivesUpOnlyWhenSpent, [AuthNext]_authVars
             PROVE  TriesInv' /\ GivesUpOnlyWhenSpent'
  OBVIOUS
<1>1. CASE Tick
  BY <1>1 DEF TriesInv, GivesUpOnlyWhenSpent, Tick
<1>2. ASSUME NEW t \in Thread, Accept(t) PROVE TriesInv' /\ GivesUpOnlyWhenSpent'
  <2>1. PICK a \in Audience :
          Set(t, [pc |-> "want", aud |-> a, attempt |-> 0, fresh |-> FALSE,
                  drops |-> 0, exp |-> 0, since |-> 0, verdict |-> "none"])
    BY <1>2 DEF Accept
  <2> QED
    BY <1>2, <2>1 DEF TriesInv, GivesUpOnlyWhenSpent, Accept, Set, AuthTypeOK, Attempts
<1>3. ASSUME NEW t \in Thread, UseCached(t) \/ StartMint(t)
      PROVE  TriesInv' /\ GivesUpOnlyWhenSpent'
  <2>1. call[t] \in Call /\ call[t].pc = "want" /\ UNCHANGED answer
    BY <1>3, ServingCall DEF UseCached, StartMint, Doing
  <2>2. /\ \A u \in Thread : u # t => call'[u] = call[u]
        /\ call'[t].attempt = call[t].attempt
        /\ call'[t].fresh = call[t].fresh
        /\ call'[t].drops = call[t].drops
    <3>1. CASE UseCached(t)
      <4>1. cache[call[t].aud] \in Nat
        BY <2>1 DEF AuthTypeOK, Call
      <4> QED
        BY <2>1, <3>1, <4>1, LeaveKeeps DEF UseCached
    <3>2. CASE StartMint(t)
      BY <2>1, <3>2 DEF StartMint, Set, AuthTypeOK, Call
    <3> QED
      BY <1>3, <3>1, <3>2
  <2> QED
    BY <2>1, <2>2 DEF TriesInv, GivesUpOnlyWhenSpent
<1>4. ASSUME NEW t \in Thread, MintEnds(t) PROVE TriesInv' /\ GivesUpOnlyWhenSpent'
  <2>1. call[t] \in Call /\ call[t].pc = "mint"
    BY <1>4, MintEndsKeeps
  <2>2. CASE Respond(t, "502")
    <3>1. /\ \A u \in Thread : u # t => answer'[u] = answer[u]
          /\ answer'[t].status = "502" /\ answer'[t].minting
      BY <2>1, <2>2 DEF Respond, AuthTypeOK, Doing
    <3> QED
      BY <2>2, <3>1, RespondIdles DEF TriesInv, GivesUpOnlyWhenSpent
  <2>3. ASSUME NEW exp \in Nat, Leave(t, exp), UNCHANGED answer
        PROVE  TriesInv' /\ GivesUpOnlyWhenSpent'
    <3>1. /\ \A u \in Thread : u # t => call'[u] = call[u]
          /\ call'[t].attempt = call[t].attempt
          /\ call'[t].fresh = call[t].fresh
          /\ call'[t].drops = call[t].drops
      BY <2>1, <2>3, LeaveKeeps
    <3> QED
      BY <2>1, <2>3, <3>1 DEF TriesInv, GivesUpOnlyWhenSpent
  <2> QED
    BY <1>4, <2>2, <2>3, MintEndsKeeps
<1>5. ASSUME NEW t \in Thread, Dropped(t) PROVE TriesInv' /\ GivesUpOnlyWhenSpent'
  <2>1. call[t] \in Call /\ call[t].pc # "idle"
    BY <1>5, ServingCall DEF Dropped, Flight
  <2>2. CASE IsLast(call[t])
    <3>1. Respond(t, "502")
      BY <1>5, <2>2 DEF Dropped
    <3>2. /\ answer'[t].status = "502"
          /\ answer'[t].fresh = call[t].fresh
          /\ answer'[t].drops = call[t].drops
          /\ answer'[t].tries = call[t].attempt + 1
          /\ \A u \in Thread : u # t => answer'[u] = answer[u]
      BY <3>1, RespondAnswers
    <3>3. call'[t].pc = "idle" /\ \A u \in Thread : u # t => call'[u] = call[u]
      BY <3>1, RespondIdles
    <3>4. /\ call[t].attempt = 2
          /\ call[t].attempt = call[t].drops + (IF call[t].fresh THEN 1 ELSE 0)
          /\ call[t].drops \in Nat
      BY <2>1, <2>2 DEF TriesInv, IsLast, Attempts, Call
    <3>5. answer'[t].tries = Attempts /\ (answer'[t].fresh \/ answer'[t].drops = 2)
      BY <3>2, <3>4 DEF Attempts
    <3> QED
      BY <3>2, <3>3, <3>5 DEF TriesInv, GivesUpOnlyWhenSpent
  <2>3. CASE ~IsLast(call[t])
    <3> DEFINE c == [call[t] EXCEPT !.drops = @ + 1]
    <3>1. /\ c \in Call
          /\ c.attempt = call[t].attempt
          /\ c.fresh = call[t].fresh
          /\ c.drops = call[t].drops + 1
      BY <2>1 DEF Call
    <3>2. Retry(t, c) /\ UNCHANGED answer
      BY <1>5, <2>3 DEF Dropped, Retry
    <3>3. /\ call'[t].attempt = call[t].attempt + 1
          /\ call'[t].fresh = call[t].fresh
          /\ call'[t].drops = call[t].drops + 1
          /\ \A u \in Thread : u # t => call'[u] = call[u]
      BY <3>1, <3>2, RetryWants
    <3> QED
      BY <2>1, <2>3, <3>2, <3>3 DEF TriesInv, GivesUpOnlyWhenSpent, IsLast, Attempts, Call
  <2> QED
    BY <2>2, <2>3
<1>6. ASSUME NEW t \in Thread, TokenRefused(t) PROVE TriesInv' /\ GivesUpOnlyWhenSpent'
  <2>1. call[t] \in Call /\ call[t].pc # "idle"
    BY <1>6, ServingCall DEF TokenRefused, Doing
  <2>2. CASE call[t].fresh \/ IsLast(call[t])
    BY <1>6, <2>1, <2>2, RespondIdles, RespondAnswers
    DEF TokenRefused, TriesInv, GivesUpOnlyWhenSpent, IsLast, Attempts, Call
  <2>3. CASE ~(call[t].fresh \/ IsLast(call[t]))
    <3> DEFINE c == [call[t] EXCEPT !.fresh = TRUE]
    <3>1. /\ c \in Call
          /\ c.attempt = call[t].attempt
          /\ c.fresh = TRUE
          /\ c.drops = call[t].drops
      BY <2>1 DEF Call
    <3>2. Retry(t, c) /\ UNCHANGED answer
      BY <1>6, <2>3 DEF TokenRefused, Retry
    <3>3. /\ call'[t].attempt = call[t].attempt + 1
          /\ call'[t].fresh = c.fresh
          /\ call'[t].drops = call[t].drops
          /\ \A u \in Thread : u # t => call'[u] = call[u]
      <4> HIDE DEF c
      <4> QED
        BY <3>1, <3>2, RetryWants
    <3>4. call[t].fresh = FALSE /\ call[t].attempt # 2
      BY <2>1, <2>3 DEF IsLast, Attempts, Call
    <3> HIDE DEF c
    <3>5. /\ call'[t].attempt <= Attempts - 1
          /\ call'[t].attempt = call'[t].drops + (IF call'[t].fresh THEN 1 ELSE 0)
      BY <2>1, <3>1, <3>3, <3>4 DEF TriesInv, Attempts, Call
    <3> QED
      BY <3>2, <3>3, <3>5 DEF TriesInv, GivesUpOnlyWhenSpent
  <2> QED
    BY <2>2, <2>3
<1>7. ASSUME NEW t \in Thread, Answered(t) PROVE TriesInv' /\ GivesUpOnlyWhenSpent'
  <2>1. call[t] \in Call
    BY <1>7, ServingCall DEF Answered, Doing
  <2> QED
    BY <1>7, <2>1, RespondIdles, RespondAnswers DEF Answered, TriesInv, GivesUpOnlyWhenSpent
<1>8. ASSUME NEW t \in Thread, Resolved(t) \/ NextOperation(t) \/ Connected(t) \/ Sent(t)
      PROVE  TriesInv' /\ GivesUpOnlyWhenSpent'
  <2>1. call[t].pc # "idle" /\ UNCHANGED answer
    BY <1>8, ProceedKeeps DEF Flight
  <2> QED
    BY <1>8, <2>1, ProceedKeeps DEF TriesInv, GivesUpOnlyWhenSpent
<1>9. CASE UNCHANGED authVars
  BY <1>9 DEF authVars, TriesInv, GivesUpOnlyWhenSpent
<1> QED
  BY <1>1, <1>2, <1>3, <1>4, <1>5, <1>6, <1>7, <1>8, <1>9 DEF AuthNext, Serve

\* The invariant holds for ever, with any tokens cached at the beginning.
LEMMA AuthInvariance == ASSUME NEW n \in Nat PROVE AuthSpec(n) => []AuthIInv
<1>1. AuthInit(n) => AuthIInv
  BY AuthInitIInv
<1>2. AuthIInv /\ [AuthNext]_authVars => AuthIInv'
  BY AuthStepType, AuthStepLock, AuthStepTries DEF AuthIInv
<1> QED
  BY <1>1, <1>2, PTL DEF AuthSpec

\* own-node-auth.py gives a client an error only when its tries are spent: a 502
\* after as many sends as the loop has, a 401 only for a token minted for this
\* very request, or when drops have used up the sends a fresh one needed.
THEOREM TriesAreSpent == ASSUME NEW n \in Nat PROVE AuthSpec(n) => []GivesUpOnlyWhenSpent
<1>1. AuthIInv => GivesUpOnlyWhenSpent
  BY DEF AuthIInv
<1> QED
  BY <1>1, AuthInvariance, PTL

\* Nobody replaces a token that is not due: whoever waited for the lock looks at
\* the cache again, so a burst of requests mints once, and only a refusal makes
\* a live token due.
THEOREM MintsAreDue == ASSUME NEW n \in Nat PROVE AuthSpec(n) => MintedOnlyWhenDue
<1> DEFINE Due == \A a \in Audience :
        cache'[a] # cache[a] /\ cache[a] # 0 =>
          \/ cache[a] - clock < Margin
          \/ \E t \in Thread : call[t].pc = "mint" /\ call[t].fresh
<1>1. AuthIInv /\ [AuthNext]_authVars => [Due]_authVars
  <2> SUFFICES ASSUME AuthIInv, AuthNext, NEW a \in Audience,
                      cache'[a] # cache[a], cache[a] # 0
               PROVE  \/ cache[a] - clock < Margin
                      \/ \E t \in Thread : call[t].pc = "mint" /\ call[t].fresh
    OBVIOUS
  <2>1. PICK t \in Thread : MintEnds(t)
    BY DEF AuthNext, Tick, Accept, Serve, UseCached, StartMint, Resolved, NextOperation,
           Connected, Sent, Proceed, Dropped, TokenRefused, Answered
  <2>2. call[t] \in Call /\ call[t].pc = "mint" /\ AuthTypeOK
    BY <2>1, MintEndsKeeps DEF AuthIInv
  <2>3. call[t].aud = a
    BY <2>1, <2>2, MintEndsKeeps
  <2>4. call[t].fresh \/ cache[a] - call[t].since < Margin
    BY <2>2, <2>3 DEF AuthIInv, LockInv
  <2>5. call[t].since <= clock
    BY <2>2 DEF AuthIInv, ClockInv
  <2>6. cache[a] \in Nat /\ clock \in Nat /\ call[t].since \in Nat /\ Margin \in Nat
    BY <2>2, AuthAssumption DEF AuthAssumption, AuthTypeOK, Call
  <2>7. CASE call[t].fresh
    BY <2>2, <2>7
  <2>8. CASE cache[a] - call[t].since < Margin
    BY <2>5, <2>6, <2>8
  <2> QED
    BY <2>4, <2>7, <2>8
<1> QED
  BY <1>1, AuthInvariance, PTL DEF AuthSpec, MintedOnlyWhenDue

-----------------------------------------------------------------------------
(* subgraph-deploy: what Ormi hosts and what a task owes *)

IsRevision(r) == r.networks \in Seq(Network) /\ r.builds \in [Network -> Build]

SubgraphTypeOK ==
  /\ \A t \in Task : IsRevision(revision[t])
  /\ ormi \subseteq Version
  /\ queue \in [Task -> Seq(Network)]
  /\ at \in [Task -> {"start", "next", "probe", "deploy"}]
  /\ built \in [Task -> Build \union {NoBuild}]
  /\ lost \in [Task -> SUBSET Network]
  /\ outcome \in [Task -> {"running", "green", "red"}]
  /\ tries \in [Task -> Nat]
  /\ wasHosted \in [Task -> BOOLEAN]

\* What a label stands for: its build.
LabelsTrue == \A v \in ormi : v.label = v.build

\* A listed network is waiting, lost or hosted.
Waiting(t, n) == \E i \in DOMAIN queue[t] : queue[t][i] = n
Dealt(t) ==
  \A n \in Listed(t) :
    Waiting(t, n) \/ n \in lost[t] \/ Hosted(n, revision[t].builds[n])

TaskInv(t) ==
  /\ at[t] # "start" /\ t \notin unlisted => Dealt(t)
  /\ at[t] \in {"probe", "deploy"} =>
       queue[t] # <<>> /\ built[t] = revision[t].builds[Current(t)]
  /\ outcome[t] = "green" => queue[t] = <<>> /\ lost[t] = {} /\ at[t] = "next"
  /\ at[t] = "deploy" =>
       ~wasHosted[t] /\ Current(t) \in PlainName /\ revision[t].base = "https"

SubgraphIInv == SubgraphTypeOK /\ LabelsTrue /\ \A t \in Task : TaskInv(t)

\* The elements of a sequence are its head and those of its tail.
LEMMA HeadAndTail ==
  ASSUME NEW S, NEW s \in Seq(S), s # <<>>
  PROVE  /\ Head(s) \in S
         /\ Tail(s) \in Seq(S)
         /\ \A n : (\E i \in DOMAIN s : s[i] = n) =>
                     n = Head(s) \/ \E j \in DOMAIN Tail(s) : Tail(s)[j] = n
<1>1. Head(s) = s[1] /\ Head(s) \in S /\ Tail(s) \in Seq(S)
  OBVIOUS
<1>2. ASSUME NEW i \in DOMAIN s, i # 1
      PROVE  i - 1 \in DOMAIN Tail(s) /\ Tail(s)[i - 1] = s[i]
  BY <1>2
<1> QED
  BY <1>1, <1>2

\* A task that goes on leaves only the network it was at behind.
LEMMA TailWaits ==
  ASSUME NEW t \in Task, queue[t] \in Seq(Network), queue[t] # <<>>,
         queue'[t] = Tail(queue[t])
  PROVE  \A n : Waiting(t, n) => n = Current(t) \/ Waiting(t, n)'
<1> SUFFICES ASSUME NEW n, Waiting(t, n) PROVE n = Current(t) \/ Waiting(t, n)'
  OBVIOUS
<1>1. \A m : (\E i \in DOMAIN queue[t] : queue[t][i] = m) =>
        m = Head(queue[t]) \/ \E j \in DOMAIN Tail(queue[t]) : Tail(queue[t])[j] = m
  BY HeadAndTail
<1>2. n = Head(queue[t]) \/ \E j \in DOMAIN Tail(queue[t]) : Tail(queue[t])[j] = n
  BY <1>1 DEF Waiting
<1> QED
  BY <1>2 DEF Waiting, Current

\* An answer is only believed when it is the truth.
LEMMA BelievedIsTrue ==
  ASSUME NEW n, NEW label, NEW r \in Noise \union {Truth(n, label)}
  PROVE  /\ ProbeVerdict(r) = "deployed" => Hosted(n, label)
         /\ ProbeVerdict(r) = "missing" => ~Hosted(n, label)
<1>1. CASE r \in Noise
  <2>1. CASE r \in {Says(0, "transport"), Says(429, "name_error"), Says(503, "block"),
                   Says(404, "name_error")}
    <3>1. r.status \in {0, 429, 503, 404}
      BY <2>1 DEF Says
    <3> QED
      BY <3>1 DEF ProbeVerdict
  <2>2. CASE r \in {Says(200, "html"), Says(200, "list"), Says(200, "account_error"),
                   Says(200, "name_error_and_more")}
    <3>1. r.status = 200 /\ r.body # "block" /\ r.body # "name_error"
      BY <2>2 DEF Says
    <3> QED
      BY <3>1 DEF ProbeVerdict
  <2> QED
    BY <1>1, <2>1, <2>2 DEF Noise
<1>2. CASE r = Truth(n, label)
  <2>1. r.status = 200
    BY <1>2 DEF Truth, Says
  <2>2. CASE Hosted(n, label)
    <3>1. r.body \in {"block", "block_and_errors"}
      BY <1>2, <2>2 DEF Truth, Says
    <3> QED
      BY <2>1, <2>2, <3>1 DEF ProbeVerdict
  <2>3. CASE ~Hosted(n, label)
    <3>1. r.body = "name_error"
      BY <1>2, <2>3 DEF Truth, Says
    <3> QED
      BY <2>1, <2>3, <3>1 DEF ProbeVerdict
  <2> QED
    BY <2>2, <2>3
<1> QED
  BY <1>1, <1>2

\* Tasks that have not begun satisfy the invariant.
LEMMA SubgraphInitIInv ==
  ASSUME NEW assigned, \A r \in assigned : IsRevision(r), SubgraphInit(assigned)
  PROVE  SubgraphIInv
<1>1. SubgraphTypeOK
  BY DEF SubgraphInit, SubgraphTypeOK
<1> QED
  BY <1>1 DEF SubgraphInit, SubgraphIInv, LabelsTrue, TaskInv, Dealt

\* A network that is dealt with leaves the task between two networks.
LEMMA DoneStep ==
  ASSUME SubgraphTypeOK, NEW t \in Task, NEW completed \in BOOLEAN, queue[t] # <<>>,
         NetworkDone(t, completed)
  PROVE  /\ queue' \in [Task -> Seq(Network)]
         /\ lost' \in [Task -> SUBSET Network]
         /\ built' \in [Task -> Build \union {NoBuild}]
         /\ tries' \in [Task -> Nat]
         /\ at' \in [Task -> {"start", "next", "probe", "deploy"}]
         /\ at'[t] = "next"
         /\ \A n : Waiting(t, n) => n = Current(t) \/ Waiting(t, n)'
         /\ \A n \in lost[t] : n \in lost'[t]
         /\ completed \/ Current(t) \in lost'[t]
<1>1. queue[t] \in Seq(Network)
  BY DEF SubgraphTypeOK
<1>2. Current(t) \in Network /\ Tail(queue[t]) \in Seq(Network)
  BY <1>1, HeadAndTail DEF Current
<1>3. queue'[t] = Tail(queue[t])
  BY DEF SubgraphTypeOK, NetworkDone
<1>4. \A n : Waiting(t, n) => n = Current(t) \/ Waiting(t, n)'
  BY <1>1, <1>3, TailWaits
<1> QED
  BY <1>2, <1>4 DEF SubgraphTypeOK, NetworkDone, MoveTo

\* A task that a step leaves alone.
Untouched(u) ==
  /\ revision'[u] = revision[u] /\ queue'[u] = queue[u] /\ lost'[u] = lost[u]
  /\ built'[u] = built[u] /\ at'[u] = at[u] /\ outcome'[u] = outcome[u]
  /\ wasHosted'[u] = wasHosted[u]
  /\ u \in unlisted <=> u \in unlisted'
HostedStay == \A n, label : Hosted(n, label) => Hosted(n, label)'

\* A task that is not touched keeps its invariant while hosted versions stay.
LEMMA UntouchedTask ==
  ASSUME NEW u \in Task, TaskInv(u), Untouched(u), HostedStay
  PROVE  TaskInv(u)'
<1>1. Dealt(u) => Dealt(u)'
  BY DEF Untouched, HostedStay, Dealt, Waiting, Listed
<1>2. Current(u)' = Current(u)
  BY DEF Untouched, Current
<1> QED
  BY <1>1, <1>2 DEF Untouched, TaskInv

\* Listing the networks keeps the invariant: each waits for its turn.
LEMMA StartStep ==
  ASSUME SubgraphIInv, NEW t \in Task, ListNetworks(t) PROVE SubgraphTypeOK' /\ TaskInv(t)'
<1> USE DEF SubgraphIInv, ListNetworks, Going, MoveTo, history
<1>1. SubgraphTypeOK'
  <2>1. revision[t].networks \in Seq(Network)
    BY DEF SubgraphTypeOK, IsRevision
  <2> QED
    BY <2>1 DEF SubgraphTypeOK
<1>2. TaskInv(t)'
  <2>1. CASE queue' = [queue EXCEPT ![t] = revision[t].networks] /\ MoveTo(t, "next")
             /\ UNCHANGED <<outcome, unlisted>>
    BY <2>1 DEF SubgraphTypeOK, TaskInv, Dealt, Waiting, Listed
  <2>2. CASE unlisted' = unlisted \union {t} /\ MoveTo(t, "next") /\ UNCHANGED <<queue, outcome>>
    BY <2>2 DEF SubgraphTypeOK, TaskInv
  <2>3. CASE outcome' = [outcome EXCEPT ![t] = "red"] /\ UNCHANGED <<queue, at, unlisted>>
    BY <2>3 DEF SubgraphTypeOK, TaskInv
  <2> QED
    BY <2>1, <2>2, <2>3
<1> QED
  BY <1>1, <1>2

\* A build keeps it, failed or not: the label is that of what was built.
LEMMA BuildStep ==
  ASSUME SubgraphIInv, NEW t \in Task, BuildNetwork(t)
  PROVE  SubgraphTypeOK' /\ TaskInv(t)' /\ \A u \in Task : u # t => TaskInv(u)'
<1> USE DEF SubgraphIInv
<1>0. UNCHANGED <<revision, ormi, tries, unlisted, wasHosted>>
  BY DEF BuildNetwork, history
<1>1. /\ queue[t] \in Seq(Network) /\ queue[t] # <<>> /\ at[t] = "next"
      /\ Current(t) \in Network /\ Tail(queue[t]) \in Seq(Network)
  BY HeadAndTail DEF SubgraphTypeOK, BuildNetwork, Going, Current
<1>2. CASE /\ built' = [built EXCEPT ![t] = revision[t].builds[Current(t)]]
           /\ MoveTo(t, "probe")
           /\ UNCHANGED <<queue, lost, outcome>>
  <2>1. revision[t].builds[Current(t)] \in Build
    BY <1>1 DEF SubgraphTypeOK, IsRevision
  <2>2. SubgraphTypeOK'
    BY <1>0, <1>2, <2>1 DEF SubgraphTypeOK, MoveTo
  <2>3. at' = [at EXCEPT ![t] = "probe"]
    BY <1>2 DEF MoveTo
  <2>4. outcome[t] = "running"
    BY DEF BuildNetwork, Going
  <2>5. Dealt(t) => Dealt(t)'
    BY <1>0, <1>2 DEF Dealt, Waiting, Listed, Hosted
  <2>6. at'[t] = "probe" /\ outcome'[t] = "running" /\ t \notin unlisted' => Dealt(t)'
    BY <1>0, <1>1, <1>2, <2>3, <2>4, <2>5 DEF SubgraphTypeOK, TaskInv
  <2>7. queue'[t] # <<>> /\ built'[t] = revision'[t].builds[Current(t)']
    BY <1>0, <1>1, <1>2 DEF SubgraphTypeOK, Current
  <2>8. at'[t] = "probe" /\ outcome'[t] = "running"
    BY <1>2, <2>3, <2>4 DEF SubgraphTypeOK
  <2>9. TaskInv(t)'
    BY <2>6, <2>7, <2>8 DEF TaskInv
  <2>10. ASSUME NEW u \in Task, u # t PROVE TaskInv(u)'
    BY <1>0, <1>2, <2>3, <2>10, UntouchedTask DEF SubgraphTypeOK, Untouched, HostedStay, Hosted
  <2> QED
    BY <2>2, <2>9, <2>10
<1>3. CASE /\ lost' = [lost EXCEPT ![t] = @ \union {Current(t)}]
           /\ queue' = [queue EXCEPT ![t] = Tail(@)]
           /\ UNCHANGED <<at, built, outcome>>
  <2>1. SubgraphTypeOK'
    BY <1>0, <1>1, <1>3 DEF SubgraphTypeOK
  <2>2. queue'[t] = Tail(queue[t]) /\ lost'[t] = lost[t] \union {Current(t)}
    BY <1>3 DEF SubgraphTypeOK
  <2>3. \A n : Waiting(t, n) => n = Current(t) \/ Waiting(t, n)'
    BY <1>1, <2>2, TailWaits
  <2>4. Dealt(t) => Dealt(t)'
    BY <1>0, <2>2, <2>3 DEF Dealt, Listed, Hosted
  <2>5. outcome[t] = "running" /\ at'[t] = "next" /\ outcome'[t] = "running"
    BY <1>1, <1>3 DEF BuildNetwork, Going
  <2>6. TaskInv(t)'
    BY <1>0, <1>1, <2>4, <2>5 DEF TaskInv
  <2>7. ASSUME NEW u \in Task, u # t PROVE TaskInv(u)'
    BY <1>0, <1>3, <2>7, UntouchedTask DEF SubgraphTypeOK, Untouched, HostedStay, Hosted
  <2> QED
    BY <2>1, <2>6, <2>7
<1>4. CASE outcome' = [outcome EXCEPT ![t] = "red"] /\ UNCHANGED <<queue, at, built, lost>>
  <2>1. SubgraphTypeOK'
    BY <1>0, <1>4 DEF SubgraphTypeOK
  <2>2. outcome'[t] = "red" /\ Current(t)' = Current(t) /\ (Dealt(t) => Dealt(t)')
    BY <1>0, <1>4 DEF SubgraphTypeOK, Dealt, Waiting, Listed, Hosted, Current
  <2>3. TaskInv(t)'
    BY <1>0, <1>4, <2>2 DEF TaskInv
  <2>4. ASSUME NEW u \in Task, u # t PROVE TaskInv(u)'
    BY <1>0, <1>4, <2>4, UntouchedTask DEF SubgraphTypeOK, Untouched, HostedStay, Hosted
  <2> QED
    BY <2>1, <2>3, <2>4
<1> QED
  BY <1>2, <1>3, <1>4 DEF BuildNetwork

\* What a task that deals with its network owes: the network is recorded, or
\* Ormi hosts what was built for it.
LEMMA DoneInv ==
  ASSUME SubgraphIInv, NEW t \in Task, NEW completed \in BOOLEAN,
         at[t] \in {"probe", "deploy"}, outcome[t] = "running", NetworkDone(t, completed),
         revision' = revision, outcome' = outcome, unlisted' = unlisted, HostedStay,
         completed => \E v \in ormi' : v.net = Current(t) /\ v.label = built[t],
         ormi' \subseteq Version, wasHosted' \in [Task -> BOOLEAN],
         \A u \in Task : u # t => wasHosted'[u] = wasHosted[u]
  PROVE  SubgraphTypeOK' /\ \A u \in Task : TaskInv(u)'
<1> USE DEF SubgraphIInv
<1>1. queue[t] # <<>> /\ built[t] = revision[t].builds[Current(t)]
  BY DEF TaskInv
<1>2. SubgraphTypeOK'
  BY <1>1, DoneStep DEF SubgraphTypeOK
<1>3. t \notin unlisted => Dealt(t)
  BY DEF TaskInv
<1>4. Dealt(t) => Dealt(t)'
  <2> SUFFICES ASSUME Dealt(t), NEW n \in Listed(t)
               PROVE  Waiting(t, n)' \/ n \in lost'[t] \/ Hosted(n, revision[t].builds[n])'
    BY DEF Dealt, Listed
  <2>1. CASE Waiting(t, n)
    <3>1. n = Current(t) \/ Waiting(t, n)'
      BY <1>1, <2>1, DoneStep
    <3>2. ASSUME n = Current(t), completed = TRUE
          PROVE  Hosted(n, revision[t].builds[n])'
      BY <1>1, <3>2 DEF Hosted
    <3>3. ASSUME completed = FALSE
          PROVE  Current(t) \in lost'[t]
      BY <1>1, <3>3, DoneStep
    <3> QED
      BY <3>1, <3>2, <3>3
  <2>2. CASE n \in lost[t]
    BY <1>1, <2>2, DoneStep
  <2>3. CASE Hosted(n, revision[t].builds[n])
    BY <2>3 DEF HostedStay, Hosted
  <2> QED
    BY <2>1, <2>2, <2>3 DEF Dealt
<1>5. at'[t] = "next" /\ outcome'[t] = "running"
  BY <1>1, DoneStep
<1>6. TaskInv(t)'
  BY <1>3, <1>4, <1>5 DEF TaskInv
<1>7. ASSUME NEW u \in Task, u # t PROVE TaskInv(u)'
  BY <1>7, UntouchedTask DEF SubgraphTypeOK, Untouched, NetworkDone, MoveTo
<1> QED
  BY <1>2, <1>6, <1>7

\* A probe keeps it: missing is answered only of a version that is.
LEMMA ProbeStep ==
  ASSUME SubgraphIInv, NEW t \in Task, ProbeOnce(t)
  PROVE  SubgraphTypeOK' /\ \A u \in Task : TaskInv(u)'
<1> USE DEF SubgraphIInv
<1>0. /\ UNCHANGED <<revision, ormi, outcome, unlisted>>
      /\ outcome[t] = "running" /\ at[t] = "probe"
      /\ wasHosted' = [wasHosted EXCEPT ![t] = Hosted(Current(t), Label(t))]
  BY DEF ProbeOnce, Going
<1>1. /\ wasHosted' \in [Task -> BOOLEAN]
      /\ wasHosted'[t] = Hosted(Current(t), built[t])
      /\ \A u \in Task : u # t => wasHosted'[u] = wasHosted[u]
      /\ HostedStay /\ ormi' \subseteq Version
  BY <1>0 DEF SubgraphTypeOK, HostedStay, Hosted, Label
<1>2. queue[t] # <<>> /\ built[t] = revision[t].builds[Current(t)]
  BY <1>0 DEF TaskInv
<1>3. CASE NetworkDone(t, FALSE)
  BY <1>0, <1>1, <1>3, DoneInv
<1>4. CASE NetworkDone(t, TRUE) /\ Hosted(Current(t), built[t])
  <2>1. \E v \in ormi' : v.net = Current(t) /\ v.label = built[t]
    BY <1>0, <1>4 DEF Hosted
  <2> QED
    BY <1>0, <1>1, <1>4, <2>1, DoneInv
<1>5. ASSUME UNCHANGED <<queue, built, lost>>, tries' \in [Task -> Nat],
             at' = at \/ (MoveTo(t, "deploy") /\ ~Hosted(Current(t), built[t])
                            /\ Plain(Current(t), revision[t].base))
      PROVE  SubgraphTypeOK' /\ \A u \in Task : TaskInv(u)'
  <2>1. at'[t] = "probe" \/ at'[t] = "deploy"
    BY <1>0, <1>5 DEF MoveTo, SubgraphTypeOK
  <2>2. SubgraphTypeOK'
    BY <1>0, <1>1, <1>5 DEF SubgraphTypeOK, MoveTo
  <2>3. Dealt(t) => Dealt(t)'
    BY <1>0, <1>5 DEF Dealt, Waiting, Listed, Hosted
  <2>4. Current(t)' = Current(t)
    BY <1>5 DEF Current
  <2>5. at'[t] = "deploy" =>
          ~wasHosted'[t] /\ Current(t) \in PlainName /\ revision'[t].base = "https"
    BY <1>0, <1>1, <1>5 DEF Plain
  <2>6. TaskInv(t)'
    BY <1>0, <1>2, <1>5, <2>1, <2>3, <2>4, <2>5 DEF TaskInv
  <2>7. ASSUME NEW u \in Task, u # t PROVE TaskInv(u)'
    BY <1>0, <1>1, <1>5, <2>7, UntouchedTask DEF SubgraphTypeOK, Untouched, MoveTo
  <2> QED
    BY <2>2, <2>6, <2>7
<1>6. CASE ~Plain(Current(t), revision[t].base)
  BY <1>3, <1>6 DEF ProbeOnce
<1>7. CASE Plain(Current(t), revision[t].base)
  <2>1. PICK r \in Noise \union {Truth(Current(t), Label(t))} :
          CASE ProbeVerdict(r) = "deployed" -> NetworkDone(t, TRUE)
            [] ProbeVerdict(r) = "missing" ->
                 MoveTo(t, "deploy") /\ UNCHANGED <<queue, built, tries, lost>>
            [] ProbeVerdict(r) = "retry" /\ tries[t] + 1 < ProbeTries ->
                 tries' = [tries EXCEPT ![t] = @ + 1] /\ UNCHANGED <<queue, at, built, lost>>
            [] OTHER -> NetworkDone(t, FALSE)
    BY <1>7 DEF ProbeOnce
  <2>2. CASE ProbeVerdict(r) = "deployed"
    BY <1>4, <2>1, <2>2, BelievedIsTrue DEF Label
  <2>3. CASE ProbeVerdict(r) = "missing"
    BY <1>5, <1>7, <2>1, <2>3, BelievedIsTrue DEF Label, SubgraphTypeOK
  <2>4. CASE ProbeVerdict(r) = "retry" /\ tries[t] + 1 < ProbeTries
    <3>1. tries' = [tries EXCEPT ![t] = @ + 1] /\ UNCHANGED <<queue, at, built, lost>>
      BY <2>1, <2>4
    <3>2. tries' \in [Task -> Nat]
      BY <3>1 DEF SubgraphTypeOK
    <3> QED
      BY <1>5, <3>1, <3>2
  <2>5. CASE /\ ProbeVerdict(r) \notin {"deployed", "missing"}
             /\ ~(ProbeVerdict(r) = "retry" /\ tries[t] + 1 < ProbeTries)
    BY <1>3, <2>1, <2>5
  <2> QED
    BY <2>2, <2>3, <2>4, <2>5
<1> QED
  BY <1>6, <1>7

\* What Ormi hosts stays, under the same label.
OrmiStands ==
  \A v \in ormi : \E w \in ormi' : w.net = v.net /\ w.label = v.label /\ w.build = v.build

\* Every step leaves what Ormi hosts hosted, and the labels true.
LEMMA OrmiStep ==
  ASSUME SubgraphIInv, [SubgraphNext]_subgraphVars
  PROVE  ormi' \subseteq Version /\ LabelsTrue' /\ OrmiStands
<1> USE DEF SubgraphIInv
<1>1. CASE Sync
  <2>1. PICK v \in ormi : ormi' = (ormi \ {v}) \union {[v EXCEPT !.synced = TRUE]}
    BY <1>1 DEF Sync
  <2> DEFINE w == [v EXCEPT !.synced = TRUE]
  <2>2. w \in Version /\ w.net = v.net /\ w.label = v.label /\ w.build = v.build
    BY DEF SubgraphTypeOK, Version
  <2> HIDE DEF w
  <2>3. \A x \in ormi' : x = w \/ x \in ormi
    BY <2>1 DEF w
  <2>4. w \in ormi' /\ \A x \in ormi : x = v \/ x \in ormi'
    BY <2>1 DEF w
  <2> QED
    BY <2>2, <2>3, <2>4 DEF SubgraphTypeOK, LabelsTrue, OrmiStands
<1>2. ASSUME NEW t \in Task, DeployBuild(t), ormi' # ormi
      PROVE  ormi' \subseteq Version /\ LabelsTrue' /\ OrmiStands
  <2> DEFINE new == [net |-> Current(t), label |-> Label(t), build |-> built[t],
                     synced |-> FALSE]
             kept == {v \in ormi : v.net # new.net \/ v.label # new.label}
  <2>1. ormi' = kept \union {new}
    BY <1>2 DEF DeployBuild
  <2>2. queue[t] # <<>> /\ built[t] = revision[t].builds[Current(t)]
    BY <1>2 DEF DeployBuild, Going, TaskInv
  <2>3. Current(t) \in Network
    BY <2>2, HeadAndTail DEF SubgraphTypeOK, Current
  <2>4. built[t] \in Build
    BY <2>2, <2>3 DEF SubgraphTypeOK, IsRevision
  <2>5. new \in Version /\ new.label = new.build
    BY <2>3, <2>4 DEF Version, Label
  <2> HIDE DEF new
  <2>6. ormi' \subseteq Version /\ LabelsTrue'
    BY <2>1, <2>5 DEF SubgraphTypeOK, LabelsTrue
  <2>7. ASSUME NEW v \in ormi
        PROVE  \E w \in ormi' : w.net = v.net /\ w.label = v.label /\ w.build = v.build
    <3>1. CASE v \in kept
      BY <2>1, <3>1
    <3>2. CASE v \notin kept
      BY <2>1, <2>5, <3>2 DEF LabelsTrue
    <3> QED
      BY <3>1, <3>2
  <2> QED
    BY <2>6, <2>7 DEF OrmiStands
<1>3. CASE ormi' = ormi
  BY <1>3 DEF SubgraphTypeOK, LabelsTrue, OrmiStands
<1> QED
  BY <1>1, <1>2, <1>3
  DEF SubgraphNext, TaskStep, ListNetworks, BuildNetwork, ProbeOnce, TaskEnds, subgraphVars

\* A deploy keeps it: the version is hosted or the task has failed.
LEMMA DeployStep ==
  ASSUME SubgraphIInv, NEW t \in Task, DeployBuild(t), OrmiStands, ormi' \subseteq Version
  PROVE  SubgraphTypeOK' /\ \A u \in Task : TaskInv(u)'
<1>1. /\ at[t] = "deploy" /\ outcome[t] = "running"
      /\ UNCHANGED <<revision, outcome, unlisted, wasHosted>>
  BY DEF DeployBuild, Going, history
<1>2. HostedStay
  BY DEF OrmiStands, HostedStay, Hosted
<1>3. wasHosted' \in [Task -> BOOLEAN] /\ \A u \in Task : wasHosted'[u] = wasHosted[u]
  BY <1>1 DEF SubgraphIInv, SubgraphTypeOK
<1>4. CASE NetworkDone(t, FALSE)
  BY <1>1, <1>2, <1>3, <1>4, DoneInv
<1>5. ASSUME NetworkDone(t, TRUE),
             [net |-> Current(t), label |-> Label(t), build |-> built[t], synced |-> FALSE] \in ormi'
      PROVE  SubgraphTypeOK' /\ \A u \in Task : TaskInv(u)'
  <2>1. \E v \in ormi' : v.net = Current(t) /\ v.label = built[t]
    BY <1>5 DEF Label
  <2> QED
    BY <1>1, <1>2, <1>3, <1>5, <2>1, DoneInv
<1> QED
  BY <1>4, <1>5 DEF DeployBuild

\* The end of a task keeps it: green when no network was left behind.
LEMMA EndStep ==
  ASSUME SubgraphIInv, NEW t \in Task, TaskEnds(t)
  PROVE  SubgraphTypeOK' /\ \A u \in Task : TaskInv(u)'
<1> USE DEF SubgraphIInv
<1>1. /\ UNCHANGED <<revision, ormi, queue, at, built, tries, lost, unlisted, wasHosted>>
      /\ at[t] = "next" /\ queue[t] = <<>> /\ outcome[t] = "running"
      /\ outcome' = [outcome EXCEPT ![t] = IF lost[t] = {} THEN "green" ELSE "red"]
  BY DEF TaskEnds, Going, history
<1>2. SubgraphTypeOK'
  BY <1>1 DEF SubgraphTypeOK
<1>3. Dealt(t) => Dealt(t)'
  BY <1>1 DEF Dealt, Waiting, Listed, Hosted
<1>4. outcome'[t] = "green" => lost[t] = {}
  BY <1>1 DEF SubgraphTypeOK
<1>5. TaskInv(t)'
  BY <1>1, <1>3, <1>4 DEF TaskInv
<1>6. ASSUME NEW u \in Task, u # t PROVE TaskInv(u)'
  BY <1>1, <1>6, UntouchedTask DEF SubgraphTypeOK, Untouched, HostedStay, Hosted
<1> QED
  BY <1>2, <1>5, <1>6

\* Every step keeps the invariant.
LEMMA SubgraphStep == SubgraphIInv /\ [SubgraphNext]_subgraphVars => SubgraphIInv'
<1> SUFFICES ASSUME SubgraphIInv, [SubgraphNext]_subgraphVars PROVE SubgraphIInv'
  OBVIOUS
<1>0. ormi' \subseteq Version /\ LabelsTrue' /\ OrmiStands
  BY OrmiStep
<1>1. ASSUME UNCHANGED <<revision, queue, at, built, tries, lost, outcome, history>>
      PROVE  SubgraphIInv'
  <2>1. SubgraphTypeOK'
    BY <1>0, <1>1 DEF SubgraphIInv, SubgraphTypeOK, history
  <2>2. HostedStay
    BY <1>0 DEF OrmiStands, HostedStay, Hosted
  <2>3. ASSUME NEW u \in Task PROVE TaskInv(u)'
    BY <1>1, <2>2, UntouchedTask DEF SubgraphIInv, Untouched, history
  <2> QED
    BY <1>0, <2>1, <2>3 DEF SubgraphIInv
<1>2. CASE Sync
  BY <1>1, <1>2 DEF Sync
<1>3. CASE UNCHANGED subgraphVars
  BY <1>1, <1>3 DEF subgraphVars
<1>4. ASSUME NEW t \in Task, ListNetworks(t) PROVE SubgraphIInv'
  <2>1. SubgraphTypeOK' /\ TaskInv(t)'
    BY <1>4, StartStep
  <2>2. ASSUME NEW u \in Task, u # t PROVE TaskInv(u)'
    BY <1>4, <2>2, UntouchedTask
    DEF SubgraphIInv, SubgraphTypeOK, ListNetworks, MoveTo, Untouched, HostedStay, Hosted
  <2> QED
    BY <1>0, <2>1, <2>2 DEF SubgraphIInv
<1>5. ASSUME NEW t \in Task, BuildNetwork(t) PROVE SubgraphIInv'
  BY <1>0, <1>5, BuildStep DEF SubgraphIInv
<1>6. ASSUME NEW t \in Task, ProbeOnce(t) PROVE SubgraphIInv'
  BY <1>0, <1>6, ProbeStep DEF SubgraphIInv
<1>7. ASSUME NEW t \in Task, DeployBuild(t) PROVE SubgraphIInv'
  BY <1>0, <1>7, DeployStep DEF SubgraphIInv
<1>8. ASSUME NEW t \in Task, TaskEnds(t) PROVE SubgraphIInv'
  BY <1>0, <1>8, EndStep DEF SubgraphIInv
<1> QED
  BY <1>2, <1>3, <1>4, <1>5, <1>6, <1>7, <1>8 DEF SubgraphNext, TaskStep

\* For every set of revisions, with their networks in a list and a build for each.
LEMMA SubgraphInvariance ==
  ASSUME NEW assigned, \A r \in assigned : IsRevision(r)
  PROVE  SubgraphSpec(assigned) => []SubgraphIInv
<1>1. SubgraphInit(assigned) => SubgraphIInv
  BY SubgraphInitIInv
<1> QED
  BY <1>1, SubgraphStep, PTL DEF SubgraphSpec

\* A green task of lib/subgraph-deploy.sh has every network of its revision
\* hosted, although each probe may fail or be retried and other tasks deploy at
\* the same time.
THEOREM GreenTasksAreHosted ==
  ASSUME NEW assigned, \A r \in assigned : IsRevision(r)
  PROVE  SubgraphSpec(assigned) => []GreenIsHosted
<1>1. SubgraphIInv => GreenIsHosted
  BY DEF SubgraphIInv, TaskInv, Dealt, Waiting, GreenIsHosted
<1> QED
  BY <1>1, SubgraphInvariance, PTL

\* The loop of lib/subgraph-deploy.sh deploys only after ormi_probe.rs has been
\* told that the version is missing; an answer that may pass never counts as one.
THEOREM DeploysAreMissing ==
  ASSUME NEW assigned, \A r \in assigned : IsRevision(r)
  PROVE  SubgraphSpec(assigned) => []DeploysOnlyMissing
<1>1. SubgraphIInv => DeploysOnlyMissing
  BY DEF SubgraphIInv, TaskInv, DeploysOnlyMissing
<1> QED
  BY <1>1, SubgraphInvariance, PTL

\* What Ormi hosts stays hosted, whatever the tasks of any revisions do: no step
\* of lib/subgraph-deploy.sh takes a version back.
THEOREM VersionsStand ==
  ASSUME NEW assigned, \A r \in assigned : IsRevision(r)
  PROVE  SubgraphSpec(assigned) => HostedStands
<1>1. SubgraphIInv /\ [SubgraphNext]_subgraphVars => [OrmiStands]_subgraphVars
  BY OrmiStep
<1> QED
  BY <1>1, SubgraphInvariance, PTL DEF SubgraphSpec, HostedStands, OrmiStands

-----------------------------------------------------------------------------
(* the artifacts check: marks, hooks, the staged config and the diff *)

\* A hook writes, removes and stages paths of the repository, and declares
\* some; what comes after script/Build.sol stages nothing.
IsHook(h) ==
  /\ h.exists \in BOOLEAN
  /\ h.writes \subseteq Path /\ h.stages \subseteq Path
  /\ \A line \in h.prints : line.path \in Path
IsProject(p) ==
  /\ p.tracked \subseteq Path
  /\ \A i \in DOMAIN Hooks : IsHook(p.hooks[i])
  /\ \A i \in DOMAIN Hooks : i > 2 => p.hooks[i].stages = {}

Done == {i \in Ran : i < hook}
Original(p) == IF p \in project.tracked THEN [content |-> Committed(p), mtime |-> 1] ELSE Absent

CopyTypeOK ==
  /\ IsProject(project)
  /\ stage \in {"mark", "hooks", "install", "copy", "verify", "diff"}
  /\ hook \in 1 .. Len(Hooks) + 1
  /\ staged \subseteq Path
  /\ DOMAIN disk = Path
  /\ now \in Nat \ {0}

\* Where the job is, and what it has behind it.
StageInv ==
  /\ stage = "mark" => hook = 1 /\ \A p \in Path : disk[p] = Original(p)
  /\ stage = "hooks" => hook <= Len(Hooks)
  /\ stage \in {"install", "copy"} => hook = 3
  /\ stage \in {"verify", "diff"} => hook = Len(Hooks) + 1
  /\ hook > 2 /\ stage \notin {"install", "copy"} => staged = {}
  /\ hook > 2 /\ stage # "install" /\ project.marker => \E i \in Ran : project.hooks[i].stages # {}

\* The log holds what the hooks that ran have printed, nothing is staged that
\* none of them staged, and the marks are the modification times of the checkout.
LogInv ==
  /\ \A line : line \in log <=> \E i \in Done : line \in project.hooks[i].prints
  /\ \A p \in staged : \E i \in Done : p \in project.hooks[i].stages
  /\ stage # "mark" => \A p \in Path : marks[p] = Original(p).mtime

\* A path is as it was checked out, and then nobody has written or installed it,
\* or it is gone, or an emitter wrote it after the mark.
PathInv(p) ==
  \/ /\ disk[p] = Original(p)
     /\ \A i \in Done : p \notin project.hooks[i].writes
     /\ \A i \in Done : p \in project.hooks[i].stages => p \in staged
  \/ disk[p] = Absent
  \/ /\ disk[p].content = "current"
     /\ disk[p].mtime \in Nat /\ disk[p].mtime > 1
     /\ \E i \in Done : p \in project.hooks[i].writes \union project.hooks[i].stages

\* What the last checks have established.
CheckInv ==
  /\ stage = "diff" => Malformed = {} /\ \A p \in Owns : Written(p)
  /\ check = "green" =>
       stage = "diff" /\ \A p \in project.tracked : disk[p].content = Committed(p)

CopyIInv == CopyTypeOK /\ StageInv /\ LogInv /\ (\A p \in Path : PathInv(p)) /\ CheckInv

\* A checkout with nothing run satisfies the invariant.
LEMMA CopyInitIInv ==
  ASSUME NEW projects, \A p \in projects : IsProject(p), CopyInit(projects)
  PROVE  CopyIInv
<1>1. CopyTypeOK /\ Done = {}
  BY CopyAssumption DEF CopyAssumption, CopyInit, CopyTypeOK, Done, Ran
<1>2. StageInv /\ CheckInv
  BY CopyAssumption DEF CopyAssumption, CopyInit, StageInv, CheckInv, Original
<1>3. LogInv
  BY <1>1 DEF CopyInit, LogInv
<1>4. \A p \in Path : PathInv(p)
  BY <1>1 DEF CopyInit, PathInv, Original
<1> QED
  BY <1>1, <1>2, <1>3, <1>4 DEF CopyIInv

\* A step that leaves the hooks, the disk, the marks and the staged files alone.
LEMMA CopyFrame ==
  ASSUME CopyIInv, UNCHANGED <<project, hook, disk, marks, log, staged, now>>,
         stage = "mark" => stage' = "mark"
  PROVE  LogInv' /\ \A p \in Path : PathInv(p)'
<1>1. Done' = Done
  BY DEF Done, Ran
<1>2. \A p \in Path : Original(p)' = Original(p)
  BY DEF Original, Committed
<1>3. LogInv'
  BY <1>1, <1>2 DEF CopyIInv, LogInv
<1> QED
  BY <1>1, <1>2, <1>3 DEF CopyIInv, PathInv

\* The mark keeps the invariant: nothing has been written after it yet.
LEMMA CopyMark == CopyIInv /\ Mark => CopyIInv'
<1> SUFFICES ASSUME CopyIInv, Mark PROVE CopyIInv'
  OBVIOUS
<1> USE DEF CopyIInv
<1>0. /\ stage = "mark" /\ check = "running" /\ stage' = "hooks"
      /\ UNCHANGED <<project, check, hook, disk, log, staged, now>>
  BY DEF Mark, On
<1>1. hook = 1 /\ Done = {} /\ Done' = {}
  <2>1. hook = 1 /\ Ran' = Ran /\ Ran \subseteq 1 .. Len(Hooks)
    BY <1>0, CopyAssumption DEF CopyAssumption, StageInv, Ran
  <2>2. \A i \in Ran : ~(i < 1)
    BY <2>1
  <2> QED
    BY <1>0, <2>1, <2>2 DEF Done
<1>2. CopyTypeOK'
  BY <1>0 DEF CopyTypeOK
<1>3. StageInv' /\ CheckInv'
  BY <1>0, <1>1, CopyAssumption DEF CopyAssumption, StageInv, CheckInv
<1>4. \A p \in Path : Original(p)' = Original(p)
  BY <1>0 DEF Original, Committed
<1>6. ASSUME NEW p \in Path PROVE marks'[p] = Original(p).mtime
  <2>1. disk[p] = Original(p)
    BY <1>0 DEF StageInv
  <2>2. marks'[p] = IF p \in project.tracked THEN disk[p].mtime ELSE 0
    BY DEF Mark
  <2> QED
    BY <2>1, <2>2 DEF Original, Absent
<1>7. LogInv'
  BY <1>0, <1>1, <1>4, <1>6 DEF LogInv
<1>8. ASSUME NEW p \in Path PROVE PathInv(p)'
  BY <1>0, <1>1, <1>4 DEF PathInv
<1> QED
  BY <1>2, <1>3, <1>7, <1>8

\* What a path becomes under a hook that runs.
LEMMA HookPath ==
  ASSUME CopyIInv, H.exists, stage = "hooks", NEW p \in Path, now' = now + 1,
         hook' = hook + 1, project' = project,
         Done' = Done \union {hook}, staged' = staged \union H.stages,
         disk'[p] = IF p \in H.writes THEN [content |-> "current", mtime |-> now + 1]
                    ELSE IF p \in H.removes THEN Absent ELSE disk[p]
  PROVE  PathInv(p)'
<1>1. Original(p)' = Original(p)
  BY DEF Original, Committed
<1>2. CASE p \in H.writes
  <2>1. disk'[p].content = "current" /\ disk'[p].mtime = now + 1
    BY <1>2
  <2>2. now + 1 \in Nat /\ now + 1 > 1
    BY DEF CopyIInv, CopyTypeOK
  <2>3. hook \in Done' /\ p \in project'.hooks[hook].writes
    BY <1>2 DEF H
  <2> QED
    BY <2>1, <2>2, <2>3 DEF PathInv
<1>3. CASE p \notin H.writes /\ p \in H.removes
  BY <1>3 DEF PathInv, Absent
<1>4. CASE p \notin H.writes /\ disk'[p] = disk[p]
  <2>1. PathInv(p)
    BY DEF CopyIInv
  <2> QED
    BY <1>1, <1>4, <2>1 DEF PathInv, H
<1> QED
  BY <1>2, <1>3, <1>4

\* A hook keeps it: what it writes is newer than the mark, what fails ends
\* the check.
LEMMA CopyHook == CopyIInv /\ RunHook => CopyIInv'
<1> SUFFICES ASSUME CopyIInv, RunHook PROVE CopyIInv'
  OBVIOUS
<1> USE DEF CopyIInv
<1>0. stage = "hooks" /\ check = "running" /\ project' = project
  BY DEF RunHook, On
<1>a. hook \in DOMAIN Hooks /\ hook \in Nat /\ Len(Hooks) \in Nat /\ DOMAIN Hooks = 1 .. Len(Hooks)
  BY <1>0, CopyAssumption DEF CopyAssumption, CopyTypeOK, StageInv
<1>1. CASE Red
  <2>1. UNCHANGED <<stage, hook, disk, marks, log, staged, now>> /\ check' = "red"
    BY <1>1 DEF Red
  <2>2. CopyTypeOK' /\ StageInv' /\ CheckInv'
    BY <1>0, <2>1 DEF CopyTypeOK, StageInv, CheckInv, Ran, Original, Committed
  <2> QED
    BY <1>0, <2>1, <2>2, CopyFrame
<1>2. CASE ~Red
  <2>0. /\ hook' = hook + 1 /\ now' = now + 1 /\ stage' = AfterHook
        /\ UNCHANGED <<check, marks>>
        /\ disk' = IF H.exists
                   THEN [p \in Path |->
                           IF p \in H.writes THEN [content |-> "current", mtime |-> now + 1]
                           ELSE IF p \in H.removes THEN Absent ELSE disk[p]]
                   ELSE disk
        /\ log' = IF H.exists THEN log \union H.prints ELSE log
        /\ staged' = IF H.exists THEN staged \union H.stages ELSE staged
    BY <1>2 DEF RunHook
  <2>1. Ran' = Ran /\ Ran \subseteq DOMAIN Hooks /\ (hook \in Ran <=> H.exists)
    BY <1>0, <1>a DEF Ran, H
  <2>2. Done' = IF H.exists THEN Done \union {hook} ELSE Done
    BY <1>a, <2>0, <2>1 DEF Done
  <2>3. IsHook(H) /\ (hook > 2 => H.stages = {})
    BY <1>a DEF CopyTypeOK, IsProject, H
  <2>4. CopyTypeOK'
    <3>1. staged' \subseteq Path /\ DOMAIN disk' = Path
      BY <2>0, <2>3 DEF CopyTypeOK, IsHook
    <3>2. hook' \in 1 .. Len(Hooks) + 1 /\ now' \in Nat \ {0}
      BY <1>a, <2>0 DEF CopyTypeOK
    <3> QED
      BY <1>0, <2>0, <3>1, <3>2 DEF CopyTypeOK, AfterHook
  <2>5. StageInv'
    <3>1. CASE hook = 1
      <4>1. stage' = "hooks" /\ hook' = 2
        BY <1>a, <2>0, <3>1, CopyAssumption DEF CopyAssumption, AfterHook, IsBuild
      <4> QED
        BY <4>1, CopyAssumption DEF CopyAssumption, StageInv
    <3>2. CASE hook = 2
      <4>1. stage' = "install" /\ hook' = 3
        BY <2>0, <3>2 DEF AfterHook, IsBuild
      <4> QED
        BY <4>1 DEF StageInv
    <3>3. CASE hook > 2
      <4>1. staged = {} /\ staged' = {}
        BY <1>0, <2>0, <2>3, <3>3 DEF StageInv
      <4>2. project.marker => \E i \in Ran : project.hooks[i].stages # {}
        BY <1>0, <3>3 DEF StageInv
      <4>3. IF hook = Len(Hooks) THEN stage' = "verify" ELSE stage' = "hooks"
        BY <2>0, <3>3 DEF AfterHook, IsBuild
      <4> QED
        BY <1>0, <1>a, <2>0, <2>1, <4>1, <4>2, <4>3 DEF StageInv
    <3> QED
      BY <1>a, <3>1, <3>2, <3>3
  <2>6. LogInv'
    <3>1. \A line : line \in log' <=> \E i \in Done' : line \in project.hooks[i].prints
      BY <2>0, <2>2 DEF LogInv, H
    <3>2. \A p \in staged' : \E i \in Done' : p \in project.hooks[i].stages
      BY <2>0, <2>2 DEF LogInv, H
    <3>3. \A p \in Path : marks'[p] = Original(p).mtime
      BY <1>0, <2>0 DEF LogInv
    <3> QED
      BY <1>0, <3>1, <3>2, <3>3 DEF LogInv, Original, Committed
  <2>7. ASSUME NEW p \in Path PROVE PathInv(p)'
    <3>1. CASE H.exists
      BY <1>0, <2>0, <2>2, <3>1, HookPath
    <3>2. CASE ~H.exists
      BY <1>0, <2>0, <2>2, <3>2 DEF PathInv, Original, Committed
    <3> QED
      BY <3>1, <3>2
  <2>8. CheckInv'
    BY <1>0, <2>0 DEF CheckInv, AfterHook
  <2> QED
    BY <2>4, <2>5, <2>6, <2>7, <2>8
<1> QED
  BY <1>1, <1>2

\* Build.sol is the second hook; the job goes on with the third, if there is one.
LEMMA AfterBuild ==
  ASSUME hook = 3
  PROVE  \/ hook = Len(Hooks) + 1 /\ AfterInstall = "verify"
         \/ hook <= Len(Hooks) /\ AfterInstall = "hooks"
<1>1. Len(Hooks) \in Nat /\ Len(Hooks) >= 2
  BY CopyAssumption DEF CopyAssumption
<1>2. CASE Len(Hooks) = 2
  BY <1>1, <1>2 DEF AfterInstall
<1>3. CASE Len(Hooks) > 2
  BY <1>1, <1>3 DEF AfterInstall
<1>4. Len(Hooks) = 2 \/ Len(Hooks) > 2
  <2>1. \A n \in Nat : n >= 2 => n = 2 \/ n > 2
    OBVIOUS
  <2> QED
    BY <1>1, <2>1
<1> QED
  BY <1>2, <1>3, <1>4

\* The install keeps it: it begins with what Build.sol has staged.
LEMMA CopyInstall == CopyIInv /\ InstallStaged => CopyIInv'
<1> SUFFICES ASSUME CopyIInv, InstallStaged PROVE CopyIInv'
  OBVIOUS
<1> USE DEF CopyIInv
<1>0. /\ stage = "install" /\ check = "running" /\ hook = 3
      /\ UNCHANGED <<project, hook, disk, marks, log, staged, now>>
  BY DEF InstallStaged, On, Red, StageInv
<1>1. LogInv' /\ \A p \in Path : PathInv(p)'
  BY <1>0, CopyFrame
<1>2. \/ check' = "red" /\ stage' = stage
      \/ staged = {} /\ ~project.marker /\ stage' = AfterInstall /\ check' = check
      \/ staged # {} /\ stage' = "copy" /\ check' = check
  BY DEF InstallStaged, Red, StagesConfig
<1>3. /\ Ran' = Ran
      /\ \/ hook = Len(Hooks) + 1 /\ AfterInstall = "verify"
         \/ hook <= Len(Hooks) /\ AfterInstall = "hooks"
  BY <1>0, AfterBuild DEF Ran
<1>4. staged # {} => \E i \in Ran : project.hooks[i].stages # {}
  BY DEF LogInv, Done
<1>5. CopyTypeOK'
  BY <1>0, <1>2, <1>3 DEF CopyTypeOK
<1>6. StageInv'
  <2>1. CASE stage' = stage
    BY <1>0, <1>3, <2>1 DEF StageInv
  <2>2. CASE staged = {} /\ ~project.marker /\ stage' = AfterInstall
    BY <1>0, <1>3, <2>2 DEF StageInv
  <2>3. CASE staged # {} /\ stage' = "copy"
    BY <1>0, <1>3, <1>4, <2>3 DEF StageInv
  <2> QED
    BY <1>2, <2>1, <2>2, <2>3
<1>7. CheckInv'
  BY <1>0, <1>2, <1>3 DEF CheckInv
<1> QED
  BY <1>1, <1>5, <1>6, <1>7

\* The copy of one staged file keeps it.
LEMMA CopyCopy == CopyIInv /\ CopyStaged => CopyIInv'
<1> SUFFICES ASSUME CopyIInv, CopyStaged PROVE CopyIInv'
  OBVIOUS
<1> USE DEF CopyIInv
<1>0. /\ stage = "copy" /\ check = "running" /\ hook = 3 /\ now' = now + 1
      /\ UNCHANGED <<project, check, hook, marks, log>>
      /\ stage' = IF staged' = {} THEN AfterInstall ELSE "copy"
  BY DEF CopyStaged, On, StageInv
<1>1. PICK p \in staged :
        /\ disk' = [disk EXCEPT ![p] = [content |-> "current", mtime |-> now + 1]]
        /\ staged' = staged \ {p}
  BY DEF CopyStaged
<1>2. /\ Ran' = Ran /\ Done' = Done
      /\ \/ hook = Len(Hooks) + 1 /\ AfterInstall = "verify"
         \/ hook <= Len(Hooks) /\ AfterInstall = "hooks"
  BY <1>0, AfterBuild DEF Ran, Done
<1>3. p \in Path /\ \E i \in Done : p \in project.hooks[i].stages
  BY DEF CopyTypeOK, LogInv
<1>4. CopyTypeOK'
  <2>1. now + 1 \in Nat \ {0} /\ staged' \subseteq Path /\ DOMAIN disk' = Path
    BY <1>1 DEF CopyTypeOK
  <2> QED
    BY <1>0, <1>2, <2>1 DEF CopyTypeOK
<1>5. StageInv'
  <2>1. project.marker => \E i \in Ran : project.hooks[i].stages # {}
    BY <1>3 DEF Done
  <2>2. CASE staged' = {} /\ stage' = AfterInstall
    BY <1>0, <1>2, <2>1, <2>2 DEF StageInv
  <2>3. CASE stage' = "copy"
    BY <1>0, <1>2, <2>1, <2>3 DEF StageInv
  <2> QED
    BY <1>0, <2>2, <2>3
<1>6. \A q \in Path : Original(q)' = Original(q)
  BY <1>0 DEF Original, Committed
<1>7. LogInv'
  BY <1>0, <1>1, <1>2, <1>6 DEF LogInv
<1>8. ASSUME NEW q \in Path PROVE PathInv(q)'
  <2>1. CASE q = p
    <3>1. disk'[q].content = "current" /\ disk'[q].mtime = now + 1
      BY <1>1, <1>3, <2>1 DEF CopyTypeOK
    <3>2. now + 1 \in Nat /\ now + 1 > 1
      BY DEF CopyTypeOK
    <3> QED
      BY <1>0, <1>2, <1>3, <2>1, <3>1, <3>2 DEF PathInv
  <2>2. CASE q # p
    <3>1. disk'[q] = disk[q] /\ (q \in staged => q \in staged')
      BY <1>1, <2>2 DEF CopyTypeOK
    <3>2. PathInv(q)
      OBVIOUS
    <3> QED
      BY <1>0, <1>2, <1>6, <3>1, <3>2 DEF PathInv
  <2> QED
    BY <2>1, <2>2
<1>9. CheckInv'
  BY <1>0, <1>2 DEF CheckInv
<1> QED
  BY <1>4, <1>5, <1>7, <1>8, <1>9

\* The steps that only look.
LEMMA CopyLook ==
  CopyIInv /\ (Verify \/ Diff \/ (\E s \in {"mark", "hooks", "copy", "verify", "diff"} : Fails(s))
                 \/ UNCHANGED copyVars) => CopyIInv'
<1> SUFFICES ASSUME CopyIInv, Verify \/ Diff
                      \/ (\E s \in {"mark", "hooks", "copy", "verify", "diff"} : Fails(s))
                      \/ UNCHANGED copyVars
             PROVE  CopyIInv'
  OBVIOUS
<1> USE DEF CopyIInv
<1>1. UNCHANGED <<project, hook, disk, marks, log, staged, now>>
  BY DEF Verify, Diff, Fails, Red, copyVars
<1>2. stage' = stage \/ (stage = "verify" /\ stage' = "diff")
  BY DEF Verify, Diff, Fails, Red, On, copyVars
<1>3. LogInv' /\ \A p \in Path : PathInv(p)'
  BY <1>1, <1>2, CopyFrame
<1>4. Ran' = Ran /\ (\A p : Written(p)' <=> Written(p)) /\ Owns' = Owns /\ Malformed' = Malformed
      /\ (\A p \in Path : Original(p)' = Original(p)) /\ (\A p : Committed(p)' = Committed(p))
  BY <1>1 DEF Ran, Written, Exists, Owns, Malformed, Original, Committed
<1>5. CopyTypeOK'
  BY <1>1, <1>2 DEF CopyTypeOK
<1>6. StageInv'
  BY <1>1, <1>2, <1>4 DEF StageInv
<1>7. CheckInv'
  <2>1. stage' = "diff" => Malformed = {} /\ \A p \in Owns : Written(p)
    BY <1>1, <1>2 DEF CheckInv, Verify, Diff, Fails, Red, On, copyVars
  <2>2. check' = "green" =>
          stage' = "diff" /\ \A p \in project.tracked : disk[p].content = Committed(p)
    BY <1>1, <1>2 DEF CheckInv, Verify, Diff, Fails, Red, On, copyVars
  <2> QED
    BY <1>1, <1>4, <2>1, <2>2 DEF CheckInv
<1> QED
  BY <1>3, <1>5, <1>6, <1>7

\* Every step keeps the invariant.
LEMMA CopyStep == CopyIInv /\ [CopyNext]_copyVars => CopyIInv'
  BY CopyMark, CopyHook, CopyInstall, CopyCopy, CopyLook DEF CopyNext

\* The invariant holds for ever, for every project.
LEMMA CopyInvariance ==
  ASSUME NEW projects, \A p \in projects : IsProject(p)
  PROVE  CopySpec(projects) => []CopyIInv
<1>1. CopyInit(projects) => CopyIInv
  BY CopyInitIInv
<1> QED
  BY <1>1, CopyStep, PTL DEF CopySpec

\* A green run of rainix-copy-artifacts.yaml vouches for every committed file
\* that a hook declares or writes: it is what the sources generate now and an
\* emitter wrote it, for any hooks, whatever fails on the way.
THEOREM GreenChecksVouch ==
  ASSUME NEW projects, \A p \in projects : IsProject(p)
  PROVE  CopySpec(projects) => []GreenIsCurrent
<1>1. CopyIInv => GreenIsCurrent
  <2> SUFFICES ASSUME CopyIInv, check = "green" PROVE GreenIsCurrent
    BY DEF GreenIsCurrent
  <2> USE DEF CopyIInv
  <2>1. /\ stage = "diff" /\ Malformed = {} /\ \A p \in Owns : Written(p)
        /\ \A p \in project.tracked : disk[p].content = Committed(p)
        /\ hook = Len(Hooks) + 1 /\ hook > 2 /\ staged = {}
    BY CopyAssumption DEF CopyAssumption, CheckInv, StageInv
  <2>2. Done = Ran
    BY <2>1, CopyAssumption DEF CopyAssumption, Done, Ran
  <2>3. \A i \in Ran : \A line \in project.hooks[i].prints : line \in log /\ IsDeclaration(line)
    BY <2>1, <2>2 DEF LogInv, Malformed
  <2>4. Declared \subseteq Owns
    BY <2>3 DEF Declared, Owns
  <2>5. Declared \subseteq Path
    BY DEF Declared, Ran, CopyTypeOK, IsProject, IsHook
  <2>6. ASSUME NEW p \in Path, Written(p)
        PROVE  /\ disk[p].content = "current"
               /\ \E i \in Ran : p \in project.hooks[i].writes \union project.hooks[i].stages
    <3>1. disk[p] # Absent /\ disk[p].mtime # Original(p).mtime
      BY <2>1, <2>6 DEF Written, Exists, LogInv, Absent
    <3> QED
      BY <2>2, <3>1 DEF PathInv
  <2>7. ASSUME NEW p \in project.tracked, p \in project.stale
        PROVE  disk[p] = Original(p)
    <3>1. p \in Path /\ disk[p].content = "stale"
      BY <2>1, <2>7 DEF Committed, CopyTypeOK, IsProject
    <3> QED
      BY <3>1 DEF PathInv, Absent
  <2>8. \A i \in Ran : (project.hooks[i].writes \union project.hooks[i].stages)
                          \intersect project.tracked \intersect project.stale = {}
    <3> SUFFICES ASSUME NEW i \in Ran, NEW p \in project.tracked, p \in project.stale,
                        p \in project.hooks[i].writes \union project.hooks[i].stages
                 PROVE  FALSE
      OBVIOUS
    <3>1. p \in Path /\ disk[p].content = "stale"
      BY <2>1 DEF Committed, CopyTypeOK, IsProject
    <3> QED
      BY <2>1, <2>2, <3>1 DEF PathInv, Absent
  <2>9. Declared \intersect project.tracked \intersect project.stale = {}
    <3> SUFFICES ASSUME NEW p \in Declared, p \in project.tracked, p \in project.stale
                 PROVE  FALSE
      OBVIOUS
    <3>1. disk[p].content = "stale"
      BY <2>1 DEF Committed
    <3> QED
      BY <2>1, <2>4, <2>5, <2>6, <3>1
  <2>10. project.marker => \E i \in Ran : project.hooks[i].stages # {}
    BY <2>1 DEF StageInv
  <2> QED
    BY <2>1, <2>3, <2>4, <2>5, <2>6, <2>8, <2>9, <2>10 DEF GreenIsCurrent
<1> QED
  BY <1>1, CopyInvariance, PTL
=============================================================================
