---------------------------- MODULE RpcPreflight ----------------------------
(***************************************************************************)
(* rpc-preflight (rainix-static/src/rpc_preflight.rs): for every network a *)
(* repository mentions, the pool of candidate endpoints is probed one      *)
(* request at a time. In "select" mode the first candidate to pass every   *)
(* check is exported; in "proxy" mode the candidates become the upstreams  *)
(* of a local proxy: our own node, the public ones, and last the paid key. *)
(*                                                                         *)
(* An endpoint is a load balancer: each answer comes from one of its       *)
(* backends, which serve state down to different depths below the head,    *)
(* and any request may fail instead.                                       *)
(***************************************************************************)
EXTENDS Integers, Sequences

CONSTANTS
  Net,          \* the networks of the NETWORKS table
  NetOrder,     \* the order of the table, a sequence
  Url,          \* endpoints
  NoUrl,        \* an unset variable
  Local,        \* the URL of the local proxy
  Samples,      \* --samples: full passes required, and load rounds
  BurstSize,    \* --burst: simultaneous requests in a load round
  OwnDepths,    \* OWN_DEPTHS, deepest first
  StateDepths,  \* STATE_DEPTHS, deepest first
  HeadBlock,    \* the height of the head block
  Responses,    \* what an endpoint may send back
  Inputs        \* the configurations the subcommand is started with

Failures == {"unreachable", "http", "badResponse", "wrongChain", "quota",
             "notArchive", "methodUnsupported", "auth", "rpcError"}
Reason == {"ok"} \union Failures
Tier == {"own", "public", "paid"}
Unbounded == 0   \* an upstream with no declared window

ASSUME RpcAssumption ==
  /\ NoUrl \notin Url /\ Local \notin Url /\ Local # NoUrl
  /\ Samples \in Nat /\ BurstSize \in Nat /\ HeadBlock \in Nat \ {0}
  /\ OwnDepths \in Seq(Nat \ {0}) /\ StateDepths \in Seq(Nat \ {0})
  /\ Len(StateDepths) > 0
  /\ NetOrder \in Seq(Net)
  /\ \A n \in Net : \E i \in DOMAIN NetOrder : NetOrder[i] = n

\* The lists of a network are lists of endpoints, the pins are blocks there are,
\* and our own node is not one of the endpoints we pay for.
ASSUME InputsAssumption ==
  \A c \in Inputs :
    /\ c.mode \in {"select", "proxy"}
    /\ c.secret \in [Net -> Seq(Url)] /\ c.vars \in [Net -> Seq(Url)]
    /\ c.defaults \in [Net -> Seq(Url)]
    /\ c.own \in [Net -> Url \union {NoUrl}]
    /\ \A n \in Net : \A i \in DOMAIN c.secret[n] : c.secret[n][i] # c.own[n]
    /\ c.pins \in [Net -> Seq(0 .. HeadBlock)]
    /\ \A f \in c.files : f.mentions \subseteq Net

\* A response is what the code tells apart: how curl ended, the HTTP status, the
\* shape of an error and the wordings in it, and the shape of the result.
ASSUME ResponsesAssumption ==
  Responses \subseteq
    [curl : BOOLEAN, status : Nat, json : BOOLEAN,
     error : {"none", "object", "string", "flat"}, code : STRING,
     needles : SUBSET {"quota", "archive", "unsupported", "auth"},
     result : {"none", "empty", "word"}]

VARIABLES
  input,      \* the mode, the lists of each network and how endpoints behave
  left,       \* the demanded networks not dealt with yet, in table order
  todo,       \* the candidates of the first of them not probed yet
  probe,      \* the check in progress and how many of its requests passed
  ups,        \* the upstreams of that network so far
  transients, \* public candidates rejected for a reason that may pass
  nets,       \* the upstreams of each network the proxy will serve
  env,        \* what was exported for each network
  masked,     \* the URLs the runner was told to mask
  nofit,      \* the networks without a usable endpoint
  result,     \* how the subcommand ended
  reads,      \* history: the calls the candidate in progress answered, at
              \* each depth
  paidCalls   \* history: the requests the proxy sent to the secret's endpoints
              \* of this network

progress == <<left, todo, ups, transients>>
output == <<nets, env, masked, nofit, result>>
rpcVars == <<input, progress, probe, output, reads, paidCalls>>

-----------------------------------------------------------------------------
(* One answer *)

\* classify: a plan or quota wording wins over an archive one, that over an
\* unsupported method, that over authentication.
Classify(code, needles) ==
  IF code = "-32001" \/ "quota" \in needles THEN "quota"
  ELSE IF "archive" \in needles THEN "notArchive"
  ELSE IF code = "-32601" \/ "unsupported" \in needles THEN "methodUnsupported"
  ELSE IF "auth" \in needles THEN "auth" ELSE "rpcError"

\* error_fields: an error object or string, or a bare message without a result.
HasError(r) == r.error \in {"object", "string"} \/ (r.error = "flat" /\ r.result = "none")

HttpReason(status) ==
  IF status = 429 THEN "quota" ELSE IF status >= 400 THEN "http" ELSE "badResponse"

\* finish_rpc: what one response means to the caller.
Finish(r) ==
  IF ~r.curl THEN "unreachable"
  ELSE IF ~r.json THEN HttpReason(r.status)
  ELSE IF HasError(r) THEN Classify(r.code, r.needles)
  ELSE IF r.status >= 400 THEN HttpReason(r.status)
  ELSE IF r.result = "none" THEN "badResponse" ELSE "ok"

\* check_call_result and hex_result: the shape an answer must have. An empty
\* result is an account without code, which an eth_call must not get.
CheckCall(r) ==
  IF Finish(r) # "ok" THEN Finish(r)
  ELSE IF r.result = "empty" THEN "notArchive"
  ELSE IF r.result = "word" THEN "ok" ELSE "badResponse"
CheckHexLenient(r) ==
  IF Finish(r) \in {"ok", "notArchive"} THEN "ok" ELSE Finish(r)
CheckHex(r) ==
  IF Finish(r) # "ok" THEN Finish(r)
  ELSE IF r.result \in {"word", "empty"} THEN "ok" ELSE "badResponse"

Transient(reason) == reason \in {"quota", "unreachable", "http"}

\* A response that really answers, however the code reads it; a message next to
\* a result does not spoil it. A request for state at a depth below the head is
\* answered by a backend that keeps it.
IsAnswer(r) ==
  /\ r.curl /\ r.json /\ r.status < 400
  /\ r.error \in {"none", "flat"} /\ r.result = "word"
MayAnswer(u, depth, r) ==
  IsAnswer(r) => \E kept \in input.backs[u] : kept >= depth
Unread == [d \in 0 .. HeadBlock |-> 0]

-----------------------------------------------------------------------------
(* The pool *)

\* The entries at some places of a list, in their order.
Keep(list, places) ==
  LET kept[i \in 0 .. Len(list)] ==
        IF i = 0 THEN <<>>
        ELSE IF i \in places THEN Append(kept[i - 1], list[i]) ELSE kept[i - 1]
  IN  kept[Len(list)]

From(src, list) == [i \in DOMAIN list |-> [src |-> src, url |-> list[i]]]
\* A duplicate keeps its first place.
FirstPlaces(list) ==
  {i \in DOMAIN list : \A j \in 1 .. i - 1 : list[j].url # list[i].url}
Pool(secret, vars, defaults) ==
  LET all == From("secret", secret) \o From("variable", vars) \o From("default", defaults)
  IN  Keep(all, FirstPlaces(all))

SecretUrls(n) == {input.secret[n][i] : i \in DOMAIN input.secret[n]}
Publics(n) ==
  LET pool == Pool(<<>>, input.vars[n], input.defaults[n])
  IN  Keep(pool, {i \in DOMAIN pool : pool[i].url \notin SecretUrls(n)})
Own(n) == IF input.own[n] = NoUrl THEN <<>> ELSE <<[src |-> "own", url |-> input.own[n]]>>

Candidates(n) ==
  IF input.mode = "select"
  THEN Pool(input.secret[n], input.vars[n], input.defaults[n])
  ELSE Own(n) \o Publics(n) \o From("secret", input.secret[n])

\* A tracked file is read unless it is large or not text; a network is demanded
\* by a file that mentions one of its two names.
Demanded == UNION {f.mentions : f \in {g \in input.files : g.small /\ g.text}}

\* The depths the probe reads state at, and how many passes over them it takes.
Blocks(n) == IF input.archive /\ input.pins[n] # <<>> THEN input.pins[n] ELSE <<0>>
PassesOnce == 1
Passes == IF input.mode = "select" THEN Samples ELSE 1
StateReads(n) == 2 * Passes * Len(Blocks(n))

-----------------------------------------------------------------------------
(* Progress *)

Idle == [stage |-> "idle", n |-> 0]
Cur == Head(left)
Cand == Head(todo)
At(stage) == result = "running" /\ left # <<>> /\ todo # <<>> /\ probe.stage = stage
Stage(stage) == probe' = [stage |-> stage, n |-> 0]

\* What the history keeps of n requests of a kind to the candidate.
NoCalls == [chainId |-> 0, other |-> 0]
Sends(kind, n) ==
  paidCalls' = IF input.mode = "proxy" /\ Cand.url \in SecretUrls(Cur)
               THEN [paidCalls EXCEPT ![kind] = @ + n] ELSE paidCalls

RpcInit ==
  /\ input \in Inputs
  /\ left = <<>> /\ todo = <<>> /\ ups = <<>> /\ transients = <<>>
  /\ probe = Idle
  /\ nets = [n \in Net |-> <<>>]
  /\ env = [n \in Net |-> NoUrl]
  /\ masked = {} /\ nofit = {}
  /\ result = "scanning"
  /\ reads = Unread
  /\ paidCalls = NoCalls

\* Take up a list of networks: the candidates of the first, nothing kept.
TakeUp(list) ==
  /\ left' = list
  /\ todo' = IF list = <<>> THEN <<>> ELSE Candidates(Head(list))
  /\ ups' = <<>>
  /\ transients' = <<>>
  /\ probe' = Idle
  /\ reads' = Unread
  /\ paidCalls' = NoCalls
  /\ UNCHANGED input

\* `demanded`: the tracked files are scanned; without git there is no answer.
ScanRepo ==
  /\ result = "scanning"
  /\ \/ /\ TakeUp(Keep(NetOrder, {i \in DOMAIN NetOrder : NetOrder[i] \in Demanded}))
        /\ result' = "running"
     \/ /\ result' = "failed"
        /\ UNCHANGED <<input, progress, probe, reads, paidCalls>>
  /\ UNCHANGED <<nets, env, masked, nofit>>

\* The publics of a network are all probed and none of them joined.
PublicsDone == todo # <<>> => Cand.src = "secret"
FallbackDue ==
  /\ input.mode = "proxy"
  /\ PublicsDone
  /\ transients # <<>>
  /\ \A i \in DOMAIN ups : ups[i].tier # "public"

Upstream(url, tier, window) == [url |-> url, tier |-> tier, window |-> window]
KeepTransients ==
  /\ result = "running" /\ left # <<>>
  /\ probe = Idle
  /\ FallbackDue
  /\ ups' = ups \o [i \in DOMAIN transients |-> Upstream(transients[i], "public", Unbounded)]
  /\ transients' = <<>>
  /\ UNCHANGED <<input, left, todo, probe, output, reads, paidCalls>>

\* The next candidate; a paid one is masked before anything is sent to it.
StartProbe ==
  /\ At("idle")
  /\ ~FallbackDue
  /\ Stage("chain")
  /\ masked' = IF input.mode = "proxy" /\ Cand.src = "secret"
               THEN masked \union {Cand.url} ELSE masked
  /\ reads' = Unread
  /\ UNCHANGED <<input, progress, nets, env, nofit, result, paidCalls>>

\* The candidate is rejected; proxy mode remembers a public that may recover.
Reject(reason) ==
  /\ todo' = Tail(todo)
  /\ probe' = Idle
  /\ transients' =
       IF input.mode = "proxy" /\ Cand.src \in {"variable", "default"} /\ Transient(reason)
       THEN Append(transients, Cand.url) ELSE transients
  /\ UNCHANGED <<left, ups, output>>

TierOf(src) == CASE src = "own" -> "own" [] src = "secret" -> "paid" [] OTHER -> "public"
Join(window) ==
  /\ ups' = Append(ups, Upstream(Cand.url, TierOf(Cand.src), window))
  /\ todo' = Tail(todo)
  /\ probe' = Idle
  /\ UNCHANGED <<left, transients, output>>

\* The first candidate to pass is exported and its network done with; one that
\* came from the secret is masked first. A file that cannot be appended to ends
\* the subcommand.
Select ==
  /\ masked' = IF Cand.src = "secret" THEN masked \union {Cand.url} ELSE masked
  /\ \/ /\ env' = [env EXCEPT ![Cur] = Cand.url]
        /\ TakeUp(Tail(left))
        /\ UNCHANGED result
     \/ /\ result' = "failed"
        /\ UNCHANGED <<input, progress, probe, reads, paidCalls, env>>
  /\ UNCHANGED <<nets, nofit>>

-----------------------------------------------------------------------------
(* Requests, one at a time *)

\* eth_chainId; to the proxy's paid endpoints nothing else is sent, and an error
\* keeps them.
ChainReason(r) ==
  IF Finish(r) # "ok" THEN Finish(r)
  ELSE IF r.result # "word" THEN "badResponse"
  ELSE IF Cand.url \in input.wrong THEN "wrongChain" ELSE "ok"
SparedNever == FALSE
Spared == input.mode = "proxy" /\ Cand.src = "secret"
AskChain ==
  /\ At("chain")
  /\ \E r \in Responses :
       LET reason == ChainReason(r) IN
       CASE Spared /\ reason # "wrongChain" -> Join(Unbounded)
         [] input.mode = "proxy" /\ Cand.src = "own" /\ reason = "ok" ->
              Stage("head") /\ UNCHANGED <<progress, output>>
         [] Cand.src # "own" /\ ~Spared /\ reason = "ok" ->
              Stage("state") /\ UNCHANGED <<progress, output>>
         [] OTHER -> Reject(reason)
  /\ Sends("chainId", 1)
  /\ UNCHANGED <<input, reads>>

\* eth_getBalance and eth_call at every block, in every pass.
StateDepth(n, k) == Blocks(n)[((k \div 2) % Len(Blocks(n))) + 1]
StateReason(k, r) == IF k % 2 = 0 THEN CheckHex(r) ELSE CheckCall(r)
AskState ==
  /\ At("state")
  /\ probe.n < StateReads(Cur)
  /\ \E r \in Responses :
       /\ MayAnswer(Cand.url, StateDepth(Cur, probe.n), r)
       /\ IF StateReason(probe.n, r) = "ok"
          THEN probe' = [probe EXCEPT !.n = @ + 1] /\ UNCHANGED <<progress, output>>
          ELSE Reject(StateReason(probe.n, r))
       /\ reads' = IF IsAnswer(r) /\ probe.n % 2 = 1
                   THEN [reads EXCEPT ![StateDepth(Cur, probe.n)] = @ + 1] ELSE reads
  /\ Sends("other", 1)
  /\ UNCHANGED input

\* Every read passed. Selecting goes on to the load rounds; the proxy takes the
\* endpoint, after a look at its depth when the network has no pin.
StatePassed ==
  /\ At("state")
  /\ probe.n = StateReads(Cur)
  /\ IF input.mode = "select" THEN Stage("burst") /\ UNCHANGED <<progress, output>>
     ELSE IF input.archive /\ input.pins[Cur] = <<>>
          THEN Stage("head") /\ UNCHANGED <<progress, output>>
          ELSE Join(Unbounded)
  /\ UNCHANGED <<input, reads, paidCalls>>

\* One load round, every request of it in flight at once: `throttled` of them
\* are refused for the rate, and a majority of those rejects.
Burst ==
  /\ At("burst")
  /\ probe.n < Samples
  /\ \E throttled \in 0 .. BurstSize :
       IF throttled * 2 > BurstSize
       THEN Reject("quota")
       ELSE probe' = [probe EXCEPT !.n = @ + 1] /\ UNCHANGED <<progress, output>>
  /\ Sends("other", BurstSize)
  /\ UNCHANGED <<input, reads>>
BurstPassed ==
  /\ At("burst")
  /\ probe.n = Samples
  /\ Select

\* eth_blockNumber, before the depths are looked at.
AskHead ==
  /\ At("head")
  /\ \E r \in Responses :
       IF Finish(r) = "ok" /\ r.result = "word"
       THEN Stage("depth") /\ UNCHANGED <<progress, output>>
       ELSE IF Cand.src = "own" THEN Reject("badResponse") ELSE Join(Unbounded)
  /\ Sends("other", 1)
  /\ UNCHANGED <<input, reads>>

\* Our own nodes answer a pruned read with an error, never with an empty value.
OwnResponses == {r \in Responses : r.result # "empty"}

\* own_window: block 1, then each depth there are blocks for; anything but an
\* answer is a refusal, and a node that answers none is left out.
OwnProbes ==
  <<HeadBlock - 1>> \o Keep(OwnDepths, {i \in DOMAIN OwnDepths : OwnDepths[i] < HeadBlock})
AskOwnDepth ==
  /\ At("depth")
  /\ Cand.src = "own"
  /\ IF probe.n = Len(OwnProbes)
     THEN Reject("notArchive") /\ Sends("other", 0)
     ELSE \E r \in OwnResponses :
            /\ Sends("other", 1)
            /\ MayAnswer(Cand.url, OwnProbes[probe.n + 1], r)
            /\ IF CheckHex(r) = "ok"
               THEN Join(IF probe.n = 0 THEN Unbounded ELSE OwnProbes[probe.n + 1])
               ELSE probe' = [probe EXCEPT !.n = @ + 1] /\ UNCHANGED <<progress, output>>
  /\ UNCHANGED <<input, reads>>

\* state_window: a refusal or an empty account goes on to a shallower depth, an
\* unclear answer declares no bound, and 128 is what a node is left with.
Shallowest == 128
Refused(r) ==
  (Finish(r) = "ok" /\ r.result # "word") \/ Finish(r) \in {"notArchive", "auth"}
Probed(d) == IF d < HeadBlock THEN d ELSE HeadBlock - 1
AskPublicDepth ==
  /\ At("depth")
  /\ Cand.src # "own"
  /\ IF probe.n = Len(StateDepths)
     THEN Join(Shallowest) /\ Sends("other", 0)
     ELSE LET d == StateDepths[probe.n + 1] IN
          \E r \in Responses :
            /\ Sends("other", 1)
            /\ MayAnswer(Cand.url, Probed(d), r)
            /\ IF Refused(r)
               THEN probe' = [probe EXCEPT !.n = @ + 1] /\ UNCHANGED <<progress, output>>
               ELSE Join(IF Finish(r) = "ok" /\ probe.n > 0 THEN d ELSE Unbounded)
  /\ UNCHANGED <<input, reads>>

-----------------------------------------------------------------------------
\* A network with no list at all stays unset and fails nothing; an own node
\* that was left out does not count.
ConfiguredBySecret(n) == input.secret[n] # <<>>
Configured(n) == Publics(n) # <<>> \/ input.secret[n] # <<>>

\* All the candidates of a network were probed and none was selected.
NetDone ==
  /\ result = "running" /\ left # <<>>
  /\ todo = <<>> /\ probe = Idle
  /\ ~FallbackDue
  /\ IF ups # <<>>
     THEN nets' = [nets EXCEPT ![Cur] = ups] /\ UNCHANGED nofit
     ELSE /\ nofit' = IF Configured(Cur) THEN nofit \union {Cur} ELSE nofit
          /\ UNCHANGED nets
  /\ UNCHANGED <<env, masked, result>>
  /\ TakeUp(Tail(left))

\* The end: a network without an endpoint fails the job, in proxy mode before
\* anything is written or exported. The proxy exports its networks one by one,
\* and a file it cannot append to stops it on the way.
Served == Keep(NetOrder, {i \in DOMAIN NetOrder : nets[NetOrder[i]] # <<>>})
Finished ==
  /\ result = "running"
  /\ left = <<>>
  /\ IF nofit # {}
     THEN result' = "failed" /\ UNCHANGED env
     ELSE \E k \in 0 .. Len(Served) :
            /\ env' = [n \in Net |-> IF \E i \in 1 .. k : Served[i] = n THEN Local ELSE env[n]]
            /\ result' = IF k = Len(Served) THEN "clean" ELSE "failed"
  /\ UNCHANGED <<input, progress, probe, nets, masked, nofit, reads, paidCalls>>

RpcNext ==
  \/ ScanRepo
  \/ KeepTransients
  \/ StartProbe
  \/ AskChain
  \/ AskState
  \/ StatePassed
  \/ Burst
  \/ BurstPassed
  \/ AskHead
  \/ AskOwnDepth
  \/ AskPublicDepth
  \/ NetDone
  \/ Finished

RpcSpec == RpcInit /\ [][RpcNext]_rpcVars

-----------------------------------------------------------------------------
(* Properties *)

\* Every variable holds a value of its kind.
RpcTypeOK ==
  /\ left \in Seq(Net)
  /\ todo \in Seq([src : {"own", "secret", "variable", "default"}, url : Url])
  /\ probe \in [stage : {"idle", "chain", "state", "burst", "head", "depth"}, n : Nat]
  /\ ups \in Seq([url : Url, tier : Tier, window : Nat])
  /\ transients \in Seq(Url)
  /\ nets \in [Net -> Seq([url : Url, tier : Tier, window : Nat])]
  /\ env \in [Net -> Url \union {NoUrl, Local}]
  /\ masked \subseteq Url
  /\ nofit \subseteq Net
  /\ result \in {"scanning", "running", "clean", "failed"}
  /\ reads \in [0 .. HeadBlock -> Nat]
  /\ paidCalls \in [chainId : Nat, other : Nat]

\* An endpoint is exported only after it really answered a call at every
\* pinned depth, or at the head, in every one of the samples, on the network's
\* own chain. A lucky answer of one backend, an error with a success
\* status, or an empty account does not count.
SelectedAnsweredAll ==
  [][ \A n \in Net :
        env'[n] # env[n] /\ env'[n] # Local =>
          /\ env'[n] \notin input.wrong
          /\ IF input.archive /\ input.pins[n] # <<>>
             THEN \A i \in DOMAIN input.pins[n] : reads[input.pins[n][i]] >= Samples
             ELSE reads[0] >= Samples ]_rpcVars

\* A network nobody mentions is never exported. A clean end leaves no network
\* that is mentioned and configured without an endpoint; selecting, a network
\* that failed does not cost another its export; and the proxy exports nothing
\* when any network failed.
ExportsMatchDemand ==
  result \in {"clean", "failed"} =>
    /\ \A n \in Net : env[n] # NoUrl => n \in Demanded
    /\ result = "clean" =>
         \A n \in Demanded :
           input.secret[n] \o input.vars[n] \o input.defaults[n] # <<>> => env[n] # NoUrl
    /\ input.mode = "select" /\ nofit # {} /\ left = <<>> =>
         \A n \in Demanded \ nofit : Candidates(n) # <<>> => env[n] # NoUrl
    /\ input.mode = "proxy" /\ nofit # {} => \A n \in Net : env[n] = NoUrl

\* The secret list is guarded. Its URLs are masked before they are written to
\* any file, also when a variable or the defaults list them too. The proxy
\* spares them: it has sent no more than one eth_chainId for each entry it has
\* dealt with and no other request whatever, reads of state, load rounds and
\* looks at the depth included. They stand behind every public upstream, and
\* those behind our own node.
PaidKeyIsGuarded ==
  /\ \A n \in Net :
       /\ env[n] \in SecretUrls(n) => env[n] \in masked
       /\ \A i \in DOMAIN nets[n] : nets[n][i].url \in SecretUrls(n) => nets[n][i].url \in masked
  /\ input.mode = "proxy" /\ left # <<>> =>
       /\ paidCalls.chainId > 0 =>
            paidCalls.chainId + Len(todo) <= Len(input.secret[Cur])
       /\ paidCalls.other = 0
  /\ \A n \in Net : \A i, j \in DOMAIN nets[n] :
       i < j => /\ nets[n][i].tier = "paid" => nets[n][j].tier = "paid"
                /\ nets[n][j].tier = "own" => nets[n][i].tier = "own"

\* A window the proxy declares for an upstream, other than the 128 blocks it
\* falls back to, is no deeper than some backend of the upstream serves, and our
\* own node is declared to hold everything only if a backend of it does.
WindowIsServed ==
  \A n \in Net : \A i \in DOMAIN nets[n] :
    LET up == nets[n][i]
        serves(d) == \E kept \in input.backs[up.url] : kept >= d
    IN  /\ up.window \notin {Unbounded, Shallowest} => serves(Probed(up.window))
        /\ up.tier = "own" /\ up.window = Unbounded => serves(HeadBlock - 1)

=============================================================================
