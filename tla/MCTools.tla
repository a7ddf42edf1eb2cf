------------------------------ MODULE MCTools ------------------------------
(***************************************************************************)
(* Programs of rainix that share no state, one at a time: those that talk  *)
(* to services or run code generators, and the release of a deploy repo.   *)
(* `turn` picks which of them a behaviour explores.                        *)
(***************************************************************************)
EXTENDS RpcPreflight, AuthForwarder, SubgraphDeploy, CopyArtifacts, DeployRelease, TLC

CONSTANTS arbitrum, base, key, public, node, abi, pins, s1, s2

VARIABLE turn

-----------------------------------------------------------------------------
(* rpc-preflight: two networks, one with an archive pin, and three endpoints *)
(* listed in every combination of the three lists.                           *)

MCNetOrder == <<arbitrum, base>>

Reply(status, json, error, code, needles, res) ==
  [curl |-> TRUE, status |-> status, json |-> json, error |-> error, code |-> code,
   needles |-> needles, result |-> res]

\* The shapes the source quotes from real providers, one for each outcome.
MCResponses ==
  {Reply(200, TRUE, "none", "0", {}, "word"),
   Reply(200, TRUE, "none", "0", {}, "empty"),
   Reply(200, TRUE, "string", "0", {"quota"}, "none"),
   Reply(408, TRUE, "flat", "30", {"quota", "archive"}, "none"),
   Reply(200, TRUE, "object", "-32602", {"archive", "auth"}, "none"),
   Reply(403, TRUE, "object", "0", {"auth"}, "none"),
   Reply(500, TRUE, "none", "0", {}, "word"),
   Reply(200, TRUE, "flat", "0", {}, "word"),
   Reply(200, TRUE, "none", "0", {}, "none"),
   Reply(429, FALSE, "none", "0", {}, "none"),
   Reply(200, FALSE, "none", "0", {}, "none"),
   [Reply(0, FALSE, "none", "0", {}, "none") EXCEPT !.curl = FALSE]}

Mention(names, small, text) == [mentions |-> names, small |-> small, text |-> text]
Both == {Mention({arbitrum}, TRUE, TRUE), Mention({base}, TRUE, TRUE)}

Nowhere == [n \in Net |-> <<>>]
Defaults ==
  [mode |-> "select", archive |-> TRUE, files |-> Both,
   secret |-> Nowhere, vars |-> Nowhere, defaults |-> Nowhere,
   own |-> [n \in Net |-> NoUrl],
   pins |-> (arbitrum :> <<5>>) @@ (base :> <<>>),
   wrong |-> {}, backs |-> [u \in Url |-> {9}]]

Lists == {<<>>, <<key>>, <<key, public>>}

\* One network at a time, over its lists; a balancer mixes two backends.
PoolsOf(archive, names) ==
  {[Defaults EXCEPT !.mode = mode, !.archive = archive, !.files = {Mention({n}, TRUE, TRUE)},
      !.secret[n] = s, !.vars[n] = v, !.defaults[n] = d, !.wrong = w, !.backs[public] = b] :
     mode \in {"select", "proxy"}, n \in names, s \in Lists,
     v \in {<<>>, <<key>>, <<public>>}, d \in {<<>>, <<public>>},
     w \in {{}, {public}, {key}}, b \in {{9}, {4, 9}, {3}}}
Pools == PoolsOf(TRUE, Net) \union PoolsOf(FALSE, {arbitrum})

\* Our own node in front, of every depth.
Nodes ==
  {[Defaults EXCEPT !.mode = "proxy", !.files = {Mention({base}, TRUE, TRUE)},
      !.secret[base] = s, !.defaults[base] = d, !.own[base] = node,
      !.wrong = w, !.backs[node] = b] :
     s \in {<<>>, <<key>>}, d \in {<<>>, <<public>>},
     w \in {{}, {node}}, b \in {{9}, {5}, {1}}}

\* Both networks, mentioned by files that are read and files that are not.
Repos ==
  {[Defaults EXCEPT !.mode = mode, !.files = files,
      !.vars = (arbitrum :> a) @@ (base :> b)] :
     mode \in {"select", "proxy"}, a, b \in {<<>>, <<public>>},
     files \in {Both, {}, {Mention({arbitrum}, FALSE, TRUE), Mention({base}, TRUE, TRUE)},
                {Mention({arbitrum, base}, TRUE, FALSE), Mention({arbitrum}, TRUE, TRUE)}}}

MCInputs == Pools \union Nodes \union Repos

MCOwnDepths == <<20, 8, 3>>
MCStateDepths == <<20, 4, 3>>

-----------------------------------------------------------------------------
(* subgraph-deploy: two tasks on revisions of two networks, one of which is *)
(* not a plain label or has no address.                                     *)
BuildOf(address, code) == [address |-> address, code |-> code]
MCBuild == {BuildOf(1, 1), BuildOf(1, 2), BuildOf(2, 1)}
RevisionOf(list, unaddressed, scheme, code) ==
  [networks |-> list, unaddressed |-> unaddressed, base |-> scheme,
   builds |-> (arbitrum :> BuildOf(1, code)) @@ (base :> BuildOf(2, 1))]
Revisions ==
  {RevisionOf(<<base, arbitrum>>, unaddressed, "https", 1) : unaddressed \in {{}, {base}}}
    \union {RevisionOf(<<arbitrum>>, {}, "https", code) : code \in {1, 2}}
    \union {RevisionOf(<<arbitrum>>, {}, "http", 1)}

-----------------------------------------------------------------------------
(* copy-artifacts: three paths and three hooks.                             *)
MCHooks == <<"build-meta", "Build.sol", "regenerate">>
Line(verb, path, relative) == [verb |-> verb, path |-> path, relative |-> relative]
NoHook ==
  [exists |-> FALSE, removes |-> {}, writes |-> {}, stages |-> {}, makesDir |-> FALSE,
   prints |-> {}]
Hook(removes, writes, stages, lines) ==
  [exists |-> TRUE, removes |-> removes, writes |-> writes, stages |-> stages,
   makesDir |-> stages # {}, prints |-> lines]
Clean ==
  [tracked |-> Path, stale |-> {}, marker |-> FALSE, generated |-> TRUE,
   hooks |-> <<NoHook, Hook({}, {pins}, {}, {Line("owns", pins, TRUE)}), NoHook>>]
Projects ==
  {[Clean EXCEPT !.tracked = tracked, !.stale = stale,
      !.hooks = <<first, Hook(removes, writes, {}, {Line("owns", pins, TRUE)}), last>>] :
     tracked \in {Path, {abi}, {pins}}, stale \in SUBSET {abi, pins},
     first \in {NoHook, Hook({}, {abi}, {}, {}), Hook({}, {}, {}, {Line("owns", abi, TRUE)})},
     removes \in {{}, {pins}}, writes \in SUBSET {abi, pins},
     last \in {NoHook, Hook({}, {pins}, {}, {}), Hook({abi}, {}, {}, {Line("wrote", abi, TRUE)}),
               Hook({}, {abi}, {}, {Line("owns", abi, FALSE)})}}
    \union {[Clean EXCEPT !.stale = stale, !.marker = marker, !.generated = generated,
               !.hooks = <<NoHook, build, NoHook>>] :
     stale \in SUBSET {Config, abi}, marker, generated \in BOOLEAN,
     build \in {NoHook, Hook({}, {}, {}, {}), [Hook({}, {}, {}, {}) EXCEPT !.makesDir = TRUE],
                Hook({}, {}, {Config}, {Line("owns", Config, TRUE)}),
                Hook({}, {}, {Config, abi}, {})}}

-----------------------------------------------------------------------------
(* The release of a deploy repo. Sources are only compared, so they are     *)
(* interchangeable. What is told apart of a pull request is what is read    *)
(* of it: not the base of a merged one, nor the tree of a squashed one,     *)
(* whose head no guard accepts.                                             *)
MCSources == {s1, s2}
SourceSymmetry == Permutations(MCSources)

PRView(i) ==
  <<prs[i].state, prs[i].wipes>> \o
    CASE prs[i].state = "open" -> <<prs[i].tree, prs[i].base>>
      [] prs[i].state = "merged" -> <<prs[i].tree>>
      [] prs[i].state = "squashed" -> <<>>
ReleaseView ==
  <<main, [i \in 1..Len(prs) |-> PRView(i)], chain,
    runs, registry, releases, failures>>

-----------------------------------------------------------------------------
toolVars == <<rpcVars, authVars, subgraphVars, copyVars>>
MCView == <<turn, IF turn = "release" THEN ReleaseView ELSE toolVars>>

MCInit ==
  /\ turn \in {"rpc", "auth", "subgraph", "copy", "release"}
  /\ RpcInit /\ (turn # "rpc" => input = Defaults)
  /\ AuthInit(IF turn = "auth" THEN 1 ELSE 0)
  /\ turn # "auth" => cache = [a \in Audience |-> 0]
  /\ SubgraphInit(IF turn = "subgraph" THEN Revisions ELSE {RevisionOf(<<>>, {}, "https", 1)})
  /\ CopyInit(IF turn = "copy" THEN Projects ELSE {Clean})
  /\ Init

RpcTurn ==
  turn = "rpc" /\ UNCHANGED <<turn, authVars, subgraphVars, copyVars, vars>> /\ RpcNext
AuthTurn ==
  turn = "auth" /\ UNCHANGED <<turn, rpcVars, subgraphVars, copyVars, vars>> /\ AuthNext
SubgraphTurn ==
  turn = "subgraph" /\ UNCHANGED <<turn, rpcVars, authVars, copyVars, vars>> /\ SubgraphNext
CopyTurn ==
  turn = "copy" /\ UNCHANGED <<turn, rpcVars, authVars, subgraphVars, vars>> /\ CopyNext
ReleaseTurn == turn = "release" /\ UNCHANGED <<turn, toolVars>> /\ Next

MCNext == RpcTurn \/ AuthTurn \/ SubgraphTurn \/ CopyTurn \/ ReleaseTurn
MCSpec == MCInit /\ [][MCNext]_<<turn, toolVars, vars>>
=============================================================================
