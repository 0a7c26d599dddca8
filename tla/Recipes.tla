------------------------------ MODULE Recipes -------------------------------
(***************************************************************************)
(* The services of the catalogue (components.go) and the manifests that    *)
(* the recipes l1, buildernet and opstack build from their flags.          *)
(*                                                                         *)
(* Of a service's arguments and environment only the templates are kept:   *)
(* {{Port}} declares a port, Connect refers to one.  Images, artifacts,    *)
(* volumes and the flags that only change those are left out.  A recipe's  *)
(* flags are a set of the names of those that are given; opstack also has  *)
(* an external builder, and every recipe contender's flags.                *)
(***************************************************************************)
EXTENDS Sequences

ConnectAll(services, label) == {[service |-> s, label |-> label] : s \in services}

Connect(service, label) == ConnectAll({service}, label)

When(given, set) == IF given THEN set ELSE {}

Only(given, service) == IF given THEN <<service>> ELSE <<>>

\* A service with {{Port}} templates and references to others.
NewService(name, component, ports, refs) ==
  [name |-> name, component |-> component, ports |-> ports, refs |-> refs,
   depends |-> {}, ready |-> FALSE, onHost |-> FALSE, image |-> "default"]

WithReady(s) == [s EXCEPT !.ready = TRUE]

DependsOnHealthy(s, name) ==
  [s EXCEPT !.depends = @ \cup {[name |-> name, condition |-> "healthy"]}]

DependsOnRunning(s, name) ==
  [s EXCEPT !.depends = @ \cup {[name |-> name, condition |-> "running"]}]

-----------------------------------------------------------------------------
(* L1 components.                                                          *)

RethEL(name, useNativeReth) ==
  [NewService(name, "reth", {"rpc", "http", "ws", "authrpc", "metrics"}, {})
     EXCEPT !.onHost = useNativeReth]

ClProxy(name, primaryBuilder) ==
  NewService(name, "cl-proxy", {"authrpc"}, Connect(primaryBuilder, "authrpc"))

\* mevBoost is the set of mev-boost nodes, at most one.
LighthouseBeaconNode(name, executionNode, mevBoost) ==
  WithReady(NewService(name, "lighthouse-beacon-node", {"p2p", "quic-p2p", "http"},
    Connect(executionNode, "authrpc") \cup ConnectAll(mevBoost, "http")))

LighthouseValidator(name, beaconNode) ==
  NewService(name, "lighthouse-validator", {}, Connect(beaconNode, "http"))

MevBoostRelay(name, beaconClient, validation) ==
  DependsOnHealthy(
    NewService(name, "mev-boost-relay", {"http"},
      Connect(beaconClient, "http") \cup ConnectAll(validation, "http")),
    beaconClient)

MevBoost(name, relayEndpoints) ==
  NewService(name, "mev-boost", {"http"}, ConnectAll(relayEndpoints, "http"))

-----------------------------------------------------------------------------
(* BuilderNet components.                                                  *)

BuilderHubPostgres(name) ==
  WithReady(NewService(name, "builder-hub-postgres", {"postgres"}, {}))

BuilderHub(name, postgres) ==
  DependsOnHealthy(
    NewService(name, "builder-hub", {"http", "admin", "internal", "metrics"},
      Connect(postgres, "postgres")),
    postgres)

BuilderHubMockProxy(name, target) ==
  DependsOnHealthy(NewService(name, "builder-hub-mock-proxy", {"http"}, {}), target)

-----------------------------------------------------------------------------
(* OP stack components.  A builder or a flashblocks stream is a set of     *)
(* references: empty when it is a URL outside the playground.              *)

ExecutionPorts == {"authrpc", "http", "metrics", "rpc"}

FlashblocksPort(flashblocks) == When(flashblocks, {"flashblocks"})

OpGeth(name) == NewService(name, "op-geth", ExecutionPorts \cup {"ws"}, {})

OpReth(name) == NewService(name, "op-reth", ExecutionPorts, {})

\* The bootnode of every execution client that is added after op-geth.
Bootnode == Connect("op-geth", "rpc")

OpRbuilder(name, flashblocks) ==
  NewService(name, "op-rbuilder", ExecutionPorts \cup FlashblocksPort(flashblocks), Bootnode)

RollupBoost(name, elNode, builder, flashblocks, flashblocksBuilder) ==
  NewService(name, "rollup-boost", {"authrpc"} \cup FlashblocksPort(flashblocks),
    Connect(elNode, "authrpc") \cup builder \cup flashblocksBuilder)

FlashblocksRPC(name, webSocket) ==
  NewService(name, "flashblocks-rpc", ExecutionPorts,
    Connect(webSocket, "flashblocks") \cup Bootnode)

\* Mutant: payloads only go to the peers.
BProxyToPeers(name, target, peers, flashblocks, flashblocksBuilder) ==
  NewService(name, "bproxy", {"authrpc"} \cup FlashblocksPort(flashblocks),
    ConnectAll(peers, "authrpc") \cup When(flashblocks, flashblocksBuilder))

BProxy(name, target, peers, flashblocks, flashblocksBuilder) ==
  NewService(name, "bproxy", {"authrpc"} \cup FlashblocksPort(flashblocks),
    target \cup ConnectAll(peers, "authrpc") \cup When(flashblocks, flashblocksBuilder))

WebsocketProxy(name, upstream) ==
  NewService(name, "websocket-proxy", {"flashblocks"}, Connect(upstream, "flashblocks"))

OpNode(name, l1Node, l1Beacon, l2Node) ==
  NewService(name, "op-node", {"http", "p2p", "metrics"},
    Connect(l1Node, "http") \cup Connect(l1Beacon, "http") \cup Connect(l2Node, "authrpc"))

OpBatcher(name, l1Node, l2Node, rollupNode) ==
  NewService(name, "op-batcher", {},
    Connect(l1Node, "http") \cup Connect(l2Node, "http") \cup Connect(rollupNode, "http"))

-----------------------------------------------------------------------------
(* Contender.  Its flags: whether it is enabled, the target chain, and     *)
(* whether its extra arguments give an RPC URL of their own.               *)

Contender(name, c) ==
  LET target  == IF c.target = "" THEN "el" ELSE c.target
      service == NewService(name, "contender", {}, When(~c.rpcUrl, Connect(target, "http")))
      waits   == DependsOnHealthy(service, "beacon")
  IN IF c.target = "op-geth" THEN DependsOnRunning(waits, "op-node") ELSE waits

RunContenderIfEnabled(c) == Only(c.enabled, Contender("contender", c))

-----------------------------------------------------------------------------
(* Recipes.                                                                *)

MevBoostServices(flags) ==
  LET validation == When("use-reth-for-validation" \in flags, {"el"}) IN
  IF "use-separate-mev-boost" \in flags
  THEN <<MevBoostRelay("mev-boost-relay", "beacon", validation),
         MevBoost("mev-boost", {"mev-boost-relay"})>>
  ELSE <<MevBoostRelay("mev-boost", "beacon", validation)>>

L1Recipe(flags, contender) ==
  LET elService == IF "secondary-el" \in flags THEN "cl-proxy" ELSE "el" IN
  <<RethEL("el", "use-native-reth" \in flags)>> \o
  Only("secondary-el" \in flags, ClProxy("cl-proxy", "el")) \o
  <<LighthouseBeaconNode("beacon", elService, {"mev-boost"}),
    LighthouseValidator("validator", "beacon")>> \o
  MevBoostServices(flags) \o
  RunContenderIfEnabled(contender)

\* L1Recipe.Apply has added contender already when it is added again.
BuilderNetRecipe(flags, contender) ==
  L1Recipe(flags, contender) \o
  <<BuilderHubPostgres("builder-hub-postgres"),
    BuilderHub("builder-hub", "builder-hub-postgres")>> \o
  Only("mock-proxy" \in flags, BuilderHubMockProxy("builder-hub-proxy", "builder-hub")) \o
  RunContenderIfEnabled(contender)

\* The builders the recipe starts itself; any other value is a URL.
OwnBuilders == {"op-reth", "op-rbuilder"}

Builder(flags, externalBuilder) ==
  Only(externalBuilder = "op-reth", OpReth("op-reth")) \o
  Only(externalBuilder = "op-rbuilder", OpRbuilder("op-rbuilder", "flashblocks" \in flags))

OpRecipe(flags, externalBuilder, contender) ==
  LET flashblocks == "flashblocks" \in flags
      proxied     == "enable-websocket-proxy" \in flags
      builder     == When(externalBuilder \in OwnBuilders, Connect(externalBuilder, "authrpc"))
      stream      == When(flashblocks /\ externalBuilder = "op-rbuilder",
                          Connect("op-rbuilder", "flashblocks"))
      boosted     == externalBuilder # ""
  IN
  <<RethEL("el", FALSE), LighthouseBeaconNode("beacon", "el", {}),
    LighthouseValidator("validator", "beacon"), OpGeth("op-geth")>> \o
  Builder(flags, externalBuilder) \o
  Only(flashblocks, BProxy("bproxy", builder, {"flashblocks-rpc"}, TRUE, stream)) \o
  Only(proxied, WebsocketProxy("websocket-proxy", "rollup-boost")) \o
  Only(boosted,
    RollupBoost("rollup-boost", "op-geth",
      IF flashblocks THEN Connect("bproxy", "authrpc") ELSE builder,
      flashblocks,
      IF flashblocks THEN Connect("bproxy", "flashblocks") ELSE stream)) \o
  Only(flashblocks,
    FlashblocksRPC("flashblocks-rpc", IF proxied THEN "websocket-proxy" ELSE "rollup-boost")) \o
  <<OpNode("op-node", "el", "beacon", IF boosted THEN "rollup-boost" ELSE "op-geth"),
    OpBatcher("op-batcher", "el", "op-geth", "op-node")>> \o
  RunContenderIfEnabled(
    IF contender.target = "" THEN [contender EXCEPT !.target = "op-geth"] ELSE contender)

ApplyRecipeOf(r) ==
  CASE r.recipe = "l1"         -> L1Recipe(r.flags, r.contender)
    [] r.recipe = "buildernet" -> BuilderNetRecipe(r.flags, r.contender)
    [] r.recipe = "opstack"    -> OpRecipe(r.flags, r.externalBuilder, r.contender)

\* init of catalog.go.
Catalog ==
  {"op-batcher", "op-geth", "op-node", "reth", "lighthouse-beacon-node",
   "lighthouse-validator", "cl-proxy", "mev-boost-relay", "mev-boost", "rollup-boost",
   "op-reth", "builder-hub", "builder-hub-postgres", "builder-hub-mock-proxy", "null",
   "op-rbuilder", "flashblocks-rpc", "contender", "bproxy", "websocket-proxy"}

ReleaseServices == {"reth", "op-reth"}
=============================================================================
