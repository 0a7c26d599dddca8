----------------------------- MODULE Deployment -----------------------------
(***************************************************************************)
(* What the command line of a recipe asks for, and what should come out of *)
(* it: Manifest with the services of the catalogue.                        *)
(***************************************************************************)
EXTENDS Manifest, Recipes

L1Flags ==
  {"use-reth-for-validation", "secondary-el", "use-native-reth", "use-separate-mev-boost"}

FlagsOf(recipe) ==
  CASE recipe = "l1"         -> L1Flags
    [] recipe = "buildernet" -> L1Flags \cup {"mock-proxy"}
    [] recipe = "opstack"    -> {"flashblocks", "enable-websocket-proxy"}

ContenderFlags == [enabled : BOOLEAN, target : Strings, rpcUrl : BOOLEAN]

\* Every command line is one of the three recipes', and the catalogue is the code's.
FromRecipes ==
  /\ Components = Catalog
  /\ Releases = ReleaseServices
  /\ \A r \in Requests :
       /\ r.recipe \in {"l1", "buildernet", "opstack"}
       /\ r.flags \subseteq FlagsOf(r.recipe)
       /\ r.contender \in ContenderFlags
       /\ r.recipe # "opstack" => r.externalBuilder = ""
       /\ Apply(r) = ApplyRecipeOf(r)

-----------------------------------------------------------------------------
(* Which flags go together.                                                *)

\* Nodes contender can spam: those with an http port.
L1Spammable ==
  {"", "el", "beacon", "mev-boost"} \cup
  When("use-separate-mev-boost" \in request.flags, {"mev-boost-relay"})

Spammable ==
  CASE request.recipe = "l1"         -> L1Spammable
    [] request.recipe = "buildernet" ->
         L1Spammable \cup {"builder-hub"} \cup
         When("mock-proxy" \in request.flags, {"builder-hub-proxy"})
    [] request.recipe = "opstack"    ->
         {"", "el", "beacon", "op-geth", "op-node"} \cup
         (OwnBuilders \cap {request.externalBuilder}) \cup
         When("flashblocks" \in request.flags, {"flashblocks-rpc"})

\* With an RPC URL of its own contender has no node to find, but op-geth as target
\* makes it wait for op-node.
ContenderFits ==
  request.contender.enabled =>
    \/ request.contender.target \in Spammable
    \/ request.contender.rpcUrl /\ request.contender.target # "op-geth"

\* The flags that make a deployable environment.
Fits ==
  /\ ContenderFits
  /\ "mock-proxy" \notin request.flags
  /\ "flashblocks" \in request.flags => request.externalBuilder # ""
  /\ "enable-websocket-proxy" \in request.flags =>
       "flashblocks" \in request.flags /\ request.externalBuilder # ""

-----------------------------------------------------------------------------
(* Properties.                                                             *)

\* Validate rejects exactly the flags that do not go together, and nothing after it
\* fails for what the recipes build: every component is registered, every native one
\* can be downloaded, and no template panics.  The code's own failures left are
\* overrides the user got wrong.  (Code: Validate against recipe_*.go, NewLocalRunner,
\* LocalRunner.applyTemplate.)  That mock-proxy is among the flags rejected is a bug of
\* the code (components.go:694), which recipe_buildernet.go:33 offers as "include a mock
\* proxy for builder-hub": builder-hub has no ready check for its proxy to wait for.
FailuresExplained ==
  /\ Decided => (pc = "rejected") = ~Fits
  /\ pc = "runner_failed" => \E n \in DOMAIN request.override : request.override[n] = "neither"
  /\ pc # "panicked"

\* Some services, and those they refer to.
Near(names) ==
  names \cup UNION {{r.service : r \in services[i].refs} :
                      i \in {j \in DOMAIN services : services[j].name \in names}}

\* What a service reaches over at most three references, as many as any recipe needs.
ReachedFrom(name) == Near(Near(Near({name})))

\* Blocks are built by whom the flags name: op-node reaches the external builder through
\* rollup-boost, and the beacon node the EL, through cl-proxy if there is a secondary; a
\* flashblocks node gets the stream of the builder that makes one.  (Code: the wiring of
\* OpRecipe.Apply and L1Recipe.Apply.)
BuilderReached ==
  pc = "prometheus" =>
    /\ "el" \in ReachedFrom("beacon")
    /\ "secondary-el" \in request.flags => "cl-proxy" \in ReachedFrom("beacon")
    /\ request.externalBuilder # "" => "rollup-boost" \in ReachedFrom("op-node")
    /\ request.externalBuilder \in OwnBuilders =>
         request.externalBuilder \in ReachedFrom("op-node")
    /\ "flashblocks" \in request.flags => "bproxy" \in ReachedFrom("op-node")
    /\ "flashblocks" \in request.flags /\ request.externalBuilder = "op-rbuilder" =>
         \E i \in DOMAIN services :
           /\ services[i].name \in ReachedFrom("flashblocks-rpc")
           /\ [service |-> "op-rbuilder", label |-> "flashblocks"] \in services[i].refs
=============================================================================
