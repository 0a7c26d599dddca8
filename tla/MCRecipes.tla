----------------------------- MODULE MCRecipes ------------------------------
(***************************************************************************)
(* Manifest over the command lines of all three recipes, with every        *)
(* combination of the flags that change their services.                    *)
(***************************************************************************)
EXTENDS Deployment, TLC

AnyString == STRING

\* No service, the node's choice of a target, and nodes that only some flags bring.
Contenders ==
  {[enabled |-> FALSE, target |-> "", rpcUrl |-> FALSE]} \cup
  [enabled : {TRUE}, target : {"", "op-geth", "op-reth", "builder-hub", "mev-boost-relay"},
   rpcUrl : BOOLEAN]

\* An override of one service: one that others wait for, one that may be native, one
\* that is optional, and one that no recipe has.
OverrideMaps ==
  {<<>>} \cup {n :> o : n \in {"beacon", "el", "contender", "nosuch"}, o \in Override}

Options ==
  [flags : {{}}, contender : Contenders, override : OverrideMaps,
   prometheus : BOOLEAN, dryRun : {FALSE}] \cup
  [flags : {{}}, contender : Contenders, override : {<<>>},
   prometheus : {TRUE}, dryRun : {TRUE}]

With(recipe, builders) ==
  {[recipe |-> recipe, externalBuilder |-> b, flags |-> f] @@ o :
     b \in builders, f \in SUBSET FlagsOf(recipe), o \in Options}

AllRequests ==
  With("l1", {""}) \cup With("buildernet", {""}) \cup
  With("opstack", {"", "url"} \cup OwnBuilders)

\* What the theorems about the recipes assume of the command lines.
ASSUME InstanceAssumption == FromRecipes
=============================================================================
