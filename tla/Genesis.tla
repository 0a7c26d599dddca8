------------------------------- MODULE Genesis -------------------------------
(***************************************************************************)
(* The artifacts of a session: ArtifactsBuilder.Build in                   *)
(* playground/artifacts.go and toOpBlock in playground/genesis_op.go.      *)
(*                                                                         *)
(* Build empties the output directory, computes the L1 genesis, writes the *)
(* L1's files one by one, in the order a Go map is iterated, and then      *)
(* merges what the flags ask for into the two embedded documents of the    *)
(* L2.  It stops at the first error and may be killed anywhere; the next   *)
(* session starts from the directory the last one and its services left.   *)
(*                                                                         *)
(* A JSON document is the set of its leaves: scalars, each with the keys   *)
(* that lead to it.  An object without members is not told from a missing  *)
(* one; neither the embedded documents nor what is merged into them have   *)
(* one.  A hash is what it is the hash of.                                 *)
(***************************************************************************)
EXTENDS ForkTimes

CONSTANTS
  Clocks,      \* what time.Now may return, in ticks
  Delays,      \* --genesis-delay
  BlockTimes,  \* --block-time
  Forks,       \* --enable-latest-fork: {} or {block}
  MaxBuilds    \* model bound: sessions that use the directory

ASSUME GenesisAssumption ==
  /\ Clocks \subseteq Nat /\ Delays \subseteq Nat /\ BlockTimes \subseteq Nat
  /\ \A fork \in Forks : fork = {} \/ \E n \in fork : n \in Nat /\ fork = {n}
  /\ MaxBuilds \in Nat

VARIABLES
  pc,     \* where Build is; "idle": no session, "up": it has returned
  build,  \* how many sessions there have been
  flags,  \* of this session, with the clock it reads
  dir     \* the output directory: contents by path

vars == <<pc, build, flags, dir>>

Batch == {"genesis.json", "testnet/genesis.ssz", "testnet/config.yaml"}

AnyFlags == [clock : Clocks, delay : Delays, blockTime : BlockTimes, fork : Forks,
             latestL1 : BOOLEAN]

Init ==
  /\ pc = "idle"
  /\ build = 0
  /\ flags \in AnyFlags
  /\ dir = <<>>

-----------------------------------------------------------------------------
(* JSON. *)

Leaf(path, value) == <<path, value>>

\* A *uint64 with omitempty, or the member an if adds.
Member(path, times) == {Leaf(path, t) : t \in times}

ValuesAt(json, path) == {leaf[2] : leaf \in {l \in json : l[1] = path}}

At(json, path) == CHOOSE v \in ValuesAt(json, path) : TRUE

\* One is the other, or leads to it.
Clash(path1, path2) == \A i \in DOMAIN path1 \cap DOMAIN path2 : path1[i] = path2[i]

\* Objects are merged key by key.  Where either side has no object the value of src
\* replaces all that dst has there.
mergeMap(dst, src) ==
  src \cup {old \in dst : \A new \in src : ~Clash(old[1], new[1])}

overrideJSON(original, overrides) == mergeMap(original, overrides)

\* utils/genesis.json and utils/rollup.json, cut to the members that matter.
opGenesis ==
  {Leaf(<<"timestamp">>, 1),
   Leaf(<<"config", "shanghaiTime">>, 0),
   Leaf(<<"config", "optimism", "eip1559Elasticity">>, 6),
   Leaf(<<"alloc", "messagePasser">>, "storage")}

opRollupConfig ==
  {Leaf(<<"genesis", "l2_time">>, 1),
   Leaf(<<"genesis", "l1", "hash">>, [of |-> "template"]),
   Leaf(<<"genesis", "l2", "hash">>, [of |-> "template"]),
   Leaf(<<"genesis", "system_config", "gasLimit">>, 60),
   Leaf(<<"block_time">>, 2),
   Leaf(<<"l2_chain_id">>, 13)}

-----------------------------------------------------------------------------
(* What Build computes from the flags. *)

genesisTime == GenesisTime(flags.clock, flags.delay)
opTimestamp == OpTimestamp(genesisTime)
forkTime    == ForkTime(opTimestamp, flags.blockTime, flags.fork)

\* gen.ToBlock, over the allocations with the prefunded accounts and the Optimism state.
block == [time |-> genesisTime, latest |-> flags.latestL1]

L1File(f) ==
  CASE f = "genesis.json"        -> block
    [] f = "testnet/genesis.ssz" ->
         [time |-> genesisTime, electra |-> flags.latestL1, payload |-> block]
    [] f = "testnet/config.yaml" ->
         [latestForkEpoch |-> IF flags.latestL1 THEN 0 ELSE Word - 1]

L2Input ==
  {Leaf(<<"timestamp">>, opTimestamp), Leaf(<<"alloc", "prefunded">>, "balance")}
  \cup Member(<<"config", "pragueTime">>, forkTime)
  \cup Member(<<"config", "isthmusTime">>, forkTime)

newOpGenesis == overrideJSON(opGenesis, L2Input)

AllocOf(json) == {l \in json : l[1][1] = "alloc"}

ActiveAt(json, fork) ==
  isTimestampForked(ValuesAt(json, <<"config", fork>>), At(json, <<"timestamp">>))

\* Mutant: the copy is made after types.NewBlock has overwritten the field.
toOpBlockNoCopy(json) ==
  LET listHash == IF ActiveAt(json, "shanghaiTime") THEN {"empty"} ELSE {}
  IN [time        |-> At(json, <<"timestamp">>),
      root        |-> AllocOf(json),
      requests    |-> IF ActiveAt(json, "pragueTime") THEN {"empty"} ELSE {},
      withdrawals |-> listHash]

\* The header of the L2 genesis.  toBlockWithRoot sets the withdrawals hash to the
\* storage root of the message passer under Isthmus; types.NewBlock overwrites it
\* with the hash of the (empty) list of withdrawals, so a copy is put back.
toOpBlock(json) ==
  LET withdrawalsHash == ValuesAt(json, <<"alloc", "messagePasser">>)
      listHash == IF ActiveAt(json, "shanghaiTime") THEN {"empty"} ELSE {}
  IN [time        |-> At(json, <<"timestamp">>),
      root        |-> AllocOf(json),
      requests    |-> IF ActiveAt(json, "pragueTime") THEN {"empty"} ELSE {},
      withdrawals |-> IF ActiveAt(json, "isthmusTime") THEN withdrawalsHash ELSE listHash]

\* Mutant: the hash is that of the embedded genesis.
RollupInputStale ==
  {Leaf(<<"genesis", "l2_time">>, opTimestamp),
   Leaf(<<"genesis", "l1", "hash">>, block),
   Leaf(<<"genesis", "l2", "hash">>, toOpBlock(opGenesis)),
   Leaf(<<"block_time">>, flags.blockTime)}
  \cup Member(<<"isthmus_time">>, forkTime)

RollupInput ==
  {Leaf(<<"genesis", "l2_time">>, opTimestamp),
   Leaf(<<"genesis", "l1", "hash">>, block),
   Leaf(<<"genesis", "l2", "hash">>, toOpBlock(newOpGenesis)),
   Leaf(<<"block_time">>, flags.blockTime)}
  \cup Member(<<"isthmus_time">>, forkTime)

newOpRollup == overrideJSON(opRollupConfig, RollupInput)

-----------------------------------------------------------------------------
(* Build. *)

Goto(to) == pc' = to /\ UNCHANGED <<build, flags>>

Write(path, content) ==
  dir' = [f \in DOMAIN dir \cup {path} |-> IF f = path THEN content ELSE dir[f]]

Begin ==
  /\ pc = "idle"
  /\ build < MaxBuilds
  /\ build' = build + 1
  /\ flags' \in AnyFlags
  /\ pc' = "remove"
  /\ UNCHANGED dir

\* Mutant: the volumes stay.
RemoveAllFiles ==
  /\ pc = "remove"
  /\ dir' = [f \in DOMAIN dir \cap {"volume"} |-> dir[f]]
  /\ Goto("batch")

RemoveAll ==
  /\ pc = "remove"
  /\ dir' = <<>>
  /\ Goto("batch")

\* os.RemoveAll stops at what it may not remove: a container wrote it as root.
RemoveAllFails ==
  /\ pc = "remove"
  /\ "volume" \in DOMAIN dir
  /\ \E gone \in SUBSET (DOMAIN dir \ {"volume"}) :
        dir' = [f \in DOMAIN dir \ gone |-> dir[f]]
  /\ Goto("idle")

WriteBatch(f) ==
  /\ pc = "batch"
  /\ f \notin DOMAIN dir
  /\ Write(f, L1File(f))
  /\ Goto(IF Batch \subseteq DOMAIN dir' THEN "l2" ELSE "batch")

\* Both documents of the L2 are complete before the first is written.
WriteL2Genesis ==
  /\ pc = "l2"
  /\ Write("l2-genesis.json", newOpGenesis)
  /\ Goto("rollup")

WriteRollup ==
  /\ pc = "rollup"
  /\ Write("rollup.json", newOpRollup)
  /\ Goto("up")

\* An error on the way, or the program is killed.
BuildEnds ==
  /\ pc \in {"remove", "batch", "l2", "rollup"}
  /\ Goto("idle")
  /\ UNCHANGED dir

\* A service of the session writes to the volume createVolume made for it.
ServiceWrites ==
  /\ pc = "up"
  /\ Write("volume", [of |-> build])
  /\ UNCHANGED <<pc, build, flags>>

\* The session ends; nothing is cleaned up.
SessionEnds ==
  /\ pc = "up"
  /\ Goto("idle")
  /\ UNCHANGED dir

\* Model bound.
NoMoreBuilds == pc = "idle" /\ build = MaxBuilds /\ UNCHANGED vars

Next ==
  \/ Begin \/ RemoveAll \/ RemoveAllFails
  \/ \E f \in Batch : WriteBatch(f)
  \/ WriteL2Genesis \/ WriteRollup
  \/ BuildEnds
  \/ ServiceWrites \/ SessionEnds
  \/ NoMoreBuilds

Spec == Init /\ [][Next]_vars

-----------------------------------------------------------------------------
(* Properties, about the files and not about what was computed. *)

rollup    == dir["rollup.json"]
l2Genesis == dir["l2-genesis.json"]
l2Header  == At(rollup, <<"genesis", "l2", "hash">>)
l2Time    == At(rollup, <<"genesis", "l2_time">>)
isthmus   == ValuesAt(rollup, <<"isthmus_time">>)

(* The files the clients of the two chains read describe the same chains:  *)
(* the beacon node's state and the EL's genesis.json the same L1 block and *)
(* fork, rollup.json that L1 block, the L2 block op-geth computes from     *)
(* l2-genesis.json, and the fork time op-geth has (artifacts.go:335).       *)
ChainsAgree ==
  pc = "up" =>
    /\ dir["testnet/genesis.ssz"].payload = dir["genesis.json"]
    /\ dir["testnet/genesis.ssz"].time = dir["genesis.json"].time
    /\ dir["genesis.json"].latest = (dir["testnet/config.yaml"].latestForkEpoch = 0)
    /\ At(rollup, <<"genesis", "l1", "hash">>) = dir["genesis.json"]
    /\ l2Header = toOpBlock(l2Genesis)
    /\ l2Header.time = l2Time
    /\ \A key \in {"pragueTime", "isthmusTime"} :
         ValuesAt(l2Genesis, <<"config", key>>) = isthmus

(* The genesis header of the L2 has the fields of the forks rollup.json    *)
(* turns on at its genesis time: a requests hash and the message passer's  *)
(* storage root exactly when Isthmus is on from block 0 (genesis_op.go:139 *)
(* to 180, where the hash is set, overwritten and restored).               *)
HeaderFitsForks ==
  pc = "up" =>
    LET on == isTimestampForked(isthmus, l2Time)
    IN /\ l2Header.withdrawals = IF on THEN {"storage"} ELSE {"empty"}
       /\ (l2Header.requests # {}) = on

(* --enable-latest-fork=n turns the fork on "at specified block": block k  *)
(* of the L2, at its genesis time plus k block times, has it from n on and *)
(* not before, as long as the fork time fits a uint64 and blocks take time *)
(* at all.                                                                 *)
ForkAtBlock ==
  (pc = "up" /\ flags.blockTime > 0) =>
    \A n \in flags.fork :
      l2Time + flags.blockTime * n < Word =>
        \A k \in 0 .. n + 1 :
          isTimestampForked(isthmus, l2Time + At(rollup, <<"block_time">>) * k) = (k >= n)

(* No service finds the data an earlier session's chain left, whatever     *)
(* became of that session and of the builds in between.                    *)
NoStaleVolume ==
  (pc \in {"batch", "l2", "rollup", "up"} /\ "volume" \in DOMAIN dir) =>
    dir["volume"].of = build
=============================================================================
