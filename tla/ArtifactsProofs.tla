-------------------------- MODULE ArtifactsProofs --------------------------
(***************************************************************************)
(* The files a session is made of: the times in them (ForkTimes), the      *)
(* genesis documents (Genesis) and the binaries on the host (Releases),    *)
(* for any clock, flags, number of sessions and releases.                  *)
(***************************************************************************)
EXTENDS Genesis, Releases, TLAPS

(***************************************************************************)
(* Times, for every clock, delay, block time and block number that fit the *)
(* machine's integers.                                                     *)
(***************************************************************************)

(* A remainder that is not needed changes nothing. *)
LEMMA SmallMod ==
  ASSUME NEW n \in Nat, NEW w \in Nat \ {0}, n < w
  PROVE  n % w = n
  OBVIOUS

(* Blocks of equal length keep the order of their numbers. *)
LEMMA TimesOrdered ==
  ASSUME NEW b \in Nat \ {0}, NEW n \in Nat, NEW k \in Nat
  PROVE  (b * n <= b * k) <=> (n <= k)
<1>1. ASSUME n <= k
      PROVE  b * n <= b * k
  <2>1. k - n \in Nat
    BY <1>1
  <2>2. b * (k - n) \in Nat
    BY <2>1
  <2>3. b * k = b * n + b * (k - n)
    BY <2>1
  <2>. QED
    BY <2>2, <2>3
<1>2. ASSUME k < n
      PROVE  b * k < b * n
  <2>1. n - k \in Nat \ {0}
    BY <1>2
  <2>2. b * (n - k) \in Nat \ {0}
    BY <2>1
  <2>3. b * n = b * k + b * (n - k)
    BY <2>1
  <2>. QED
    BY <2>2, <2>3
<1>. QED
  BY <1>1, <1>2

(* --enable-latest-fork=n (artifacts.go:262): whatever the L2 genesis time *)
(* and the block time, the fork is active in block k exactly from k = n on *)
(* if its time fits a uint64.                                              *)
THEOREM ForkAtBlockNumber ==
  ASSUME NEW genesis \in Nat, NEW blockTime \in Nat \ {0}, NEW n \in Nat, NEW k \in Nat,
         genesis + blockTime * n < Word
  PROVE  isTimestampForked(ForkTime(genesis, blockTime, {n}), genesis + blockTime * k)
           <=> k >= n
<1>1. blockTime * n \in Nat /\ blockTime * k \in Nat
  OBVIOUS
<1>2. (genesis + blockTime * n) % Word = genesis + blockTime * n
  <2>1. genesis + blockTime * n \in Nat /\ Word \in Nat \ {0}
    BY <1>1, TimesAssumption
  <2>. QED
    BY <2>1, SmallMod
<1>3. ForkTime(genesis, blockTime, {n})
        = {IF n = 0 THEN 0 ELSE genesis + blockTime * n}
  BY <1>2 DEF ForkTime
<1>4. CASE n = 0
  <2>1. ForkTime(genesis, blockTime, {n}) = {0}
    BY <1>3, <1>4
  <2>2. genesis + blockTime * k \in Nat
    BY <1>1
  <2>. QED
    BY <1>4, <2>1, <2>2 DEF isTimestampForked
<1>5. CASE n # 0
  <2>1. isTimestampForked(ForkTime(genesis, blockTime, {n}), genesis + blockTime * k)
          <=> genesis + blockTime * n <= genesis + blockTime * k
    BY <1>3, <1>5 DEF isTimestampForked
  <2>. QED
    BY <1>1, <2>1, TimesOrdered
<1>. QED
  BY <1>4, <1>5

(* Without the flag no head is ever forked. *)
THEOREM NoForkWithoutFlag ==
  ASSUME NEW genesis \in Nat, NEW blockTime \in Nat, NEW head \in Nat
  PROVE  ~isTimestampForked(ForkTime(genesis, blockTime, {}), head)
  BY DEF isTimestampForked, ForkTime

(* The L1 starts exactly the delay after the second the clock shows, and   *)
(* at least MinimumGenesisDelay, if the delay fits a time.Duration.        *)
THEOREM GenesisIsAhead ==
  ASSUME NEW clock \in Nat, NEW asked \in Nat,
         2 * (GenesisDelay(asked) * Second) < Word,
         clock \div Second + GenesisDelay(asked) < Word
  PROVE  /\ GenesisTime(clock, asked) = clock \div Second + GenesisDelay(asked)
         /\ GenesisTime(clock, asked) >= clock \div Second + MinimumGenesisDelay
<1>. DEFINE d == GenesisDelay(asked)
<1>1. d \in Nat /\ d >= MinimumGenesisDelay
  BY DEF GenesisDelay, MinimumGenesisDelay
<1>2. Second \in Nat \ {0} /\ Word \in Nat \ {0}
  BY TimesAssumption
<1>3. d * Second \in Nat
  BY <1>1, <1>2
<1>4. (d * Second) % Word = d * Second
  BY <1>2, <1>3, SmallMod
<1>5. Duration(d) = d * Second
  BY <1>2, <1>3, <1>4 DEF Duration, Signed
<1>6. (clock + d * Second) \div Second = clock \div Second + d
  <2>. DEFINE q == clock \div Second
              r == clock % Second
  <2>1. q \in Nat /\ r \in 0 .. Second - 1 /\ clock = q * Second + r
    BY <1>2
  <2>. HIDE DEF q, r, d
  <2>2. clock + d * Second = (q + d) * Second + r
    <3>1. (q + d) * Second = q * Second + d * Second
      BY <1>1, <1>2, <2>1
    <3>. QED
      BY <1>2, <1>3, <2>1, <3>1
  <2>3. q + d \in Nat
    BY <1>1, <2>1
  <2>4. ASSUME NEW a \in Nat, NEW c \in 0 .. Second - 1
        PROVE  (a * Second + c) \div Second = a
    BY <1>2
  <2>5. ((q + d) * Second + r) \div Second = q + d
    BY <2>1, <2>3, <2>4
  <2>. QED
    BY <2>2, <2>5 DEF q
<1>7. GenesisTime(clock, asked) = (clock \div Second + d) % Word
  BY <1>5, <1>6 DEF GenesisTime
<1>8. clock \div Second + d \in Nat
  BY <1>1, <1>2
<1>. QED
  BY <1>1, <1>2, <1>7, <1>8, SmallMod DEF MinimumGenesisDelay

-----------------------------------------------------------------------------
(***************************************************************************)
(* The artifacts: what is in the files the services of a session read, for  *)
(* any clock, flags and number of sessions before it.                      *)
(***************************************************************************)

\* What is at a path of the merged document: what src says of it, as soon as src has
\* something there, above or below, and what dst had otherwise.
LEMMA MergedValues ==
  ASSUME NEW dst, NEW src, NEW path
  PROVE  ValuesAt(mergeMap(dst, src), path) =
           IF \E new \in src : Clash(path, new[1]) THEN ValuesAt(src, path)
                                                   ELSE ValuesAt(dst, path)
<1>1. Clash(path, path)
  BY DEF Clash
<1>2. CASE \E new \in src : Clash(path, new[1])
  BY <1>2 DEF ValuesAt, mergeMap
<1>3. CASE ~\E new \in src : Clash(path, new[1])
  BY <1>1, <1>3 DEF ValuesAt, mergeMap
<1> QED
  BY <1>2, <1>3

LEMMA AtOne ==
  ASSUME NEW json, NEW path, NEW v, ValuesAt(json, path) = {v}
  PROVE  At(json, path) = v
  BY DEF At

\* The genesis of the L2 after the merge.
LEMMA L2GenesisValues ==
  /\ ValuesAt(newOpGenesis, <<"timestamp">>) = {opTimestamp}
  /\ ValuesAt(newOpGenesis, <<"config", "pragueTime">>) = forkTime
  /\ ValuesAt(newOpGenesis, <<"config", "isthmusTime">>) = forkTime
  /\ ValuesAt(newOpGenesis, <<"config", "shanghaiTime">>) = {0}
  /\ ValuesAt(newOpGenesis, <<"alloc", "messagePasser">>) = {"storage"}
<1> DEFINE In(path) == \E new \in L2Input : Clash(path, new[1])
           Prague == <<"config", "pragueTime">>
           Isthmus == <<"config", "isthmusTime">>
<1>1. /\ Leaf(<<"timestamp">>, opTimestamp) \in L2Input
      /\ Leaf(<<"alloc", "prefunded">>, "balance") \in L2Input
      /\ \A t \in forkTime : Leaf(Prague, t) \in L2Input /\ Leaf(Isthmus, t) \in L2Input
      /\ \A new \in L2Input : \/ new[1] = <<"timestamp">> /\ new[2] = opTimestamp
                              \/ new[1] = <<"alloc", "prefunded">>
                              \/ new[1] = Prague /\ new[2] \in forkTime
                              \/ new[1] = Isthmus /\ new[2] \in forkTime
  BY DEF L2Input, Member, Leaf
<1>2. /\ ValuesAt(L2Input, <<"timestamp">>) = {opTimestamp}
      /\ ValuesAt(L2Input, Prague) = forkTime
      /\ ValuesAt(L2Input, Isthmus) = forkTime
  <2>1. ValuesAt(L2Input, <<"timestamp">>) = {opTimestamp}
    BY <1>1 DEF ValuesAt, Leaf
  <2>2. /\ ValuesAt(L2Input, Prague) = {l[2] : l \in {m \in L2Input : m[1] = Prague}}
        /\ ValuesAt(L2Input, Isthmus) = {l[2] : l \in {m \in L2Input : m[1] = Isthmus}}
    BY DEF ValuesAt
  <2>3. ValuesAt(L2Input, Prague) \subseteq forkTime /\ ValuesAt(L2Input, Isthmus) \subseteq forkTime
    BY <1>1, <2>2
  <2>4. ASSUME NEW t \in forkTime
        PROVE  t \in ValuesAt(L2Input, Prague) /\ t \in ValuesAt(L2Input, Isthmus)
    <3>1. /\ Leaf(Prague, t) \in {m \in L2Input : m[1] = Prague}
          /\ Leaf(Isthmus, t) \in {m \in L2Input : m[1] = Isthmus}
      BY <1>1 DEF Leaf
    <3>2. Leaf(Prague, t)[2] = t /\ Leaf(Isthmus, t)[2] = t
      BY DEF Leaf
    <3> QED
      BY <2>2, <3>1, <3>2
  <2> QED
    BY <2>1, <2>3, <2>4
<1>3. /\ ValuesAt(opGenesis, Prague) = {}
      /\ ValuesAt(opGenesis, Isthmus) = {}
      /\ ValuesAt(opGenesis, <<"config", "shanghaiTime">>) = {0}
      /\ ValuesAt(opGenesis, <<"alloc", "messagePasser">>) = {"storage"}
  <2>1. \A l \in opGenesis : \/ l[1] = <<"timestamp">>
                             \/ l[1] = <<"config", "shanghaiTime">> /\ l[2] = 0
                             \/ l[1] = <<"config", "optimism", "eip1559Elasticity">>
                             \/ l[1] = <<"alloc", "messagePasser">> /\ l[2] = "storage"
    BY DEF opGenesis, Leaf
  <2>2. /\ Leaf(<<"config", "shanghaiTime">>, 0) \in opGenesis
        /\ Leaf(<<"alloc", "messagePasser">>, "storage") \in opGenesis
    BY DEF opGenesis
  <2>3. ValuesAt(opGenesis, Prague) = {} /\ ValuesAt(opGenesis, Isthmus) = {}
    BY <2>1 DEF ValuesAt
  <2>4. ValuesAt(opGenesis, <<"config", "shanghaiTime">>) = {0}
    BY <2>1, <2>2 DEF ValuesAt, Leaf
  <2>5. ValuesAt(opGenesis, <<"alloc", "messagePasser">>) = {"storage"}
    BY <2>1, <2>2 DEF ValuesAt, Leaf
  <2> QED
    BY <2>3, <2>4, <2>5
<1>4. In(<<"timestamp">>)
  BY <1>1 DEF Clash, Leaf
<1>5. (forkTime # {}) => In(Prague) /\ In(Isthmus)
  BY <1>1 DEF Clash, Leaf
<1>6. ~In(<<"config", "shanghaiTime">>) /\ ~In(<<"alloc", "messagePasser">>)
  BY <1>1 DEF Clash
<1>7. ASSUME NEW path
      PROVE  /\ In(path) => ValuesAt(newOpGenesis, path) = ValuesAt(L2Input, path)
             /\ ~In(path) => ValuesAt(newOpGenesis, path) = ValuesAt(opGenesis, path)
  BY MergedValues DEF newOpGenesis, overrideJSON
<1> HIDE DEF In, Prague, Isthmus
<1>8. ValuesAt(newOpGenesis, Prague) = forkTime /\ ValuesAt(newOpGenesis, Isthmus) = forkTime
  BY <1>2, <1>3, <1>5, <1>7
<1>9. ValuesAt(newOpGenesis, <<"timestamp">>) = {opTimestamp}
  BY <1>2, <1>4, <1>7
<1>10. /\ ValuesAt(newOpGenesis, <<"config", "shanghaiTime">>) = {0}
       /\ ValuesAt(newOpGenesis, <<"alloc", "messagePasser">>) = {"storage"}
  BY <1>3, <1>6, <1>7
<1> QED
  BY <1>8, <1>9, <1>10 DEF Prague, Isthmus

\* rollup.json after the merge.
LEMMA RollupValues ==
  /\ ValuesAt(newOpRollup, <<"genesis", "l2_time">>) = {opTimestamp}
  /\ ValuesAt(newOpRollup, <<"genesis", "l1", "hash">>) = {block}
  /\ ValuesAt(newOpRollup, <<"genesis", "l2", "hash">>) = {toOpBlock(newOpGenesis)}
  /\ ValuesAt(newOpRollup, <<"block_time">>) = {flags.blockTime}
  /\ ValuesAt(newOpRollup, <<"isthmus_time">>) = forkTime
<1> DEFINE In(path) == \E new \in RollupInput : Clash(path, new[1])
           L2Time == <<"genesis", "l2_time">>
           L1Hash == <<"genesis", "l1", "hash">>
           L2Hash == <<"genesis", "l2", "hash">>
           BlockTime == <<"block_time">>
           Isthmus == <<"isthmus_time">>
           Written == {l[2] : l \in {m \in RollupInput : m[1] = Isthmus}}
<1>1. /\ Leaf(L2Time, opTimestamp) \in RollupInput
      /\ Leaf(L1Hash, block) \in RollupInput
      /\ Leaf(L2Hash, toOpBlock(newOpGenesis)) \in RollupInput
      /\ Leaf(BlockTime, flags.blockTime) \in RollupInput
      /\ \A t \in forkTime : Leaf(Isthmus, t) \in RollupInput
      /\ \A new \in RollupInput : \/ new[1] = L2Time /\ new[2] = opTimestamp
                                  \/ new[1] = L1Hash /\ new[2] = block
                                  \/ new[1] = L2Hash /\ new[2] = toOpBlock(newOpGenesis)
                                  \/ new[1] = BlockTime /\ new[2] = flags.blockTime
                                  \/ new[1] = Isthmus /\ new[2] \in forkTime
  BY DEF RollupInput, Member, Leaf
<1>2. /\ ValuesAt(RollupInput, L2Time) = {opTimestamp}
      /\ ValuesAt(RollupInput, L1Hash) = {block}
      /\ ValuesAt(RollupInput, L2Hash) = {toOpBlock(newOpGenesis)}
      /\ ValuesAt(RollupInput, BlockTime) = {flags.blockTime}
  <2>1. ValuesAt(RollupInput, L2Time) = {opTimestamp}
    BY <1>1 DEF ValuesAt, Leaf
  <2>2. ValuesAt(RollupInput, L1Hash) = {block}
    BY <1>1 DEF ValuesAt, Leaf
  <2>3. ValuesAt(RollupInput, L2Hash) = {toOpBlock(newOpGenesis)}
    BY <1>1 DEF ValuesAt, Leaf
  <2>4. ValuesAt(RollupInput, BlockTime) = {flags.blockTime}
    BY <1>1 DEF ValuesAt, Leaf
  <2> QED
    BY <2>1, <2>2, <2>3, <2>4
<1>3. ValuesAt(RollupInput, Isthmus) = forkTime
  <2>1. ValuesAt(RollupInput, Isthmus) = Written
    BY DEF ValuesAt
  <2>2. Written \subseteq forkTime
    BY <1>1
  <2>3. ASSUME NEW t \in forkTime
        PROVE  t \in Written
    <3>1. Leaf(Isthmus, t) \in {m \in RollupInput : m[1] = Isthmus} /\ Leaf(Isthmus, t)[2] = t
      BY <1>1 DEF Leaf
    <3> QED
      BY <3>1
  <2> QED
    BY <2>1, <2>2, <2>3
<1>4. ValuesAt(opRollupConfig, Isthmus) = {}
  <2>1. \A l \in opRollupConfig : l[1][1] # "isthmus_time"
    BY DEF opRollupConfig, Leaf
  <2> QED
    BY <2>1 DEF ValuesAt
<1>5. In(L2Time) /\ In(L1Hash) /\ In(L2Hash) /\ In(BlockTime)
  BY <1>1 DEF Clash, Leaf
<1>6. (forkTime # {}) => In(Isthmus)
  BY <1>1 DEF Clash, Leaf
<1>7. ASSUME NEW path
      PROVE  /\ In(path) => ValuesAt(newOpRollup, path) = ValuesAt(RollupInput, path)
             /\ ~In(path) => ValuesAt(newOpRollup, path) = ValuesAt(opRollupConfig, path)
  BY MergedValues DEF newOpRollup, overrideJSON
<1> HIDE DEF In, L2Time, L1Hash, L2Hash, BlockTime, Isthmus, Written
<1>8. ValuesAt(newOpRollup, Isthmus) = forkTime
  BY <1>3, <1>4, <1>6, <1>7
<1>9. /\ ValuesAt(newOpRollup, L2Time) = {opTimestamp}
      /\ ValuesAt(newOpRollup, L1Hash) = {block}
      /\ ValuesAt(newOpRollup, L2Hash) = {toOpBlock(newOpGenesis)}
      /\ ValuesAt(newOpRollup, BlockTime) = {flags.blockTime}
  BY <1>2, <1>5, <1>7
<1> QED
  BY <1>8, <1>9 DEF L2Time, L1Hash, L2Hash, BlockTime, Isthmus

-----------------------------------------------------------------------------

Building == {"batch", "l2", "rollup", "up"}

GTypeOK ==
  /\ pc \in {"idle", "remove"} \cup Building
  /\ flags \in AnyFlags

\* Whatever is found in the directory once it has been emptied was written by this
\* build, or by this session's services, and says what the flags say.
Fresh ==
  pc \in Building =>
    /\ \A f \in Batch \cap DOMAIN dir : dir[f] = L1File(f)
    /\ pc # "batch" => Batch \subseteq DOMAIN dir
    /\ pc \in {"rollup", "up"} =>
         "l2-genesis.json" \in DOMAIN dir /\ dir["l2-genesis.json"] = newOpGenesis
    /\ pc = "up" =>
         "rollup.json" \in DOMAIN dir /\ dir["rollup.json"] = newOpRollup

GInv == GTypeOK /\ Fresh /\ NoStaleVolume

\* What Build computes depends on the flags alone.
LEMMA SameFlags ==
  ASSUME flags' = flags
  PROVE  /\ \A f \in Batch : L1File(f)' = L1File(f)
         /\ newOpGenesis' = newOpGenesis
         /\ newOpRollup' = newOpRollup
<1>1. genesisTime' = genesisTime /\ opTimestamp' = opTimestamp /\ forkTime' = forkTime
      /\ block' = block
  BY DEF genesisTime, opTimestamp, forkTime, block
<1>2. \A f \in Batch : L1File(f)' = L1File(f)
  BY <1>1 DEF L1File
<1>3. newOpGenesis' = newOpGenesis
  BY <1>1 DEF newOpGenesis, L2Input
<1>4. newOpRollup' = newOpRollup
  BY <1>1, <1>3 DEF newOpRollup, RollupInput
<1> QED
  BY <1>2, <1>3, <1>4

\* A file that is written is there with its content, and the others stay.
LEMMA Written ==
  ASSUME NEW path, NEW content, Write(path, content)
  PROVE  /\ DOMAIN dir' = DOMAIN dir \cup {path}
         /\ dir'[path] = content
         /\ \A f \in DOMAIN dir : f # path => dir'[f] = dir[f]
  BY DEF Write

LEMMA GStep ==
  ASSUME GInv, [Next]_vars
  PROVE  GInv'
<1> USE DEF GInv
<1>1. CASE Begin
  BY <1>1 DEF Begin, GTypeOK, Fresh, NoStaleVolume, Building
<1>2. CASE RemoveAll
  BY <1>2 DEF RemoveAll, Goto, GTypeOK, Fresh, NoStaleVolume, Building
<1>3. CASE RemoveAllFails
  BY <1>3 DEF RemoveAllFails, Goto, GTypeOK, Fresh, NoStaleVolume, Building
<1>4. ASSUME NEW f \in Batch, WriteBatch(f)
      PROVE  GInv'
  <2>1. /\ pc = "batch" /\ flags' = flags /\ build' = build
        /\ pc' = IF Batch \subseteq DOMAIN dir' THEN "l2" ELSE "batch"
        /\ Write(f, L1File(f))
    BY <1>4 DEF WriteBatch, Goto
  <2>2. /\ DOMAIN dir' = DOMAIN dir \cup {f} /\ dir'[f] = L1File(f)
        /\ \A g \in DOMAIN dir : g # f => dir'[g] = dir[g]
    BY <2>1, Written
  <2>3. \A g \in Batch \cap DOMAIN dir' : dir'[g] = L1File(g)'
    BY <2>1, <2>2, SameFlags DEF Fresh, Building
  <2>4. f # "volume"
    BY DEF Batch
  <2> QED
    BY <2>1, <2>2, <2>3, <2>4 DEF GTypeOK, Fresh, NoStaleVolume, Building
<1>5. CASE WriteL2Genesis
  <2>1. /\ pc = "l2" /\ pc' = "rollup" /\ flags' = flags /\ build' = build
        /\ Write("l2-genesis.json", newOpGenesis)
    BY <1>5 DEF WriteL2Genesis, Goto
  <2>2. /\ DOMAIN dir' = DOMAIN dir \cup {"l2-genesis.json"}
        /\ dir'["l2-genesis.json"] = newOpGenesis
        /\ \A g \in DOMAIN dir : g # "l2-genesis.json" => dir'[g] = dir[g]
    BY <2>1, Written
  <2>3. Batch \subseteq DOMAIN dir' /\ \A g \in Batch : dir'[g] = L1File(g)'
    BY <2>1, <2>2, SameFlags DEF Fresh, Building, Batch
  <2> QED
    BY <2>1, <2>2, <2>3, SameFlags DEF GTypeOK, Fresh, NoStaleVolume, Building
<1>6. CASE WriteRollup
  <2>1. /\ pc = "rollup" /\ pc' = "up" /\ flags' = flags /\ build' = build
        /\ Write("rollup.json", newOpRollup)
    BY <1>6 DEF WriteRollup, Goto
  <2>2. /\ DOMAIN dir' = DOMAIN dir \cup {"rollup.json"}
        /\ dir'["rollup.json"] = newOpRollup
        /\ \A g \in DOMAIN dir : g # "rollup.json" => dir'[g] = dir[g]
    BY <2>1, Written
  <2>3. Batch \subseteq DOMAIN dir' /\ \A g \in Batch : dir'[g] = L1File(g)'
    BY <2>1, <2>2, SameFlags DEF Fresh, Building, Batch
  <2>4. dir'["l2-genesis.json"] = newOpGenesis'
    BY <2>1, <2>2, SameFlags DEF Fresh, Building
  <2> QED
    BY <2>1, <2>2, <2>3, <2>4, SameFlags DEF GTypeOK, Fresh, NoStaleVolume, Building
<1>7. CASE BuildEnds \/ SessionEnds
  BY <1>7 DEF BuildEnds, SessionEnds, Goto, GTypeOK, Fresh, NoStaleVolume, Building
<1>8. CASE ServiceWrites
  <2>1. /\ pc = "up" /\ pc' = "up" /\ flags' = flags /\ build' = build
        /\ Write("volume", [of |-> build])
    BY <1>8 DEF ServiceWrites
  <2>2. /\ DOMAIN dir' = DOMAIN dir \cup {"volume"} /\ dir'["volume"].of = build
        /\ \A g \in DOMAIN dir : g # "volume" => dir'[g] = dir[g]
    BY <2>1, Written
  <2>3. Batch \subseteq DOMAIN dir' /\ \A g \in Batch : dir'[g] = L1File(g)'
    BY <2>1, <2>2, SameFlags DEF Fresh, Building, Batch
  <2>4. dir'["l2-genesis.json"] = newOpGenesis' /\ dir'["rollup.json"] = newOpRollup'
    BY <2>1, <2>2, SameFlags DEF Fresh, Building
  <2> QED
    BY <2>1, <2>2, <2>3, <2>4 DEF GTypeOK, Fresh, NoStaleVolume, Building
<1>9. CASE UNCHANGED vars
  <2>1. /\ \A f \in Batch : L1File(f)' = L1File(f)
        /\ newOpGenesis' = newOpGenesis /\ newOpRollup' = newOpRollup
    BY <1>9, SameFlags DEF vars
  <2> QED
    BY <1>9, <2>1 DEF vars, GTypeOK, Fresh, NoStaleVolume, Building
<1> QED
  BY <1>1, <1>2, <1>3, <1>4, <1>5, <1>6, <1>7, <1>8, <1>9 DEF Next, NoMoreBuilds

(* What a build has written agrees with its flags in every behaviour,      *)
(* whatever sessions were cut short or left behind before it.              *)
THEOREM GenesisInvariant == Spec => []GInv
<1>1. Init => GInv
  BY DEF Init, GInv, GTypeOK, Fresh, NoStaleVolume, Building
<1> QED
  BY <1>1, GStep, PTL DEF Spec

(* A service finds no volume an earlier session left (artifacts.go:135).   *)
THEOREM VolumesAreNew == Spec => []NoStaleVolume
<1>1. GInv => NoStaleVolume
  BY DEF GInv
<1> QED
  BY <1>1, GenesisInvariant, PTL

\* What the properties read in the files once Build has returned.
LEMMA WhatIsRead ==
  ASSUME GInv, pc = "up"
  PROVE  /\ l2Genesis = newOpGenesis
         /\ l2Header = toOpBlock(newOpGenesis)
         /\ l2Time = opTimestamp
         /\ isthmus = forkTime
         /\ At(rollup, <<"genesis", "l1", "hash">>) = block
         /\ At(rollup, <<"block_time">>) = flags.blockTime
         /\ \A f \in Batch : dir[f] = L1File(f)
<1>1. /\ rollup = newOpRollup /\ l2Genesis = newOpGenesis
      /\ \A f \in Batch : dir[f] = L1File(f)
  BY DEF GInv, Fresh, Building, rollup, l2Genesis
<1>2. /\ l2Header = toOpBlock(newOpGenesis)
      /\ l2Time = opTimestamp
      /\ At(rollup, <<"genesis", "l1", "hash">>) = block
      /\ At(rollup, <<"block_time">>) = flags.blockTime
  <2>1. At(newOpRollup, <<"genesis", "l2", "hash">>) = toOpBlock(newOpGenesis)
    BY RollupValues, AtOne
  <2>2. At(newOpRollup, <<"genesis", "l2_time">>) = opTimestamp
    BY RollupValues, AtOne
  <2>3. At(newOpRollup, <<"genesis", "l1", "hash">>) = block
    BY RollupValues, AtOne
  <2>4. At(newOpRollup, <<"block_time">>) = flags.blockTime
    BY RollupValues, AtOne
  <2> QED
    BY <1>1, <2>1, <2>2, <2>3, <2>4 DEF l2Header, l2Time
<1>3. isthmus = forkTime
  BY <1>1, RollupValues DEF isthmus
<1> QED
  BY <1>1, <1>2, <1>3

\* The header of the L2 genesis, from the values the document has.
LEMMA HeaderOf ==
  LET header == toOpBlock(newOpGenesis)
      on == isTimestampForked(forkTime, opTimestamp)
  IN  opTimestamp \in Nat =>
        /\ header.time = opTimestamp
        /\ header.withdrawals = IF on THEN {"storage"} ELSE {"empty"}
        /\ header.requests = IF on THEN {"empty"} ELSE {}
<1> DEFINE header == toOpBlock(newOpGenesis)
           on == isTimestampForked(forkTime, opTimestamp)
<1> SUFFICES ASSUME opTimestamp \in Nat
             PROVE  /\ header.time = opTimestamp
                    /\ header.withdrawals = IF on THEN {"storage"} ELSE {"empty"}
                    /\ header.requests = IF on THEN {"empty"} ELSE {}
  OBVIOUS
<1>1. At(newOpGenesis, <<"timestamp">>) = opTimestamp
  BY L2GenesisValues, AtOne
<1>2. /\ ActiveAt(newOpGenesis, "pragueTime") = on
      /\ ActiveAt(newOpGenesis, "isthmusTime") = on
  BY <1>1, L2GenesisValues DEF ActiveAt
<1>3. ActiveAt(newOpGenesis, "shanghaiTime")
  BY <1>1, L2GenesisValues DEF ActiveAt, isTimestampForked
<1> HIDE DEF on
<1> QED
  BY <1>1, <1>2, <1>3, L2GenesisValues DEF toOpBlock

LEMMA TimesAreNat ==
  ASSUME GTypeOK
  PROVE  /\ genesisTime \in Nat /\ opTimestamp \in Nat
         /\ flags.blockTime \in Nat /\ flags.fork \subseteq Nat
<1>1. flags.blockTime \in Nat /\ flags.clock \in Nat /\ flags.delay \in Nat
  BY GenesisAssumption DEF GTypeOK, AnyFlags
<1>2. flags.fork \subseteq Nat
  <2>1. flags.fork \in Forks
    BY DEF GTypeOK, AnyFlags
  <2> QED
    BY <2>1, GenesisAssumption
<1>3. Duration(GenesisDelay(flags.delay)) \in Int
  BY <1>1, TimesAssumption DEF Duration, Signed, GenesisDelay, MinimumGenesisDelay
<1>4. genesisTime \in Nat
  BY <1>1, <1>3, TimesAssumption DEF genesisTime, GenesisTime
<1>5. opTimestamp \in Nat
  BY <1>4, TimesAssumption DEF opTimestamp, OpTimestamp
<1> QED
  BY <1>1, <1>2, <1>4, <1>5

(* The files the clients of the two chains read describe the same chains,  *)
(* for every clock and all flags (artifacts.go:335).                        *)
THEOREM SameChains == Spec => []ChainsAgree
<1>1. GInv => ChainsAgree
  <2> SUFFICES ASSUME GInv, pc = "up"
               PROVE  ChainsAgree
    BY DEF ChainsAgree
  <2>1. /\ dir["genesis.json"] = block
        /\ dir["testnet/genesis.ssz"] =
             [time |-> genesisTime, electra |-> flags.latestL1, payload |-> block]
        /\ dir["testnet/config.yaml"] = [latestForkEpoch |-> IF flags.latestL1 THEN 0 ELSE Word - 1]
    <3>1. /\ L1File("genesis.json") = block
          /\ L1File("testnet/genesis.ssz") =
               [time |-> genesisTime, electra |-> flags.latestL1, payload |-> block]
          /\ L1File("testnet/config.yaml") =
               [latestForkEpoch |-> IF flags.latestL1 THEN 0 ELSE Word - 1]
      BY DEF L1File
    <3> QED
      BY <3>1, WhatIsRead DEF Batch
  <2>2. /\ dir["testnet/genesis.ssz"].payload = dir["genesis.json"]
        /\ dir["testnet/genesis.ssz"].time = dir["genesis.json"].time
    BY <2>1 DEF block
  <2>3. dir["genesis.json"].latest = (dir["testnet/config.yaml"].latestForkEpoch = 0)
    <3>1. flags.latestL1 \in BOOLEAN
      BY DEF GInv, GTypeOK, AnyFlags
    <3>2. dir["genesis.json"].latest = flags.latestL1
      BY <2>1 DEF block
    <3>3. (dir["testnet/config.yaml"].latestForkEpoch = 0) <=> flags.latestL1
      BY <2>1, <3>1, TimesAssumption
    <3> QED
      BY <3>1, <3>2, <3>3
  <2>4. /\ At(rollup, <<"genesis", "l1", "hash">>) = dir["genesis.json"]
        /\ l2Header = toOpBlock(l2Genesis)
        /\ \A key \in {"pragueTime", "isthmusTime"} :
             ValuesAt(l2Genesis, <<"config", key>>) = isthmus
    BY <2>1, WhatIsRead, L2GenesisValues
  <2>5. l2Header.time = l2Time
    BY WhatIsRead, HeaderOf, TimesAreNat DEF GInv
  <2> QED
    BY <2>2, <2>3, <2>4, <2>5 DEF ChainsAgree
<1> QED
  BY <1>1, GenesisInvariant, PTL

(* The genesis header of the L2 has the fields of the forks rollup.json    *)
(* turns on at its genesis time (genesis_op.go:139 to 180).                 *)
THEOREM HeaderFits == Spec => []HeaderFitsForks
<1>1. GInv => HeaderFitsForks
  <2> SUFFICES ASSUME GInv, pc = "up"
               PROVE  LET on == isTimestampForked(isthmus, l2Time)
                      IN /\ l2Header.withdrawals = IF on THEN {"storage"} ELSE {"empty"}
                         /\ (l2Header.requests # {}) = on
    BY DEF HeaderFitsForks
  <2>1. opTimestamp \in Nat
    BY TimesAreNat DEF GInv
  <2>2. isTimestampForked(isthmus, l2Time) \in BOOLEAN
    BY DEF isTimestampForked
  <2> QED
    BY <2>1, <2>2, WhatIsRead, HeaderOf
<1> QED
  BY <1>1, GenesisInvariant, PTL

(* The fork of the L2 is active from the block the flag names on, in every *)
(* session and whatever the clock (artifacts.go:262).                      *)
THEOREM ForkFromBlock == Spec => []ForkAtBlock
<1>1. GInv => ForkAtBlock
  <2> SUFFICES ASSUME GInv, pc = "up", flags.blockTime > 0, NEW n \in flags.fork,
                      l2Time + flags.blockTime * n < Word, NEW k \in 0 .. n + 1
               PROVE  isTimestampForked(isthmus, l2Time + At(rollup, <<"block_time">>) * k) = (k >= n)
    BY DEF ForkAtBlock
  <2>1. n \in Nat /\ k \in Nat /\ opTimestamp \in Nat /\ flags.blockTime \in Nat \ {0}
    BY TimesAreNat DEF GInv
  <2>2. /\ l2Time = opTimestamp /\ At(rollup, <<"block_time">>) = flags.blockTime
        /\ isthmus = ForkTime(opTimestamp, flags.blockTime, {n})
    <3>1. flags.fork = {n}
      BY GenesisAssumption DEF GInv, GTypeOK, AnyFlags
    <3> QED
      BY <3>1, WhatIsRead DEF forkTime
  <2>3. isTimestampForked(isthmus, l2Time + At(rollup, <<"block_time">>) * k) <=> k >= n
    BY <2>1, <2>2, ForkAtBlockNumber
  <2>4. isTimestampForked(isthmus, l2Time + At(rollup, <<"block_time">>) * k) \in BOOLEAN
    BY DEF isTimestampForked
  <2> QED
    BY <2>1, <2>3, <2>4
<1> QED
  BY <1>1, GenesisInvariant, PTL

-----------------------------------------------------------------------------
(***************************************************************************)
(* Binaries on the host: what is executed is whole, and what was returned   *)
(* can be executed, for any number of sessions, releases and writes.        *)
(***************************************************************************)

Places == {"idle", "stat", "get", "extract", "copy", "chmod", "close", "override", "exec",
           "running", "failed"}

\* A session has its file open for writing from os.Create to the deferred Close.
InDownload == {"copy", "chmod", "close"}

RTypeOK ==
  /\ at \in [Sessions -> Places]
  /\ want \in [Sessions -> Releases]
  /\ next \in [Sessions -> Nat \ {0}]
  /\ writing = {p \in Sessions : at[p] \in InDownload}
  /\ files \in [Releases -> [exists : BOOLEAN, data : SUBSET (Releases \X (1 .. Parts)),
                             exec : BOOLEAN]]
  /\ \A f \in Releases : files[f].data \subseteq PartsOf(f)
  /\ overlap \in BOOLEAN /\ cut \in BOOLEAN

\* A session that is past the download has a file, one before it has written nothing,
\* and there is nothing in a file that does not exist.
FileFound ==
  /\ \A p \in Sessions :
       /\ at[p] \in InDownload \cup {"override", "exec", "running"} => files[want[p]].exists
       /\ at[p] \in {"stat", "get", "extract"} => next[p] = 1
  /\ \A f \in Releases : ~files[f].exists => ~files[f].exec /\ files[f].data = {}

\* As long as no download has found a file made by another, a file has one writer,
\* which has written what is there, and becomes executable when all of it is.
SoleWriter ==
  ~overlap =>
    /\ \A p, q \in writing : want[p] = want[q] => p = q
    /\ \A p \in writing :
         /\ \A i \in 1 .. Parts : i < next[p] => <<want[p], i>> \in files[want[p]].data
         /\ at[p] # "copy" => next[p] > Parts
         /\ at[p] = "copy" => ~files[want[p]].exec
    /\ \A f \in Releases : files[f].exec => files[f].data = PartsOf(f)

\* As long as no download has been cut short, what a file lacks is still to be written
\* by a session that is at it: the last one to truncate it, or one before.
StillComing ==
  ~cut =>
    \A f \in Releases : files[f].exists =>
      /\ \A i \in 1 .. Parts : <<f, i>> \notin files[f].data =>
           \E p \in Sessions : at[p] = "copy" /\ want[p] = f /\ next[p] <= i
      /\ ~files[f].exec => \E p \in Sessions : at[p] \in {"copy", "chmod"} /\ want[p] = f

ImageOK == image \in [Sessions -> SUBSET (Releases \X (1 .. Parts))]

RInv == RTypeOK /\ FileFound /\ SoleWriter /\ StillComing /\ ImageOK /\ RunsWhole

\* The invariant holds before the first session.
LEMMA RInitial == RInit => RInv
<1> SUFFICES ASSUME RInit PROVE RInv
  OBVIOUS
<1>1. RTypeOK
  <2>1. /\ at \in [Sessions -> Places] /\ want \in [Sessions -> Releases]
        /\ next \in [Sessions -> Nat \ {0}]
        /\ overlap \in BOOLEAN /\ cut \in BOOLEAN
    <3>1. at \in [Sessions -> Places] /\ want \in [Sessions -> Releases]
      BY DEF RInit, Places
    <3>2. next \in [Sessions -> Nat \ {0}]
      BY DEF RInit
    <3> QED
      BY <3>1, <3>2 DEF RInit
  <2>2. writing = {p \in Sessions : at[p] \in InDownload}
    BY DEF RInit, InDownload
  <2>3. Absent \in [exists : BOOLEAN, data : SUBSET (Releases \X (1 .. Parts)), exec : BOOLEAN]
    BY DEF Absent
  <2>4. /\ files \in [Releases -> [exists : BOOLEAN, data : SUBSET (Releases \X (1 .. Parts)),
                                   exec : BOOLEAN]]
        /\ \A f \in Releases : files[f].data \subseteq PartsOf(f)
    BY <2>3 DEF RInit, Absent
  <2> QED
    BY <2>1, <2>2, <2>4 DEF RTypeOK
<1>2. FileFound /\ SoleWriter
  BY DEF RInit, FileFound, SoleWriter, Absent, InDownload
<1>3. StillComing /\ ImageOK /\ RunsWhole
  BY DEF RInit, StillComing, ImageOK, RunsWhole, Absent
<1> QED
  BY <1>1, <1>2, <1>3 DEF RInv

\* Steps of a session outside the download that leave the files alone.
LEMMA OutsideSteps ==
  ASSUME RInv, NEW p \in Sessions, NEW place \in Places \ InDownload,
         at[p] \notin InDownload, at' = [at EXCEPT ![p] = place],
         place \in {"override", "exec", "running"} => files[want'[p]].exists,
         place \in {"stat", "get", "extract"} => next'[p] = 1,
         next' \in [Sessions -> Nat \ {0}], want' \in [Sessions -> Releases],
         \A q \in Sessions \ {p} : next'[q] = next[q] /\ want'[q] = want[q],
         writing' \in {writing, writing \ {p}},
         UNCHANGED <<files, cut, overlap>>
  PROVE  RTypeOK' /\ FileFound' /\ SoleWriter' /\ StillComing'
<1> USE DEF RInv
<1>1. writing' = writing /\ writing' = {q \in Sessions : at'[q] \in InDownload}
  BY DEF RTypeOK
<1>2. RTypeOK'
  BY <1>1 DEF RTypeOK
<1>3. FileFound'
  BY DEF FileFound, RTypeOK
<1>4. SoleWriter'
  BY <1>1 DEF SoleWriter, RTypeOK
<1>5. StillComing'
  <2> SUFFICES ASSUME ~cut, NEW f \in Releases, files[f].exists
               PROVE  /\ \A i \in 1 .. Parts : <<f, i>> \notin files[f].data =>
                           \E q \in Sessions : at'[q] = "copy" /\ want'[q] = f /\ next'[q] <= i
                      /\ ~files[f].exec =>
                           \E q \in Sessions : at'[q] \in {"copy", "chmod"} /\ want'[q] = f
    BY DEF StillComing
  <2>1. \A q \in Sessions : at[q] \in {"copy", "chmod"} =>
          at'[q] = at[q] /\ want'[q] = want[q] /\ next'[q] = next[q]
    BY DEF RTypeOK, InDownload
  <2> QED
    BY <2>1 DEF StillComing
<1> QED
  BY <1>2, <1>3, <1>4, <1>5

\* os.Create: an empty file, and a writer that has written nothing of it.
LEMMA CreateStep ==
  ASSUME RInv, NEW p \in Sessions, Create(p)
  PROVE  RTypeOK' /\ FileFound' /\ SoleWriter' /\ StillComing'
<1> USE DEF RInv
<1> DEFINE f == want[p]
<1>1. /\ at[p] = "extract" /\ at' = [at EXCEPT ![p] = "copy"]
      /\ UNCHANGED <<want, next, cut>> /\ next[p] = 1 /\ f \in Releases
      /\ writing' = writing \cup {p}
      /\ overlap' = (overlap \/ files[f].exists)
  BY DEF Create, MoveTo, File, Path, RTypeOK, FileFound
<1>2. /\ files' \in [Releases -> [exists : BOOLEAN, data : SUBSET (Releases \X (1 .. Parts)),
                                  exec : BOOLEAN]]
      /\ files'[f].exists /\ files'[f].data = {} /\ files'[f].exec = files[f].exec
      /\ \A g \in Releases : g # f => files'[g] = files[g]
  BY <1>1 DEF Create, Path, RTypeOK
<1>3. RTypeOK'
  <2>1. at' \in [Sessions -> Places] /\ writing' = {q \in Sessions : at'[q] \in InDownload}
    BY <1>1 DEF RTypeOK, Places, InDownload
  <2>2. overlap' \in BOOLEAN
    BY <1>1, <1>2 DEF RTypeOK
  <2>3. \A g \in Releases : files'[g].data \subseteq PartsOf(g)
    BY <1>2 DEF RTypeOK
  <2> QED
    BY <1>1, <1>2, <2>1, <2>2, <2>3 DEF RTypeOK
<1>4. FileFound'
  BY <1>1, <1>2 DEF FileFound, RTypeOK, InDownload
<1>5. ASSUME ~overlap'
      PROVE  SoleWriter'
  <2>1. ~overlap /\ ~files[f].exists /\ ~files[f].exec
    BY <1>1, <1>5 DEF FileFound
  <2>2. \A q \in writing : want[q] # f /\ q # p
    BY <1>1, <2>1 DEF FileFound, RTypeOK, InDownload
  <2>3. \A q \in writing : at'[q] = at[q] /\ want[q] \in Releases /\ files'[want[q]] = files[want[q]]
    BY <1>1, <1>2, <2>2 DEF RTypeOK
  <2>4. at'[p] = "copy" /\ ~files'[f].exec /\ next[p] = 1
    BY <1>1, <1>2, <2>1 DEF RTypeOK
  <2>5. \A q, r \in writing' : want'[q] = want'[r] => q = r
    BY <1>1, <2>1, <2>2 DEF SoleWriter
  <2>6. \A q \in writing' :
          /\ \A i \in 1 .. Parts : i < next'[q] => <<want'[q], i>> \in files'[want'[q]].data
          /\ at'[q] # "copy" => next'[q] > Parts
          /\ at'[q] = "copy" => ~files'[want'[q]].exec
    BY <1>1, <2>1, <2>3, <2>4 DEF SoleWriter
  <2>7. \A g \in Releases : files'[g].exec => files'[g].data = PartsOf(g)
    BY <1>2, <2>1, <2>4 DEF SoleWriter
  <2> QED
    BY <2>5, <2>6, <2>7 DEF SoleWriter
<1>6. StillComing'
  <2> SUFFICES ASSUME ~cut, NEW g \in Releases, files'[g].exists
               PROVE  /\ \A i \in 1 .. Parts : <<g, i>> \notin files'[g].data =>
                           \E q \in Sessions : at'[q] = "copy" /\ want'[q] = g /\ next'[q] <= i
                      /\ ~files'[g].exec =>
                           \E q \in Sessions : at'[q] \in {"copy", "chmod"} /\ want'[q] = g
    BY <1>1 DEF StillComing
  <2>1. at'[p] = "copy" /\ \A q \in Sessions \ {p} : at'[q] = at[q]
    BY <1>1 DEF RTypeOK
  <2>2. CASE g = f
    BY <1>1, <2>1, <2>2
  <2>3. CASE g # f
    <3>1. files'[g] = files[g] /\ files[g].exists
      BY <1>2, <2>3
    <3> QED
      BY <1>1, <2>1, <3>1 DEF StillComing
  <2> QED
    BY <2>2, <2>3
<1> QED
  BY <1>3, <1>4, <1>5, <1>6 DEF SoleWriter

\* One write of io.Copy.
LEMMA CopyStep ==
  ASSUME RInv, NEW p \in Sessions, Copy(p)
  PROVE  RTypeOK' /\ FileFound' /\ SoleWriter' /\ StillComing'
<1> USE DEF RInv
<1> DEFINE f == want[p]
           part == <<want[p], next[p]>>
<1>1. /\ at[p] = "copy" /\ f \in Releases /\ next[p] \in Nat \ {0} /\ next[p] <= Parts
      /\ p \in writing
      /\ UNCHANGED <<at, want, writing, cut, overlap>>
      /\ next' = [next EXCEPT ![p] = @ + 1]
      /\ part \in Releases \X (1 .. Parts) /\ part \in PartsOf(f)
  BY ReleasesAssumption DEF Copy, RTypeOK, InDownload, PartsOf
<1>2. /\ files' \in [Releases -> [exists : BOOLEAN, data : SUBSET (Releases \X (1 .. Parts)),
                                  exec : BOOLEAN]]
      /\ files'[f].exists = files[f].exists /\ files'[f].exec = files[f].exec
      /\ files'[f].data = files[f].data \cup {part}
      /\ \A g \in Releases : g # f => files'[g] = files[g]
  BY <1>1 DEF Copy, Path, RTypeOK
<1>3. next' \in [Sessions -> Nat \ {0}] /\ next'[p] = next[p] + 1
      /\ \A q \in Sessions \ {p} : next'[q] = next[q]
  BY <1>1 DEF RTypeOK
<1>4. RTypeOK'
  <2>1. \A g \in Releases : files'[g].data \subseteq PartsOf(g)
    BY <1>1, <1>2 DEF RTypeOK
  <2> QED
    BY <1>1, <1>2, <1>3, <2>1 DEF RTypeOK
<1>5. FileFound'
  BY <1>1, <1>2, <1>3 DEF FileFound, RTypeOK
<1>6. SoleWriter'
  <2> SUFFICES ASSUME ~overlap
               PROVE  SoleWriter'
    BY <1>1 DEF SoleWriter
  <2>1. ~files[f].exec
    BY <1>1 DEF SoleWriter
  <2>2. ASSUME NEW q \in writing
        PROVE  /\ \A i \in 1 .. Parts : i < next'[q] => <<want[q], i>> \in files'[want[q]].data
               /\ at[q] # "copy" => next'[q] > Parts
               /\ at[q] = "copy" => ~files'[want[q]].exec
    <3>1. q \in Sessions /\ want[q] \in Releases
      BY DEF RTypeOK
    <3>2. CASE q = p
      <4>1. \A i \in 1 .. Parts : i < next[p] => <<f, i>> \in files[f].data
        BY <1>1 DEF SoleWriter
      <4>2. \A i \in 1 .. Parts : i < next'[p] => i < next[p] \/ i = next[p]
        BY <1>1, <1>3
      <4>3. \A i \in 1 .. Parts : i < next'[p] => <<f, i>> \in files'[f].data
        BY <1>2, <4>1, <4>2
      <4> QED
        BY <1>1, <1>2, <2>1, <3>2, <4>3
    <3>3. CASE q # p
      <4>1. want[q] # f /\ next'[q] = next[q] /\ files'[want[q]] = files[want[q]]
        BY <1>1, <1>2, <1>3, <3>1, <3>3 DEF SoleWriter
      <4> QED
        BY <4>1 DEF SoleWriter
    <3> QED
      BY <3>2, <3>3
  <2>3. \A g \in Releases : files'[g].exec => files'[g].data = PartsOf(g)
    BY <1>2, <2>1 DEF SoleWriter
  <2> QED
    BY <1>1, <2>2, <2>3 DEF SoleWriter
<1>7. StillComing'
  <2> SUFFICES ASSUME ~cut, NEW g \in Releases, files'[g].exists
               PROVE  /\ \A i \in 1 .. Parts : <<g, i>> \notin files'[g].data =>
                           \E q \in Sessions : at[q] = "copy" /\ want[q] = g /\ next'[q] <= i
                      /\ ~files'[g].exec =>
                           \E q \in Sessions : at[q] \in {"copy", "chmod"} /\ want[q] = g
    BY <1>1 DEF StillComing
  <2>1. files[g].exists /\ files'[g].exec = files[g].exec /\ files[g].data \subseteq files'[g].data
    BY <1>2
  <2>2. ASSUME NEW i \in 1 .. Parts, <<g, i>> \notin files'[g].data
        PROVE  \E q \in Sessions : at[q] = "copy" /\ want[q] = g /\ next'[q] <= i
    <3>1. PICK q \in Sessions : at[q] = "copy" /\ want[q] = g /\ next[q] <= i
      BY <2>1, <2>2 DEF StillComing
    <3>2. CASE q = p
      <4>1. i # next[p]
        BY <1>2, <2>2, <3>1, <3>2
      <4>2. next'[p] <= i
        BY <1>1, <1>3, <3>1, <3>2, <4>1
      <4> QED
        BY <3>1, <3>2, <4>2
    <3>3. CASE q # p
      BY <1>3, <3>1, <3>3
    <3> QED
      BY <3>2, <3>3
  <2> QED
    BY <2>1, <2>2 DEF StillComing
<1> QED
  BY <1>4, <1>5, <1>6, <1>7

\* io.Copy has returned: nothing is left to write for this session.
LEMMA CopiedStep ==
  ASSUME RInv, NEW p \in Sessions, Copied(p)
  PROVE  RTypeOK' /\ FileFound' /\ SoleWriter' /\ StillComing'
<1> USE DEF RInv
<1>1. /\ at[p] = "copy" /\ next[p] > Parts /\ at' = [at EXCEPT ![p] = "chmod"]
      /\ UNCHANGED <<want, next, writing, files, cut, overlap>>
  BY DEF Copied, MoveTo
<1>2. at'[p] = "chmod" /\ \A q \in Sessions \ {p} : at'[q] = at[q]
  BY <1>1 DEF RTypeOK
<1>3. RTypeOK'
  BY <1>1, <1>2 DEF RTypeOK, Places, InDownload
<1>4. FileFound'
  BY <1>1, <1>2 DEF FileFound, RTypeOK, InDownload
<1>5. SoleWriter'
  BY <1>1, <1>2 DEF SoleWriter, RTypeOK
<1>6. StillComing'
  <2>1. \A i \in 1 .. Parts : ~(next[p] <= i)
    BY <1>1, ReleasesAssumption DEF RTypeOK
  <2> QED
    BY <1>1, <1>2, <2>1 DEF StillComing
<1> QED
  BY <1>3, <1>4, <1>5, <1>6

\* The file is made executable after its last write.
LEMMA ChmodStep ==
  ASSUME RInv, NEW p \in Sessions, Chmod(p)
  PROVE  RTypeOK' /\ FileFound' /\ SoleWriter' /\ StillComing'
<1> USE DEF RInv
<1> DEFINE f == want[p]
<1>1. /\ at[p] = "chmod" /\ at' = [at EXCEPT ![p] = "close"] /\ f \in Releases
      /\ p \in writing
      /\ UNCHANGED <<want, next, writing, cut, overlap>>
  BY DEF Chmod, MoveTo, RTypeOK, InDownload
<1>2. /\ files' \in [Releases -> [exists : BOOLEAN, data : SUBSET (Releases \X (1 .. Parts)),
                                  exec : BOOLEAN]]
      /\ files'[f].exists = files[f].exists /\ files'[f].exec
      /\ files'[f].data = files[f].data
      /\ \A g \in Releases : g # f => files'[g] = files[g]
  BY <1>1 DEF Chmod, Path, RTypeOK
<1>3. at'[p] = "close" /\ \A q \in Sessions \ {p} : at'[q] = at[q]
  BY <1>1 DEF RTypeOK
<1>4. RTypeOK'
  <2>1. at' \in [Sessions -> Places] /\ writing' = {q \in Sessions : at'[q] \in InDownload}
    BY <1>1, <1>3 DEF RTypeOK, Places, InDownload
  <2>2. \A g \in Releases : files'[g].data \subseteq PartsOf(g)
    BY <1>2 DEF RTypeOK
  <2> QED
    BY <1>1, <1>2, <2>1, <2>2 DEF RTypeOK
<1>5. FileFound'
  BY <1>1, <1>2, <1>3 DEF FileFound, RTypeOK, InDownload
<1>6. SoleWriter'
  <2> SUFFICES ASSUME ~overlap
               PROVE  SoleWriter'
    BY <1>1 DEF SoleWriter
  <2>1. next[p] > Parts /\ \A i \in 1 .. Parts : i < next[p] => <<f, i>> \in files[f].data
    BY <1>1 DEF SoleWriter
  <2>2. files[f].data = PartsOf(f)
    <3>1. \A i \in 1 .. Parts : <<f, i>> \in files[f].data
      BY <1>1, <2>1, ReleasesAssumption DEF RTypeOK
    <3>2. files[f].data \subseteq PartsOf(f)
      BY <1>1 DEF RTypeOK
    <3> QED
      BY <3>1, <3>2 DEF PartsOf
  <2>3. \A q \in writing : q # p => want[q] # f
    BY <1>1 DEF SoleWriter
  <2>4. \A q \in writing : q \in Sessions /\ want[q] \in Releases
    BY DEF RTypeOK
  <2>5. \A q \in writing :
          /\ \A i \in 1 .. Parts : i < next[q] => <<want[q], i>> \in files'[want[q]].data
          /\ at'[q] # "copy" => next[q] > Parts
          /\ at'[q] = "copy" => ~files'[want[q]].exec
    <3> SUFFICES ASSUME NEW q \in writing
                 PROVE  /\ \A i \in 1 .. Parts : i < next[q] =>
                             <<want[q], i>> \in files'[want[q]].data
                        /\ at'[q] # "copy" => next[q] > Parts
                        /\ at'[q] = "copy" => ~files'[want[q]].exec
      OBVIOUS
    <3>1. CASE q = p
      BY <1>2, <1>3, <2>1, <3>1
    <3>2. CASE q # p
      <4>1. at'[q] = at[q]
        BY <1>3, <2>4, <3>2
      <4>2. want[q] \in Releases /\ want[q] # f
        BY <2>3, <2>4, <3>2
      <4>3. files'[want[q]] = files[want[q]]
        BY <1>2, <4>2
      <4> QED
        BY <4>1, <4>3 DEF SoleWriter
    <3> QED
      BY <3>1, <3>2
  <2>6. \A g \in Releases : files'[g].exec => files'[g].data = PartsOf(g)
    BY <1>2, <2>2 DEF SoleWriter
  <2> QED
    BY <1>1, <2>5, <2>6 DEF SoleWriter
<1>7. StillComing'
  <2> SUFFICES ASSUME ~cut, NEW g \in Releases, files'[g].exists
               PROVE  /\ \A i \in 1 .. Parts : <<g, i>> \notin files'[g].data =>
                           \E q \in Sessions : at'[q] = "copy" /\ want[q] = g /\ next[q] <= i
                      /\ ~files'[g].exec =>
                           \E q \in Sessions : at'[q] \in {"copy", "chmod"} /\ want[q] = g
    BY <1>1 DEF StillComing
  <2>1. files[g].exists /\ files'[g].data = files[g].data
        /\ (~files'[g].exec => g # f /\ ~files[g].exec)
    BY <1>2
  <2> QED
    BY <1>1, <1>3, <2>1 DEF StillComing
<1> QED
  BY <1>4, <1>5, <1>6, <1>7

\* A download that ends: closed when it is complete, or cut short.
LEMMA EndStep ==
  ASSUME RInv, NEW p \in Sessions, at[p] \in InDownload, NEW place \in {"override", "failed", "idle"},
         at' = [at EXCEPT ![p] = place], writing' = writing \ {p},
         cut' = TRUE \/ (cut' = cut /\ at[p] = "close"),
         UNCHANGED <<want, next, files, overlap>>
  PROVE  RTypeOK' /\ FileFound' /\ SoleWriter' /\ StillComing'
<1> USE DEF RInv
<1>1. at'[p] = place /\ \A q \in Sessions \ {p} : at'[q] = at[q]
  BY DEF RTypeOK
<1>2. RTypeOK'
  <2>1. at' \in [Sessions -> Places] /\ writing' = {q \in Sessions : at'[q] \in InDownload}
    BY <1>1 DEF RTypeOK, Places, InDownload
  <2> QED
    BY <2>1 DEF RTypeOK
<1>3. FileFound'
  BY <1>1 DEF FileFound, RTypeOK, InDownload
<1>4. SoleWriter'
  BY <1>1 DEF SoleWriter, RTypeOK
<1>5. StillComing'
  <2> SUFFICES ASSUME ~cut'
               PROVE  StillComing'
    BY DEF StillComing
  <2>1. ~cut /\ at[p] = "close"
    OBVIOUS
  <2>2. \A q \in Sessions : at[q] \in {"copy", "chmod"} => at'[q] = at[q]
    BY <1>1, <2>1
  <2> QED
    BY <2>1, <2>2 DEF StillComing
<1> QED
  BY <1>2, <1>3, <1>4, <1>5

\* Every step keeps what is known of the files.
LEMMA FilesStep ==
  ASSUME RInv, [RNext]_rvars
  PROVE  RTypeOK' /\ FileFound' /\ SoleWriter' /\ StillComing'
<1> USE DEF RInv
<1> DEFINE Kept == RTypeOK' /\ FileFound' /\ SoleWriter' /\ StillComing'
<1>0. /\ \A p \in Sessions : at[p] \in Places /\ next[p] \in Nat \ {0} /\ want[p] \in Releases
      /\ next \in [Sessions -> Nat \ {0}] /\ want \in [Sessions -> Releases]
  BY DEF RTypeOK
<1>1. ASSUME NEW p \in Sessions, NEW r \in Releases, Start(p, r)
      PROVE  Kept
  <2>1. /\ at[p] \notin InDownload /\ at' = [at EXCEPT ![p] = "stat"]
        /\ want' \in [Sessions -> Releases] /\ next' \in [Sessions -> Nat \ {0}]
        /\ next'[p] = 1
        /\ \A q \in Sessions \ {p} : next'[q] = next[q] /\ want'[q] = want[q]
        /\ UNCHANGED <<writing, files, cut, overlap>>
    BY <1>0, <1>1 DEF Start, MoveTo, InDownload
  <2>2. "stat" \in Places \ InDownload
    BY DEF Places, InDownload
  <2> QED
    BY <2>1, <2>2, OutsideSteps
<1>2. ASSUME NEW p \in Sessions, NEW place \in Places \ InDownload,
             at[p] \notin InDownload, at' = [at EXCEPT ![p] = place],
             place \in {"override", "exec", "running"} => files[want[p]].exists,
             place \in {"stat", "get", "extract"} => next[p] = 1,
             writing' \in {writing, writing \ {p}},
             UNCHANGED <<want, next, files, cut, overlap>>
      PROVE  Kept
  BY <1>0, <1>2, OutsideSteps
<1>3. ASSUME NEW p \in Sessions,
             Stat(p) \/ FromPath(p) \/ Get(p) \/ GetFails(p) \/ CreateFails(p)
      PROVE  Kept
  <2>1. at[p] \in {"stat", "get", "extract"} /\ next[p] = 1
    BY <1>3 DEF Stat, FromPath, Get, GetFails, CreateFails, FileFound
  <2>2. /\ writing' \in {writing, writing \ {p}}
        /\ UNCHANGED <<want, next, files, cut, overlap>>
    BY <1>3 DEF Stat, FromPath, Get, GetFails, CreateFails, Fails
  <2>3. PICK place \in {"override", "get", "extract", "failed"} :
          at' = [at EXCEPT ![p] = place] /\ (place = "override" => files[want[p]].exists)
    BY <1>3 DEF Stat, FromPath, Get, GetFails, CreateFails, Fails, MoveTo, File, Path
  <2>4. place \in Places \ InDownload /\ at[p] \notin InDownload
    BY <2>1 DEF Places, InDownload
  <2> QED
    BY <1>2, <2>1, <2>2, <2>3, <2>4
<1>4. ASSUME NEW p \in Sessions, Override(p) \/ Exec(p) \/ ExecFails(p)
      PROVE  Kept
  <2>1. at[p] \in {"override", "exec"} /\ files[want[p]].exists
    BY <1>4 DEF Override, Exec, ExecFails, FileFound
  <2>2. /\ writing' \in {writing, writing \ {p}}
        /\ UNCHANGED <<want, next, files, cut, overlap>>
    BY <1>4 DEF Override, Exec, ExecFails, Fails
  <2>3. PICK place \in {"exec", "running", "failed"} : at' = [at EXCEPT ![p] = place]
    BY <1>4 DEF Override, Exec, ExecFails, Fails, MoveTo
  <2>4. place \in Places \ InDownload /\ at[p] \notin InDownload
    BY <2>1 DEF Places, InDownload
  <2> QED
    BY <1>2, <2>1, <2>2, <2>3, <2>4
<1>5. ASSUME NEW p \in Sessions, CopyFails(p) \/ Close(p)
      PROVE  Kept
  <2>1. /\ at[p] \in InDownload /\ writing' = writing \ {p}
        /\ UNCHANGED <<want, next, files, overlap>>
        /\ cut' = TRUE \/ (cut' = cut /\ at[p] = "close")
    BY <1>5 DEF CopyFails, Close, Fails, InDownload
  <2>2. PICK place \in {"override", "failed", "idle"} : at' = [at EXCEPT ![p] = place]
    BY <1>5 DEF CopyFails, Close, Fails, MoveTo
  <2> QED
    BY <2>1, <2>2, EndStep
<1>6. ASSUME NEW p \in Sessions, Killed(p)
      PROVE  Kept
  <2>1. /\ at' = [at EXCEPT ![p] = "idle"] /\ writing' = writing \ {p}
        /\ cut' = (cut \/ at[p] \in {"copy", "chmod"})
        /\ UNCHANGED <<want, next, files, overlap>>
    BY <1>6 DEF Killed, MoveTo
  <2>2. cut \in BOOLEAN
    BY DEF RTypeOK
  <2>3. CASE at[p] \in InDownload
    <3>1. cut' = TRUE \/ (cut' = cut /\ at[p] = "close")
      BY <2>1, <2>2, <2>3 DEF InDownload
    <3> QED
      BY <2>1, <2>3, <3>1, EndStep
  <2>4. CASE at[p] \notin InDownload
    <3>1. cut' = cut
      BY <2>1, <2>2, <2>4 DEF InDownload
    <3>2. "idle" \in Places \ InDownload
      BY DEF Places, InDownload
    <3> QED
      BY <1>2, <2>1, <2>4, <3>1, <3>2
  <2> QED
    BY <2>3, <2>4
<1>7. CASE UNCHANGED rvars
  BY <1>7 DEF rvars, RTypeOK, FileFound, SoleWriter, StillComing
<1> QED
  BY <1>1, <1>3, <1>4, <1>5, <1>6, <1>7, CreateStep, CopyStep, CopiedStep, ChmodStep
     DEF RNext, Quiet

\* What is executed consists of parts of releases.
LEMMA ImageStep ==
  ASSUME RInv, [RNext]_rvars
  PROVE  ImageOK'
<1>1. ASSUME NEW p \in Sessions, Exec(p)
      PROVE  ImageOK'
  <2>1. File(p).data \subseteq Releases \X (1 .. Parts)
    BY DEF File, Path, RInv, RTypeOK
  <2> QED
    BY <1>1, <2>1 DEF Exec, RInv, ImageOK
<1>2. ASSUME NEW p \in Sessions, Killed(p)
      PROVE  ImageOK'
  BY <1>2 DEF Killed, RInv, ImageOK
<1>3. image' = image \/ \E p \in Sessions : Exec(p) \/ Killed(p)
  BY DEF RNext, Quiet, rvars, Start, Stat, FromPath, Get, GetFails, Create, CreateFails, Copy,
         CopyFails, Copied, Chmod, Close, Override, ExecFails
<1> QED
  BY <1>1, <1>2, <1>3 DEF RInv, ImageOK

\* What a session may be executing is fixed when it starts to.
LEMMA RunsStep ==
  ASSUME RInv, [RNext]_rvars
  PROVE  RunsWhole'
<1> USE DEF RInv
<1>1. (overlap /\ cut) => (overlap' /\ cut')
  BY DEF RNext, Quiet, rvars, Start, Stat, FromPath, Get, GetFails, Create, CreateFails, Copy,
         CopyFails, Copied, Chmod, Close, Override, Exec, ExecFails, Killed
<1>2. ASSUME NEW p \in Sessions, at'[p] = "running"
      PROVE  (overlap' /\ cut') \/ image'[p] = PartsOf(want'[p])
  <2>1. CASE at[p] = "running" /\ image'[p] = image[p] /\ want'[p] = want[p]
    BY <1>1, <2>1 DEF RunsWhole
  <2>2. CASE Exec(p)
    <3>1. /\ files[want[p]].exec /\ image'[p] = files[want[p]].data /\ want' = want
          /\ \A q \in writing : want[q] # want[p]
          /\ UNCHANGED <<overlap, cut>> /\ want[p] \in Releases /\ at[p] = "exec"
      BY <2>2 DEF Exec, CanExec, Opened, File, Path, RTypeOK, ImageOK
    <3>2. CASE ~overlap
      BY <3>1, <3>2 DEF SoleWriter
    <3>3. CASE ~cut
      <4>1. files[want[p]].exists
        BY <3>1 DEF FileFound
      <4>2. \A q \in Sessions : ~(at[q] = "copy" /\ want[q] = want[p])
        BY <3>1 DEF RTypeOK, InDownload
      <4>3. \A i \in 1 .. Parts : <<want[p], i>> \in files[want[p]].data
        BY <3>1, <3>3, <4>1, <4>2 DEF StillComing
      <4>4. files[want[p]].data \subseteq PartsOf(want[p])
        BY <3>1 DEF RTypeOK
      <4> QED
        BY <3>1, <4>3, <4>4 DEF PartsOf
    <3> QED
      BY <3>1, <3>2, <3>3
  <2>3. Exec(p) \/ (at[p] = "running" /\ image'[p] = image[p] /\ want'[p] = want[p])
    <3>1. ASSUME NEW q \in Sessions,
                 \/ \E r \in Releases : Start(q, r)
                 \/ Stat(q) \/ FromPath(q) \/ Get(q) \/ GetFails(q) \/ Create(q) \/ CreateFails(q)
                 \/ Copy(q) \/ CopyFails(q) \/ Copied(q) \/ Chmod(q) \/ Close(q)
                 \/ Override(q) \/ ExecFails(q)
          PROVE  image' = image /\ at[p] = "running" /\ want'[p] = want[p]
      BY <1>2, <3>1
         DEF RTypeOK, Start, Stat, FromPath, Get, GetFails, Create, CreateFails, Copy, CopyFails,
             Copied, Chmod, Close, Override, ExecFails, Fails, MoveTo
    <3>2. ASSUME NEW q \in Sessions, Killed(q) \/ (Exec(q) /\ q # p)
          PROVE  image'[p] = image[p] /\ at[p] = "running" /\ want'[p] = want[p]
      BY <1>2, <3>2 DEF RTypeOK, ImageOK, Exec, Killed, MoveTo
    <3>3. CASE UNCHANGED rvars
      BY <1>2, <3>3 DEF rvars
    <3> QED
      BY <3>1, <3>2, <3>3 DEF RNext, Quiet
  <2> QED
    BY <2>1, <2>2, <2>3
<1> QED
  BY <1>2 DEF RunsWhole

(* The invariant of the binaries holds in every behaviour. *)
THEOREM ReleasesInvariant == RSpec => []RInv
<1>1. RInv /\ [RNext]_rvars => RInv'
  BY FilesStep, ImageStep, RunsStep DEF RInv
<1> QED
  BY RInitial, <1>1, PTL DEF RSpec

(* What runs on the host is the whole binary that was asked for, unless two  *)
(* downloads of it met and one of them was cut short (releases.go:87-117).   *)
THEOREM WholeBinaries == RSpec => []RunsWhole
<1>1. RInv => RunsWhole
  BY DEF RInv
<1> QED
  BY <1>1, ReleasesInvariant, PTL

(* A path DownloadRelease has returned can be executed, unless some download *)
(* was cut short or another is going on (releases.go:39-58).                *)
THEOREM ReturnedPathsRun == RSpec => []CachedRuns
<1>1. RInv => CachedRuns
  <2> SUFFICES ASSUME RInv, NEW p \in Sessions, at[p] \in {"override", "exec"},
                      ~cut, Opened(p) \ {p} = {}
               PROVE  CanExec(p)
    BY DEF CachedRuns
  <2>1. p \notin writing /\ writing \subseteq Sessions
    BY DEF RInv, RTypeOK, InDownload
  <2>2. Opened(p) = {}
    BY <2>1 DEF Opened
  <2>3. want[p] \in Releases /\ files[want[p]].exists
    BY DEF RInv, RTypeOK, FileFound
  <2>4. ~\E q \in Sessions : at[q] \in {"copy", "chmod"} /\ want[q] = want[p]
    BY <2>2 DEF RInv, RTypeOK, InDownload, Opened, Path
  <2>5. files[want[p]].exec
    BY <2>3, <2>4 DEF RInv, StillComing
  <2> QED
    BY <2>2, <2>5 DEF CanExec, File, Path
<1> QED
  BY <1>1, ReleasesInvariant, PTL
=============================================================================
