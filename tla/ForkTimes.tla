------------------------------ MODULE ForkTimes ------------------------------
(***************************************************************************)
(* The times ArtifactsBuilder.Build (playground/artifacts.go) derives from *)
(* the clock and the flags: the L1 genesis, the L2 genesis two seconds     *)
(* later, the fork of the L2.  Go's uint64 has Word values and an int64    *)
(* duration counts Second ticks to the second.                             *)
(*                                                                         *)
(* A *uint64 is a set: {} is nil, {n} points to n.                          *)
(***************************************************************************)
EXTENDS Integers

CONSTANTS
  Second,  \* ticks of time.Duration in a second (10^9)
  Word     \* 2^64

ASSUME TimesAssumption ==
  /\ Second \in Nat \ {0}
  /\ Word \in Nat \ {0, 1}

MinimumGenesisDelay == 10

\* uint64 to int64, as time.Duration(...) converts.
Signed(n) == IF n < Word - n THEN n ELSE n - Word

GenesisDelay(asked) == IF asked < MinimumGenesisDelay THEN MinimumGenesisDelay ELSE asked

\* time.Duration(delay) * time.Second
Duration(delay) == Signed((delay * Second) % Word)

\* uint64(time.Now().Add(...).Unix()): the clock is a time.Time, which does not
\* wrap where int64 does.
GenesisTime(clock, asked) == ((clock + Duration(GenesisDelay(asked))) \div Second) % Word

\* The L2 starts slightly ahead of the L1.
OpTimestamp(genesisTime) == (genesisTime + 2) % Word

\* Mutant: a block late.
ForkTimeLate(opTimestamp, blockTime, fork) ==
  {IF n = 0 THEN 0 ELSE (opTimestamp + blockTime * (n + 1)) % Word : n \in fork}

ForkTime(opTimestamp, blockTime, fork) ==
  {IF n = 0 THEN 0 ELSE (opTimestamp + blockTime * n) % Word : n \in fork}

isTimestampForked(forkTime, head) == \E t \in forkTime : t <= head
=============================================================================
