----------------------------- MODULE ChainWatch -----------------------------
(***************************************************************************)
(* watchChainHead (playground/watchers.go): with --watchdog each execution  *)
(* client is asked for its head every 500ms, and reported when no new block *)
(* shows up for the block time plus a second.                              *)
(*                                                                         *)
(* Time passes in ticks.  A timer is a count of them, and a step of the     *)
(* watcher that is due takes place before the next tick.  The chain is not  *)
(* in src/.                                                                *)
(***************************************************************************)
EXTENDS Integers

CONSTANTS
  Period,     \* ticks from one block of the chain to the next
  BlockTime,  \* what the component hands to watchChainHead
  Wiggle,     \* the second that is added to it
  Poll,       \* 500ms
  Latency,    \* what BlockNumber takes at most
  MaxHead     \* the block after which the chain stands still

ASSUME ChainWatchAssumption ==
  /\ Period \in Nat \ {0} /\ BlockTime \in Nat \ {0}
  /\ Wiggle \in Nat \ {0} /\ Poll \in Nat \ {0}
  /\ Latency \in Nat /\ MaxHead \in Nat

VARIABLES
  head,     \* the chain's latest block
  age,      \* ticks since then, or since the watcher began
  missed,   \* some block came later than Period
  at,       \* the watcher is in its select, in BlockNumber or has its answer
  wait,     \* ticks the time.After of this select, or this call, has run
  num,      \* the answer
  latest,   \* latestBlock, Nothing for nil
  quiet,    \* ticks since the timer was reset
  verdict   \* what watchChainHead returned

vars == <<head, age, missed, at, wait, num, latest, quiet, verdict>>

Nothing == -1

\* The types of the variables.
TypeOK ==
  /\ head \in Nat /\ age \in Nat /\ wait \in Nat /\ quiet \in Nat
  /\ missed \in BOOLEAN
  /\ at \in {"select", "call", "reply"}
  /\ num \in Nat \cup {Nothing} /\ latest \in Nat \cup {Nothing}
  /\ verdict \in {"none", "stalled", "error"}

Init ==
  /\ head = 0
  /\ age = 0
  /\ missed = FALSE
  /\ at = "select"
  /\ wait = 0
  /\ num = Nothing
  /\ latest = Nothing
  /\ quiet = 0
  /\ verdict = "none"

\* Mutant: no wiggle room.
LimitExact == BlockTime

Limit == BlockTime + Wiggle

PollDue  == at = "select" /\ wait = Poll
TimerDue == at = "select" /\ quiet >= Limit

\* No step of the watcher is due, and a call is within its time.
Quiescent == ~PollDue /\ ~TimerDue /\ (at # "select" => wait < Latency)

Tick ==
  /\ verdict = "none"
  /\ Quiescent
  /\ age' = age + 1
  /\ missed' = (missed \/ age >= Period)
  /\ wait' = wait + 1
  /\ quiet' = quiet + 1
  /\ UNCHANGED <<head, at, num, latest, verdict>>

Block ==
  /\ verdict = "none"
  /\ head < MaxHead
  /\ head' = head + 1
  /\ age' = 0
  /\ UNCHANGED <<missed, at, wait, num, latest, quiet, verdict>>

watchKeeps == <<head, age, missed>>

Ask ==
  /\ verdict = "none"
  /\ PollDue
  /\ at' = "call"
  /\ wait' = 0
  /\ UNCHANGED <<watchKeeps, num, latest, quiet, verdict>>

\* The node looks up its head; the answer is on its way from here.
NodeReads ==
  /\ verdict = "none"
  /\ at = "call"
  /\ at' = "reply"
  /\ num' = head
  /\ UNCHANGED <<watchKeeps, wait, latest, quiet, verdict>>

CallFails ==
  /\ verdict = "none"
  /\ at = "call"
  /\ verdict' = "error"
  /\ UNCHANGED <<watchKeeps, at, wait, num, latest, quiet>>

\* Mutant: the same block again counts.
IsNewsAgain(n) == n >= latest

IsNews(n) == latest = Nothing \/ n > latest

\* BlockNumber returns: news stops and resets the timer, drained if it has
\* fired meanwhile; the loop makes a new time.After.
Answered ==
  /\ verdict = "none"
  /\ at = "reply"
  /\ \/ /\ IsNews(num)
        /\ latest' = num
        /\ quiet' = 0
     \/ /\ ~IsNews(num)
        /\ UNCHANGED <<latest, quiet>>
  /\ at' = "select"
  /\ wait' = 0
  /\ num' = Nothing
  /\ UNCHANGED <<watchKeeps, verdict>>

Timeout ==
  /\ verdict = "none"
  /\ TimerDue
  /\ verdict' = "stalled"
  /\ UNCHANGED <<watchKeeps, at, wait, num, latest, quiet>>

Returned == verdict # "none" /\ UNCHANGED vars

Next == Tick \/ Block \/ Ask \/ NodeReads \/ CallFails \/ Answered \/ Timeout \/ Returned

Spec == Init /\ [][Next]_vars

-----------------------------------------------------------------------------
(* Properties.                                                             *)

(* A chain whose blocks come in time is never reported (watchers.go:166     *)
(* "ensures that it is advancing"), wherever polls, calls and the timer     *)
(* meet.                                                                   *)
HealthyChainAccepted == verdict = "stalled" => missed

\* How long a block, or the lack of one, can go unnoticed.
Notice == Limit + Poll + 3 * Latency

(* A chain that stands still is reported within a bounded time, even when   *)
(* its last block is seen late or the timer fires during a call.            *)
StallReported == verdict = "none" => age <= Notice
=============================================================================
