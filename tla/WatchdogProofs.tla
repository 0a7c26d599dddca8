---------------------------- MODULE WatchdogProofs ----------------------------
(***************************************************************************)
(* For every block time, polling interval and call time: a standing chain   *)
(* is reported in time, and a healthy one is not as long as a poll and a    *)
(* call fit into the wiggle room (first part, about ChainWatch).  For every *)
(* slot length and announcement time: a gap in the payload attributes is    *)
(* reported, the events of a chain that is well are accepted, and its       *)
(* session is stopped for nothing but a URL that serves no event (second    *)
(* part, about Watchdog).                                                   *)
(***************************************************************************)
EXTENDS Watchdog, SequenceTheorems, TLAPS

\* What has been read is never ahead of the chain, and waits end in time.
InOrder ==
  /\ latest <= head
  /\ num <= head
  /\ at = "reply" => num # Nothing /\ latest <= num
  /\ at # "reply" => num = Nothing
  /\ wait <= IF at = "select" THEN Poll ELSE Latency

\* While the chain is healthy its last block is recent.
OnTime == ~missed => age <= Period

\* A block that has been seen is older than the timer's last reset.
ResetAfter == latest = head => quiet <= age

\* How long ago the chain was last known to have nothing new.
Stale ==
  IF at = "select" THEN Latency + wait
  ELSE IF at = "call" THEN Latency + Poll + wait
  ELSE wait

\* A timer has run for at most a period when nothing new is found, and for as
\* long as that is ago.
TimerCovers ==
  ~missed /\ (at = "reply" => num = latest) => quiet <= Period + Stale

\* A block not seen yet is recent; what was seen was recent at the reset.
SeenSoon ==
  IF latest = head THEN age <= quiet + Poll + 2 * Latency
  ELSE IF at = "reply" /\ num = head THEN age <= Latency + Poll + wait
  ELSE age <= Stale

\* A timer that has fired is looked at after the call that is going on.
TimerInTime ==
  IF at = "select"
  THEN quiet <= Limit \/ (quiet <= Limit + Latency /\ wait = 0)
  ELSE quiet <= Limit + wait

Inv ==
  /\ TypeOK
  /\ InOrder
  /\ OnTime
  /\ ResetAfter
  /\ TimerCovers
  /\ SeenSoon
  /\ TimerInTime

-----------------------------------------------------------------------------

LEMMA InitInv == Init => Inv
<1> SUFFICES ASSUME Init PROVE Inv
  OBVIOUS
<1> USE ChainWatchAssumption DEF Init, Limit, Nothing, ChainWatchAssumption
<1>1. TypeOK
  BY DEF TypeOK
<1>1a. InOrder
  BY DEF InOrder
<1>2. OnTime /\ ResetAfter /\ TimerCovers
  BY DEF OnTime, ResetAfter, TimerCovers, Stale
<1>3. SeenSoon /\ TimerInTime
  BY DEF SeenSoon, TimerInTime, Stale
<1> QED
  BY <1>1, <1>1a, <1>2, <1>3 DEF Inv

\* A tick ages everything alike, and is held back where the watcher is due.
LEMMA TickStep ==
  ASSUME Inv, Tick
  PROVE  Inv'
<1> USE ChainWatchAssumption
    DEF Inv, TypeOK, InOrder, Tick, Quiescent, PollDue, TimerDue, Limit, Nothing,
        ChainWatchAssumption
<1>1. TypeOK' /\ InOrder' /\ ResetAfter'
  BY DEF ResetAfter
<1>2. OnTime'
  <2>1. ~missed' => ~missed /\ ~(age >= Period)
    OBVIOUS
  <2>2. ~(age >= Period) => age' <= Period
    OBVIOUS
  <2> QED
    BY <2>1, <2>2 DEF OnTime
<1>3. TimerCovers'
  BY DEF TimerCovers, Stale
<1>4. SeenSoon'
  BY DEF SeenSoon, Stale
<1>5. TimerInTime'
  BY DEF TimerInTime
<1> QED
  BY <1>1, <1>2, <1>3, <1>4, <1>5

\* A block starts to be unseen.
LEMMA BlockStep ==
  ASSUME Inv, Block
  PROVE  Inv'
<1> USE ChainWatchAssumption
    DEF Inv, TypeOK, InOrder, Block, Limit, Nothing, ChainWatchAssumption
<1>1. TypeOK' /\ InOrder' /\ ResetAfter' /\ OnTime'
  BY DEF ResetAfter, OnTime
<1>2. TimerCovers'
  BY DEF TimerCovers, Stale
<1>3. SeenSoon'
  BY DEF SeenSoon, Stale
<1>4. TimerInTime'
  BY DEF TimerInTime
<1> QED
  BY <1>1, <1>2, <1>3, <1>4

\* What the node reads is its head: either news, or nothing is unseen.
LEMMA CallSteps ==
  ASSUME Inv, Ask \/ NodeReads \/ CallFails \/ Timeout
  PROVE  Inv'
<1> USE ChainWatchAssumption
    DEF Inv, TypeOK, InOrder, watchKeeps, Limit, Nothing, ChainWatchAssumption
<1>1. CASE Ask
  BY <1>1 DEF Ask, PollDue, OnTime, ResetAfter, TimerCovers, SeenSoon, TimerInTime, Stale
<1>2. CASE NodeReads
  BY <1>2 DEF NodeReads, OnTime, ResetAfter, TimerCovers, SeenSoon, TimerInTime, Stale
<1>3. CASE CallFails \/ Timeout
  BY <1>3 DEF CallFails, Timeout, OnTime, ResetAfter, TimerCovers, SeenSoon, TimerInTime, Stale
<1> QED
  BY <1>1, <1>2, <1>3

\* News resets the timer; without it nothing was unseen when the node read.
LEMMA AnsweredStep ==
  ASSUME Inv, Answered
  PROVE  Inv'
<1> USE ChainWatchAssumption
    DEF Inv, TypeOK, InOrder, watchKeeps, Limit, Nothing, ChainWatchAssumption
<1>1. CASE IsNews(num) /\ latest' = num /\ quiet' = 0
  <2>1. num \in Nat /\ at' = "select" /\ wait' = 0 /\ num' = Nothing
    BY DEF Answered
  <2>2. TypeOK' /\ InOrder' /\ OnTime'
    BY <1>1, <2>1 DEF Answered, OnTime
  <2>3. ResetAfter' /\ TimerCovers' /\ TimerInTime'
    BY <1>1, <2>1 DEF Answered, ResetAfter, TimerCovers, TimerInTime, Stale
  <2>4. SeenSoon'
    BY <1>1, <2>1 DEF Answered, IsNews, SeenSoon, Stale
  <2> QED
    BY <2>2, <2>3, <2>4
<1>2. CASE ~IsNews(num) /\ UNCHANGED <<latest, quiet>>
  <2>1. num = latest
    BY <1>2 DEF Answered, IsNews
  <2> QED
    BY <1>2, <2>1 DEF Answered, OnTime, ResetAfter, TimerCovers, SeenSoon, TimerInTime, Stale
<1> QED
  BY <1>1, <1>2 DEF Answered

(* The invariant holds in every behaviour. *)
THEOREM Invariant == Spec => []Inv
<1>1. Inv /\ UNCHANGED vars => Inv'
  BY DEF vars, Inv, TypeOK, InOrder, OnTime, ResetAfter, TimerCovers, SeenSoon, TimerInTime, Stale
<1>2. Inv /\ [Next]_vars => Inv'
  BY <1>1, TickStep, BlockStep, CallSteps, AnsweredStep DEF Next, Returned
<1> QED
  BY InitInv, <1>2, PTL DEF Spec

(* The types are right. *)
THEOREM TypeCorrect == Spec => []TypeOK
<1>1. Inv => TypeOK
  BY DEF Inv
<1> QED
  BY Invariant, <1>1, PTL

(* A chain that stands still is reported within Notice (watchers.go:182-205). *)
THEOREM StallsReported == Spec => []StallReported
<1>1. Inv => StallReported
  BY ChainWatchAssumption
     DEF Inv, TypeOK, InOrder, SeenSoon, Stale, TimerInTime, StallReported, Notice, Limit,
         ChainWatchAssumption
<1> QED
  BY Invariant, <1>1, PTL

(* A chain whose blocks come in time is never reported, as long as a poll    *)
(* and a call fit into what the timer leaves over a period                   *)
(* (watchers.go:171-182).                                                   *)
THEOREM HealthyAccepted ==
  ASSUME Period + Poll + Latency < Limit
  PROVE  Spec => []HealthyChainAccepted
<1>1. Init => HealthyChainAccepted
  BY DEF Init, HealthyChainAccepted
<1>2. Inv /\ HealthyChainAccepted /\ [Next]_vars => HealthyChainAccepted'
  <2> SUFFICES ASSUME Inv, HealthyChainAccepted, [Next]_vars
               PROVE  HealthyChainAccepted'
    OBVIOUS
  <2>1. CASE Timeout
    BY <2>1, ChainWatchAssumption
       DEF Timeout, TimerDue, Inv, TypeOK, InOrder, TimerCovers, Stale, HealthyChainAccepted,
           watchKeeps, Limit, ChainWatchAssumption
  <2>2. CASE ~Timeout
    BY <2>2 DEF Next, vars, Tick, Block, Ask, NodeReads, CallFails, Answered, Returned, watchKeeps,
                HealthyChainAccepted, Inv, TypeOK
  <2> QED
    BY <2>1, <2>2
<1> QED
  BY Invariant, <1>1, <1>2, PTL DEF Spec

-----------------------------------------------------------------------------
(* Watchdog drives ChainWatch: what was proved of the one holds in the      *)
(* other.                                                                  *)

LEMMA DrivesChainWatch == WSpec => Spec
<1>1. WInit => Init
  BY DEF WInit
<1>2. [WNext]_wvars => [Next]_vars
  BY DEF WNext, wvars, WTick, BlockAnnounced, BlockUnannounced, Announced, SilenceEnds,
         WatchHead, WatchdogSends, RunWatchdog, runIt, Stopped, Next
<1> QED
  BY <1>1, <1>2, PTL DEF WSpec, Spec

(* The bound on a stall's notice holds next to the payload validator too. *)
THEOREM StallsReportedBeside == WSpec => []StallReported
<1> QED
  BY DrivesChainWatch, StallsReported, PTL

\* Types of what Watchdog adds, as far as the proofs need them.
WTypeOK ==
  /\ head \in Nat /\ age \in Nat
  /\ streams \in BOOLEAN /\ made \in BOOLEAN
  /\ slot \in Nat /\ lastSlot \in Nat /\ since \in Nat
  /\ payload \in {"none", "mismatch", "parent", "timeout"}
  /\ heard \subseteq Nat
  /\ watchdogErr \in Seq(Watchers)

\* The slots heard of end at lastSlot and have no hole.
Contiguous ==
  payload = "none" =>
    /\ heard # {} => lastSlot # 0
    /\ \A p \in heard : p <= lastSlot /\ \A r \in p .. lastSlot : r \in heard

\* An error on the channel is a watchdog's, and so is what ended the session.
FailureCauses == (watchdogErr # <<>> \/ session # "serve") => Failed # {}

WInv == WTypeOK /\ Contiguous /\ FailureCauses

\* What an event does to the types, and to the slots heard of.
LEMMA ReceiveKeeps ==
  ASSUME WTypeOK, Contiguous, payload = "none", NEW p \in Nat \ {0}, NEW parent \in Nat,
         Receive(p, parent)
  PROVE  /\ payload' \in {"none", "mismatch", "parent", "timeout"}
         /\ heard' \subseteq Nat /\ lastSlot' \in Nat /\ since' \in Nat
         /\ Contiguous'
<1>1. payload' \in {"none", "mismatch", "parent", "timeout"}
  BY DEF Receive, Judgement
<1>2. heard' \subseteq Nat /\ lastSlot' \in Nat /\ since' \in Nat
  BY DEF WTypeOK, Receive
<1>3. ASSUME payload' = "none"
      PROVE  Contiguous'
  <2>1. lastSlot' = p /\ heard' = heard \cup {p} /\ (lastSlot = 0 \/ lastSlot = p \/ lastSlot + 1 = p)
    BY <1>3 DEF Receive, Judgement
  <2>2. CASE lastSlot = 0
    <3>1. heard = {}
      BY <2>2 DEF Contiguous
    <3> QED
      BY <2>1, <3>1 DEF Contiguous
  <2>3. CASE lastSlot = p
    BY <2>1, <2>3 DEF Contiguous, WTypeOK
  <2>4. CASE lastSlot + 1 = p
    <3>1. \A q \in heard : q <= p /\ \A r \in q .. p : r \in heard \cup {p}
      BY <2>4 DEF Contiguous, WTypeOK
    <3> QED
      BY <2>1, <3>1 DEF Contiguous
  <2> QED
    BY <2>1, <2>2, <2>3, <2>4
<1> QED
  BY <1>1, <1>2, <1>3 DEF Contiguous

\* A watchdog that has returned stays so.
LEMMA FailedGrows ==
  ASSUME [WNext]_wvars
  PROVE  Failed \subseteq Failed'
<1>1. verdict # "none" => verdict' # "none"
  <2>1. [Next]_vars
    BY DEF WNext, wvars, WTick, BlockAnnounced, BlockUnannounced, Announced, SilenceEnds,
           WatchHead, WatchdogSends, RunWatchdog, runIt, Stopped, Next
  <2> QED
    BY <2>1 DEF Next, vars, Tick, Block, Ask, NodeReads, CallFails, Answered, Timeout, Returned
<1>2. payload # "none" => payload' # "none"
  BY DEF WNext, wvars, payloadVars, WTick, BlockAnnounced, BlockUnannounced, Announced,
         SilenceEnds, WatchHead, WatchdogSends, RunWatchdog, runIt, Stopped
<1> QED
  BY <1>1, <1>2 DEF Failed

\* Every step keeps the types, the contiguity and the causes.
LEMMA WStep ==
  ASSUME WInv, [WNext]_wvars
  PROVE  WInv'
<1> USE DEF WInv
<1>1. CASE WTick
  <2>1. UNCHANGED <<streams, heard, lastSlot, payload, groupVars>>
    BY <1>1 DEF WTick
  <2>2. head' = head /\ age' = age + 1 /\ since' = since + 1
    BY <1>1 DEF WTick, Tick
  <2>3. slot' \in {slot, slot + 1} /\ made' \in {made, FALSE}
    BY <1>1 DEF WTick
  <2>4. WTypeOK'
    <3>1. head' \in Nat /\ age' \in Nat /\ since' \in Nat /\ slot' \in Nat
      BY <2>2, <2>3 DEF WTypeOK
    <3>2. made' \in BOOLEAN
      BY <2>3 DEF WTypeOK
    <3> QED
      BY <2>1, <3>1, <3>2 DEF WTypeOK, groupVars
  <2> QED
    BY <2>1, <2>4, FailedGrows DEF Contiguous, FailureCauses, groupVars
<1>2. CASE BlockAnnounced
  <2>1. head' \in Nat /\ age' \in Nat /\ slot + 1 \in Nat \ {0}
    BY <1>2 DEF BlockAnnounced, Block, WTypeOK
  <2>2. /\ payload' \in {"none", "mismatch", "parent", "timeout"}
        /\ heard' \subseteq Nat /\ lastSlot' \in Nat /\ since' \in Nat
        /\ Contiguous'
    <3>1. CASE streams /\ payload = "none"
      BY <1>2, <2>1, <3>1, ReceiveKeeps DEF BlockAnnounced
    <3>2. CASE ~(streams /\ payload = "none")
      BY <1>2, <3>2 DEF BlockAnnounced, payloadVars, WTypeOK, Contiguous
    <3> QED
      BY <3>1, <3>2
  <2> QED
    BY <1>2, <2>1, <2>2, FailedGrows DEF BlockAnnounced, WTypeOK, FailureCauses, groupVars
<1>3. CASE BlockUnannounced
  BY <1>3, FailedGrows
     DEF BlockUnannounced, Block, WTypeOK, Contiguous, FailureCauses, payloadVars, groupVars
<1>4. CASE Announced
  <2>1. /\ payload' \in {"none", "mismatch", "parent", "timeout"}
        /\ heard' \subseteq Nat /\ lastSlot' \in Nat /\ since' \in Nat
        /\ Contiguous'
    BY <1>4, ReceiveKeeps DEF Announced, WTypeOK
  <2> QED
    BY <1>4, <2>1, FailedGrows DEF Announced, WTypeOK, FailureCauses, groupVars, beaconVars, vars
<1>5. CASE SilenceEnds
  BY <1>5, FailedGrows
     DEF SilenceEnds, WTypeOK, Contiguous, FailureCauses, groupVars, beaconVars, vars
<1>6. CASE WatchHead
  <2>1. UNCHANGED <<head, age>>
    BY <1>6 DEF WatchHead, Ask, NodeReads, CallFails, Answered, Timeout, watchKeeps
  <2> QED
    BY <1>6, <2>1, FailedGrows
       DEF WatchHead, WTypeOK, Contiguous, FailureCauses, beaconVars, payloadVars, groupVars
<1>7. ASSUME NEW w \in Watchers, WatchdogSends(w)
      PROVE  WInv'
  <2>1. watchdogErr' \in Seq(Watchers) /\ Failed # {}
    BY <1>7 DEF WatchdogSends, WTypeOK
  <2> QED
    BY <1>7, <2>1, FailedGrows
       DEF WatchdogSends, WTypeOK, Contiguous, FailureCauses, beaconVars, payloadVars, vars
<1>8. CASE RunWatchdog
  <2>1. watchdogErr' \in Seq(Watchers) /\ Failed # {}
    BY <1>8, HeadTailProperties DEF RunWatchdog, WTypeOK, FailureCauses
  <2> QED
    BY <1>8, <2>1, FailedGrows
       DEF RunWatchdog, WTypeOK, Contiguous, FailureCauses, beaconVars, payloadVars, vars
<1>9. CASE runIt
  BY <1>9, FailedGrows
     DEF runIt, WTypeOK, Contiguous, FailureCauses, beaconVars, payloadVars, vars
<1>10. CASE UNCHANGED wvars
  BY <1>10, FailedGrows
     DEF wvars, WTypeOK, Contiguous, FailureCauses, beaconVars, payloadVars, groupVars, vars
<1> QED
  BY <1>1, <1>2, <1>3, <1>4, <1>5, <1>6, <1>7, <1>8, <1>9, <1>10 DEF WNext, Stopped

LEMMA WInitial == WInit => WInv
<1>1. Streams \subseteq BOOLEAN
  BY WatchdogAssumption DEF WatchdogAssumption
<1> QED
  BY <1>1, EmptySeq DEF WInit, Init, WInv, WTypeOK, Contiguous, FailureCauses

(* The invariant of Watchdog's own state holds in every behaviour. *)
THEOREM WInvariant == WSpec => []WInv
<1>1. WInit => WInv
  BY WInitial
<1>2. WInv /\ [WNext]_wvars => WInv'
  BY WStep
<1> QED
  BY <1>1, <1>2, PTL DEF WSpec

(* As long as the check has not failed, the slots heard of have no hole     *)
(* (watchers.go:69).                                                       *)
THEOREM GapsAreReported == WSpec => []GapsReported
<1>1. WInv => GapsReported
  <2> SUFFICES ASSUME WInv, payload = "none", NEW p \in heard, NEW q \in heard, NEW r \in p .. q
               PROVE  r \in heard
    BY DEF GapsReported
  <2>1. p \in Nat /\ q \in Nat /\ lastSlot \in Nat /\ q <= lastSlot
    BY DEF WInv, WTypeOK, Contiguous
  <2>2. r \in p .. lastSlot
    BY <2>1
  <2> QED
    BY <2>2 DEF WInv, Contiguous
<1> QED
  BY <1>1, WInvariant, PTL

-----------------------------------------------------------------------------
(* What a chain that is well leads to. *)

\* Nothing has gone wrong with the chain, its announcements and the calls.
Well == ~missed /\ ~lost /\ streams /\ Skipped = 0

\* What the validator knows of a chain that is well: it is silent for no longer than
\* the chain, and expects this slot or the next, unless the watchdog began after the
\* genesis slot was announced.
InStep ==
  Well =>
    /\ payload = "none"
    /\ since <= age
    /\ age <= Period
    /\ lastSlot = 0 => slot = 0 \/ (slot = 1 /\ ~made)
    /\ lastSlot # 0 => lastSlot = slot + 1 \/ (lastSlot = slot /\ ~made)

\* Skipped slots stay skipped, and what went wrong stays wrong.
HInv == WInv /\ Skipped >= 0 /\ InStep

\* An announcement of a chain that is well is accepted.
LEMMA WellAccepted ==
  ASSUME HInv, NEW parent \in Nat, Well, slot - parent <= 1, Receive(slot + 1, parent)
  PROVE  payload' = "none" /\ lastSlot' = slot + 1 /\ since' = 0
<1>1. lastSlot \in {0, slot, slot + 1} /\ slot \in Nat
  BY DEF HInv, WInv, WTypeOK, InStep
<1>2. ~(slot + 1 - parent > 2)
  BY <1>1
<1>3. payload' = "none"
  BY <1>1, <1>2 DEF Receive, Judgement
<1> QED
  BY <1>3 DEF Receive

LEMMA HStep ==
  ASSUME HInv, [WNext]_wvars, Period < Silence
  PROVE  HInv'
<1>0. WInv' /\ WTypeOK
  BY WStep DEF HInv, WInv
<1> USE DEF HInv
<1>1. CASE WTick
  <2>1. /\ UNCHANGED <<streams, lost, lastSlot, payload, head>>
        /\ age' = age + 1 /\ since' = since + 1
        /\ missed' = (missed \/ age >= Period)
    BY <1>1 DEF WTick, Tick
  <2>2. (slot' = slot + 1 /\ made' = FALSE) \/ UNCHANGED <<slot, made>>
    BY <1>1 DEF WTick
  <2>3. Skipped' >= Skipped
    BY <1>0, <2>1, <2>2 DEF Skipped, WTypeOK
  <2>4. ASSUME Well'
        PROVE  /\ Well /\ ~(age >= Period)
               /\ slot' = slot \/ made
    <3>1. ~missed /\ ~(age >= Period) /\ ~lost /\ streams
      BY <2>1, <2>4 DEF Well
    <3>2. /\ slot \in Nat /\ head \in Nat /\ slot' - head' - (IF made' THEN 0 ELSE 1) = 0
          /\ slot - head - (IF made THEN 0 ELSE 1) >= 0
      BY <1>0, <2>4 DEF Well, Skipped, WTypeOK
    <3>3. CASE UNCHANGED <<slot, made>>
      BY <2>1, <3>1, <3>2, <3>3 DEF Well, Skipped
    <3>4. CASE slot' = slot + 1 /\ made' = FALSE
      <4>1. slot - head = 0
        BY <2>1, <3>2, <3>4
      <4>2. made
        BY <3>2, <4>1
      <4> QED
        BY <3>1, <4>1, <4>2 DEF Well, Skipped
    <3> QED
      BY <2>2, <3>3, <3>4
  <2>5. age' \in Nat /\ (~(age >= Period) => age' <= Period)
    BY <1>0, <2>1, ChainWatchAssumption DEF WTypeOK, ChainWatchAssumption
  <2>6. InStep'
    <3> SUFFICES ASSUME Well'
                 PROVE  InStep!2'
      BY DEF InStep
    <3>1. payload' = "none" /\ since' <= age' /\ age' <= Period
      BY <1>0, <2>1, <2>4, <2>5 DEF InStep, WTypeOK
    <3>2. /\ lastSlot' = 0 => slot' = 0 \/ (slot' = 1 /\ ~made')
          /\ lastSlot' # 0 => lastSlot' = slot' + 1 \/ (lastSlot' = slot' /\ ~made')
      BY <1>0, <2>1, <2>2, <2>4 DEF InStep, WTypeOK
    <3> QED
      BY <3>1, <3>2
  <2>7. Skipped \in Int /\ Skipped' \in Int
    BY <1>0 DEF Skipped, WTypeOK, WInv
  <2> QED
    BY <1>0, <2>3, <2>6, <2>7
<1>2. CASE BlockAnnounced
  <2>1. /\ UNCHANGED <<streams, lost, missed, slot>>
        /\ head' = head + 1 /\ age' = 0 /\ made = FALSE /\ made' = TRUE
    BY <1>0, <1>2 DEF BlockAnnounced, Block, WTypeOK
  <2>2. Skipped' = Skipped
    BY <1>0, <2>1 DEF Skipped, WTypeOK
  <2>3. ASSUME Well'
        PROVE  payload' = "none" /\ lastSlot' = slot + 1 /\ since' = 0
    <3>1. Well
      BY <2>1, <2>2, <2>3 DEF Well
    <3>2. head' \in Nat /\ slot - head' <= 1
      BY <1>0, <2>1, <3>1 DEF Well, Skipped, WTypeOK
    <3>3. Receive(slot + 1, head')
      BY <1>2, <3>1 DEF BlockAnnounced, InStep, Well
    <3> QED
      BY <3>1, <3>2, <3>3, WellAccepted
  <2>4. InStep'
    BY <1>0, <2>1, <2>3, ChainWatchAssumption DEF InStep, WTypeOK, ChainWatchAssumption
  <2> QED
    BY <1>0, <2>2, <2>4
<1>3. CASE BlockUnannounced
  <2>1. lost' = TRUE /\ slot' = slot /\ head' = head + 1 /\ ~made /\ made'
    BY <1>3 DEF BlockUnannounced, Block
  <2> QED
    BY <1>0, <2>1 DEF InStep, Well, Skipped, WTypeOK
<1>4. CASE Announced
  <2>1. UNCHANGED <<streams, lost, missed, slot, head, age, made>>
    BY <1>4 DEF Announced, vars, beaconVars
  <2>2. Skipped' = Skipped
    BY <2>1 DEF Skipped
  <2>3. ASSUME Well'
        PROVE  payload' = "none" /\ lastSlot' = slot + 1 /\ since' = 0
    <3>1. Well
      BY <2>1, <2>2, <2>3 DEF Well
    <3>2. head \in Nat /\ slot - head <= 1
      BY <1>0, <3>1 DEF Well, Skipped, WTypeOK
    <3>3. Receive(slot + 1, head)
      BY <1>4 DEF Announced
    <3> QED
      BY <3>1, <3>2, <3>3, WellAccepted
  <2>4. InStep'
    <3> SUFFICES ASSUME Well'
                 PROVE  InStep!2'
      BY DEF InStep
    <3>1. Well /\ age' = age
      BY <2>1, <2>2 DEF Well
    <3> QED
      BY <1>0, <2>1, <2>3, <3>1 DEF InStep, WTypeOK
  <2> QED
    BY <1>0, <2>2, <2>4
<1>5. CASE SilenceEnds
  <2>1. UNCHANGED <<streams, lost, missed, slot, head, age, made, since>> /\ since = Silence
    BY <1>5 DEF SilenceEnds, SilenceDue, vars, beaconVars
  <2>2. Skipped' = Skipped
    BY <2>1 DEF Skipped
  <2>3. ~Well
    BY <1>0, <2>1, ChainWatchAssumption, WatchdogAssumption
       DEF InStep, WTypeOK, ChainWatchAssumption, WatchdogAssumption
  <2> QED
    BY <1>0, <2>1, <2>2, <2>3 DEF InStep, Well
<1>6. CASE \/ WatchHead \/ \E w \in Watchers : WatchdogSends(w)
          \/ RunWatchdog \/ runIt \/ UNCHANGED wvars
  <2>1. UNCHANGED <<streams, lost, missed, slot, head, age, made, since, payload, lastSlot>>
    BY <1>6
       DEF WatchHead, Ask, NodeReads, CallFails, Answered, Timeout, watchKeeps, WatchdogSends,
           RunWatchdog, runIt, wvars, vars, beaconVars, payloadVars
  <2> QED
    BY <1>0, <2>1 DEF InStep, Well, Skipped
<1> QED
  BY <1>1, <1>2, <1>3, <1>4, <1>5, <1>6 DEF WNext, Stopped

LEMMA HInvariant ==
  ASSUME Period < Silence
  PROVE  WSpec => []HInv
<1>1. WInit => HInv
  <2> SUFFICES ASSUME WInit PROVE HInv
    OBVIOUS
  <2>1. WInv
    BY WInitial
  <2>2. Skipped >= 0
    BY DEF WInit, Init, Skipped
  <2>3. InStep
    BY ChainWatchAssumption DEF WInit, Init, InStep, ChainWatchAssumption
  <2> QED
    BY <2>1, <2>2, <2>3 DEF HInv
<1>2. HInv /\ [WNext]_wvars => HInv'
  BY HStep
<1> QED
  BY <1>1, <1>2, PTL DEF WSpec

\* Where no event is served none is heard, and the validator can only run out of time.
Unserved == ~streams => heard = {} /\ payload \in {"none", "timeout"}

LEMMA UnservedHears == WSpec => []Unserved
<1>1. WInit => Unserved
  BY DEF WInit, Unserved
<1>2. Unserved /\ [WNext]_wvars => Unserved'
  BY DEF Unserved, WNext, wvars, WTick, BlockAnnounced, BlockUnannounced, Announced,
         SilenceEnds, WatchHead, WatchdogSends, RunWatchdog, runIt, Stopped,
         beaconVars, payloadVars
<1> QED
  BY <1>1, <1>2, PTL DEF WSpec

(* The events of a chain that is well are accepted, wherever in a slot the   *)
(* watchdog began, as long as the chain's period fits into the twenty        *)
(* seconds of silence (watchers.go:86-101).                                *)
THEOREM SlotsAccepted ==
  ASSUME Period < Silence
  PROVE  WSpec => []WellSlotsAccepted
<1>1. HInv /\ Unserved => WellSlotsAccepted
  <2> SUFFICES ASSUME HInv, Unserved, payload # "none", ~missed, ~lost, ~(Skipped > 0)
               PROVE  ~streams /\ payload = "timeout" /\ heard = {}
    BY DEF WellSlotsAccepted
  <2>1. ~streams
    BY DEF HInv, WInv, WTypeOK, Well, Skipped, InStep
  <2> QED
    BY <2>1 DEF Unserved
<1> QED
  BY <1>1, HInvariant, UnservedHears, PTL

(* The URL is all that is wrong: as long as a poll and a call fit into the   *)
(* wiggle room and the chain's period into the silence, a session whose      *)
(* chain is well is stopped only when the payload validator was given a URL  *)
(* that serves no event and has waited for one (components.go:625).          *)
THEOREM StoppedOnlyByWiring ==
  ASSUME Period + Poll + Latency < Limit, Period < Silence
  PROVE  WSpec => [](HealthySessionGoesOn \/ (~streams /\ payload = "timeout" /\ heard = {}))
<1>1. WInv /\ TypeOK /\ HealthyChainAccepted /\ WellSlotsAccepted
        => HealthySessionGoesOn \/ (~streams /\ payload = "timeout" /\ heard = {})
  <2> SUFFICES ASSUME WInv, TypeOK, HealthyChainAccepted, WellSlotsAccepted,
                      session # "serve", ~missed, ~lost, ~(Skipped > 0), verdict # "error"
               PROVE  ~streams /\ payload = "timeout" /\ heard = {}
    BY DEF HealthySessionGoesOn
  <2>1. verdict = "none"
    BY DEF TypeOK, HealthyChainAccepted
  <2>2. payload # "none"
    BY <2>1 DEF WInv, FailureCauses, Failed
  <2> QED
    BY <2>2 DEF WellSlotsAccepted
<1>2. WSpec => []TypeOK /\ []HealthyChainAccepted
  <2>1. Spec => []HealthyChainAccepted
    BY HealthyAccepted
  <2> QED
    BY <2>1, DrivesChainWatch, TypeCorrect, PTL
<1>3. WSpec => []WellSlotsAccepted
  BY SlotsAccepted
<1> QED
  BY <1>1, <1>2, <1>3, WInvariant, PTL
=============================================================================
