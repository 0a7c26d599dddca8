------------------------------ MODULE Watchdog ------------------------------
(***************************************************************************)
(* --watchdog on an l1 session: RunWatchdog (playground/watchdog.go) starts *)
(* one goroutine per service that has a Watchdog.  The execution client's   *)
(* is ChainWatch; the relay's (components.go) is a watchGroup whose failure *)
(* can only come from validateProposerPayloads (watchers.go), since         *)
(* watchProposerPayloads (module Relay) never returns.  The first error      *)
(* ends the session.                                                       *)
(*                                                                         *)
(* One chain feeds both: the beacon node's slots and payload attributes,    *)
(* and the blocks ChainWatch polls for.                                    *)
(***************************************************************************)
EXTENDS ChainWatch, Sequences

CONSTANTS
  SlotTicks,  \* ticks of a slot
  Early,      \* when in a slot the beacon node announces the next for the head it has
  Silence,    \* the 20 seconds validateProposerPayloads waits for an event
  Room,       \* capacity of RunWatchdog's channel: len(instances)
  Streams     \* whether payload attributes are served at the URL it is given: FALSE for
              \* the relay's own port (components.go:625), which has none of the events
              \* (mev-boost-relay.go:169-171); TRUE for a beacon node's, which it asks for

ASSUME WatchdogAssumption ==
  /\ SlotTicks \in Nat \ {0} /\ Early \in Nat
  /\ Silence \in Nat \ {0} /\ Room \in Nat
  /\ Streams \subseteq BOOLEAN

VARIABLES
  streams,     \* payload attributes are served at the URL validateProposerPayloads is given
  slot,        \* the beacon node's slot
  into,        \* ticks since it began
  made,        \* its block has been made
  lost,        \* some block came without payload attributes
  heard,       \* slots validateProposerPayloads has had an event for
  lastSlot,    \* lastSlot, 0 before the first event
  since,       \* ticks the time.After of this select has run
  payload,     \* what validateProposerPayloads returned
  sent,        \* watchdog goroutines that have sent their error
  watchdogErr, \* RunWatchdog's channel
  session      \* runIt serves, RunWatchdog has failed, or runIt was told and stops

beaconVars  == <<streams, slot, into, made, lost>>
payloadVars == <<heard, lastSlot, since, payload>>
groupVars   == <<sent, watchdogErr, session>>
wvars == <<vars, beaconVars, payloadVars, groupVars>>

Watchers == {"el", "relay"}

\* The watchdog begins somewhere in the genesis slot.
WInit ==
  /\ Init
  /\ streams \in Streams
  /\ slot = 0
  /\ into \in 0 .. SlotTicks - 1
  /\ made = TRUE
  /\ lost = FALSE
  /\ heard = {}
  /\ lastSlot = 0
  /\ since = 0
  /\ payload = "none"
  /\ sent = {}
  /\ watchdogErr = <<>>
  /\ session = "serve"

\* Slots that have ended without a block.
Skipped == slot - head - (IF made THEN 0 ELSE 1)

Failed == {w \in Watchers : IF w = "el" THEN verdict # "none" ELSE payload # "none"}

SilenceDue == since = Silence

\* Steps that are due, and what a failure leads to, come before the next tick.
WTick ==
  /\ Tick
  /\ payload = "none"
  /\ ~SilenceDue
  /\ since' = since + 1
  /\ into' = (into + 1) % SlotTicks
  /\ IF into' = 0 THEN slot' = slot + 1 /\ made' = FALSE ELSE UNCHANGED <<slot, made>>
  /\ UNCHANGED <<streams, lost, heard, lastSlot, payload, groupVars>>

\* Mutants: one event per slot; any slot may follow.
JudgementStrict(p, parent) ==
  IF lastSlot # 0 /\ lastSlot + 1 # p THEN "mismatch"
  ELSE IF p - parent > 2 THEN "parent" ELSE "none"

JudgementSkips(p, parent) == IF p - parent > 2 THEN "parent" ELSE "none"

\* The beacon node may send several updates for one slot.
Judgement(p, parent) ==
  IF lastSlot # 0 /\ lastSlot # p /\ lastSlot + 1 # p THEN "mismatch"
  ELSE IF p - parent > 2 THEN "parent" ELSE "none"

\* The loop of validateProposerPayloads takes the event for proposal slot p.
Receive(p, parent) ==
  /\ payload' = Judgement(p, parent)
  /\ heard' = heard \cup {p}
  /\ lastSlot' = IF payload' = "none" THEN p ELSE lastSlot
  /\ since' = 0

\* A new head makes the beacon node announce attributes for the next slot.
BlockAnnounced ==
  /\ Block
  /\ session # "stopped"
  /\ ~made
  /\ made' = TRUE
  /\ IF streams /\ payload = "none" THEN Receive(slot + 1, head') ELSE UNCHANGED payloadVars
  /\ UNCHANGED <<streams, slot, into, lost, groupVars>>

BlockUnannounced ==
  /\ Block
  /\ session # "stopped"
  /\ ~made
  /\ made' = TRUE
  /\ lost' = TRUE
  /\ UNCHANGED <<streams, slot, into, payloadVars, groupVars>>

\* ... and it may do so, and do so again, late in the slot, for the head it has.
Announced ==
  /\ session # "stopped"
  /\ streams
  /\ into = Early
  /\ payload = "none"
  /\ Receive(slot + 1, head)
  /\ UNCHANGED <<vars, beaconVars, groupVars>>

SilenceEnds ==
  /\ session # "stopped"
  /\ payload = "none"
  /\ SilenceDue
  /\ payload' = "timeout"
  /\ UNCHANGED <<vars, beaconVars, heard, lastSlot, since, groupVars>>

\* watchChainHead in its goroutine, until the program is gone.
WatchHead ==
  /\ session # "stopped"
  /\ Ask \/ NodeReads \/ CallFails \/ Answered \/ Timeout
  /\ UNCHANGED <<beaconVars, payloadVars, groupVars>>

-----------------------------------------------------------------------------
(* RunWatchdog and runIt. *)

\* A watchdog returned: its goroutine sends the error (for the relay the
\* watchGroup has passed it on, through a channel of its own).
WatchdogSends(w) ==
  /\ session # "stopped"
  /\ w \in Failed \ sent
  /\ Len(watchdogErr) < Room
  /\ watchdogErr' = Append(watchdogErr, w)
  /\ sent' = sent \cup {w}
  /\ UNCHANGED <<vars, beaconVars, payloadVars, session>>

\* Mutant: it waits for every watchdog.
RunWatchdogWaitsForAll ==
  /\ session = "serve"
  /\ watchdogErr # <<>>
  /\ IF sent = Watchers
     THEN watchdogErr' = Tail(watchdogErr) /\ session' = "failed"
     ELSE UNCHANGED <<watchdogErr, session>>
  /\ UNCHANGED <<vars, beaconVars, payloadVars, sent>>

\* It reads one error and returns it; the goroutine in runIt passes it on.
RunWatchdog ==
  /\ session = "serve"
  /\ watchdogErr # <<>>
  /\ watchdogErr' = Tail(watchdogErr)
  /\ session' = "failed"
  /\ UNCHANGED <<vars, beaconVars, payloadVars, sent>>

\* The final select of runIt takes it and stops the session.
runIt ==
  /\ session = "failed"
  /\ session' = "stopped"
  /\ UNCHANGED <<vars, beaconVars, payloadVars, sent, watchdogErr>>

Stopped == session = "stopped" /\ UNCHANGED wvars

WNext ==
  \/ WTick \/ BlockAnnounced \/ BlockUnannounced \/ Announced \/ SilenceEnds
  \/ WatchHead
  \/ \E w \in Watchers : WatchdogSends(w)
  \/ RunWatchdog \/ runIt
  \/ Stopped

WSpec == WInit /\ [][WNext]_wvars

\* The goroutines keep running; time, the chain and the node are free.
WFairness ==
  /\ \A w \in Watchers : WF_wvars(WatchdogSends(w))
  /\ WF_wvars(RunWatchdog)
  /\ WF_wvars(runIt)

WFairSpec == WSpec /\ WFairness

-----------------------------------------------------------------------------
(* Properties. *)

(* The slots heard of have no hole while the check has not failed, however   *)
(* many events are lost (watchers.go:69 "without any missing slots"), at a   *)
(* URL that serves events.  At the relay's own there are none to judge.      *)
GapsReported ==
  payload = "none" => \A p \in heard, q \in heard : \A r \in p .. q : r \in heard

(* validateProposerPayloads accepts the events of a chain that is well: a    *)
(* block in every slot, each announced.  It does not matter how often        *)
(* attributes are repeated, whether with the early parent (slot - 2) or the  *)
(* late one (slot - 1), and where in a slot the watchdog began               *)
(* (watchers.go:86-97).  Given a URL without events it returns all the same, *)
(* but only from the silence.                                              *)
WellSlotsAccepted ==
  payload # "none" => \/ missed \/ lost \/ Skipped > 0
                      \/ ~streams /\ payload = "timeout" /\ heard = {}

(* A session is not stopped while its chain is well: a block in every slot,  *)
(* each announced by the beacon node, found by every call (watchers.go:67    *)
(* "validates that payload attribute events are being broadcasted by the     *)
(* beacon node").  The code breaks it: components.go:625 has the relay's own *)
(* port validated, and after twenty seconds without an event there           *)
(* main.go:363 stops the session.                                          *)
HealthySessionGoesOn ==
  session # "serve" => missed \/ lost \/ Skipped > 0 \/ verdict = "error"

(* Whichever watchdog fails, alone or with another, the session ends        *)
(* (README.md:66), although RunWatchdog reads a single error.               *)
FailureEndsSession == Failed # {} ~> session = "stopped"
=============================================================================
