------------------------------- MODULE Relay -------------------------------
(***************************************************************************)
(* The relay (mev-boost-relay/mev-boost-relay.go) and the goroutine of the  *)
(* playground that reports what it delivers (watchProposerPayloads in       *)
(* playground/watchers.go).                                                *)
(*                                                                         *)
(* The relay's API, which is not in src/, calls the in-memory database from *)
(* one goroutine per request.  Validators register again and again, with    *)
(* growing timestamps; payloads are delivered in the order of their slots   *)
(* and saved when their goroutines get to it.  The watcher asks for the     *)
(* whole list every two seconds.                                           *)
(***************************************************************************)
EXTENDS Integers, Sequences, Functions

CONSTANTS
  Validators,
  MaxStamp,   \* model bound: registrations of each validator
  MaxSlot     \* model bound: payloads delivered

ASSUME RelayAssumption == MaxStamp \in Nat /\ MaxSlot \in Nat

VARIABLES
  life,       \* the relay process: in New, in Start, or gone
  registry,   \* validatorRegistryEntries: timestamp by validator, 0: no entry
  newest,     \* the timestamp each validator sent last
  open,       \* registrations whose goroutine has not saved them
  overlapped, \* validators that had two of them open at once
  reader,     \* GetLatestValidatorRegistrations is in its loop, with the lock
  todo,       \* the entries it has still to visit
  seen,       \* the timestamps it has appended, by validator
  delivered,  \* slots whose payload was delivered, in order
  unsaved,    \* of these, not saved yet
  payloads,   \* deliveredPayloads: their slots
  watch,      \* where watchProposerPayloads is
  list,       \* the list it was sent
  lastSlot,
  printed     \* the slots it has printed

dbVars    == <<registry, newest, open, overlapped>>
readVars  == <<reader, todo, seen>>
saveVars  == <<delivered, unsaved, payloads>>
watchVars == <<watch, list, lastSlot, printed>>
vars == <<life, dbVars, readVars, saveVars, watchVars>>

Slots  == 1 .. MaxSlot
Stamps == 1 .. MaxStamp

\* The types of the variables; the map never holds what was not sent.
TypeOK ==
  /\ life \in {"new", "up", "exited"}
  /\ newest \in [Validators -> 0 .. MaxStamp]
  /\ registry \in [Validators -> 0 .. MaxStamp]
  /\ seen \in [Validators -> 0 .. MaxStamp]
  /\ \A v \in Validators : registry[v] <= newest[v]
  /\ open \subseteq Validators \X Stamps
  /\ overlapped \subseteq Validators
  /\ reader \in BOOLEAN
  /\ todo \subseteq Validators
  /\ delivered \in 0 .. MaxSlot
  /\ unsaved \subseteq Slots
  /\ payloads \in Seq(Slots)
  /\ watch \in {"probe", "sleep", "got", "returned"}
  /\ list \in Seq(Slots)
  /\ lastSlot \in 0 .. MaxSlot
  /\ printed \in Seq(Slots)

Init ==
  /\ life = "new"
  /\ registry = [v \in Validators |-> 0]
  /\ newest = [v \in Validators |-> 0]
  /\ open = {}
  /\ overlapped = {}
  /\ reader = FALSE
  /\ todo = {}
  /\ seen = [v \in Validators |-> 0]
  /\ delivered = 0
  /\ unsaved = {}
  /\ payloads = <<>>
  /\ watch = "probe"
  /\ list = <<>>
  /\ lastSlot = 0
  /\ printed = <<>>

-----------------------------------------------------------------------------
(* The process.  New gives the beacon node ten seconds and returns the first *)
(* error of the steps behind it; Start returns when the API or the           *)
(* housekeeper does.                                                       *)

NewReturns ==
  /\ life = "new"
  /\ life' \in {"up", "exited"}
  /\ UNCHANGED <<dbVars, readVars, saveVars, watchVars>>

StartReturns ==
  /\ life = "up"
  /\ life' = "exited"
  /\ UNCHANGED <<dbVars, readVars, saveVars, watchVars>>

-----------------------------------------------------------------------------
(* Validator registrations. *)

\* Mutant: no lock.
LockFreeAlways == TRUE

LockFree == ~reader

\* A validator registers again; its previous request may still be open.
Register(v) ==
  /\ life = "up"
  /\ newest[v] < MaxStamp
  /\ newest' = [newest EXCEPT ![v] = @ + 1]
  /\ open' = open \cup {<<v, newest[v] + 1>>}
  /\ overlapped' = IF \E t \in Stamps : <<v, t>> \in open THEN overlapped \cup {v}
                                                         ELSE overlapped
  /\ UNCHANGED <<life, registry, readVars, saveVars, watchVars>>

\* No timestamps are compared: whoever gets the lock last stays.
SaveValidatorRegistration(v, t) ==
  /\ life = "up"
  /\ <<v, t>> \in open
  /\ LockFree
  /\ registry' = [registry EXCEPT ![v] = t]
  /\ open' = open \ {<<v, t>>}
  /\ UNCHANGED <<life, newest, overlapped, readVars, saveVars, watchVars>>

\* GetLatestValidatorRegistrations takes the lock ...
ListBegins ==
  /\ life = "up"
  /\ LockFree
  /\ reader' = TRUE
  /\ todo' = {v \in Validators : registry[v] > 0}
  /\ seen' = [v \in Validators |-> 0]
  /\ UNCHANGED <<life, dbVars, saveVars, watchVars>>

\* ... visits the map in any order ...
ListVisits(v) ==
  /\ life = "up"
  /\ reader
  /\ v \in todo
  /\ todo' = todo \ {v}
  /\ seen' = [seen EXCEPT ![v] = registry[v]]
  /\ UNCHANGED <<life, reader, dbVars, saveVars, watchVars>>

\* ... and returns.
ListReturns ==
  /\ life = "up"
  /\ reader
  /\ todo = {}
  /\ reader' = FALSE
  /\ seen' = [v \in Validators |-> 0]
  /\ UNCHANGED <<life, todo, dbVars, saveVars, watchVars>>

-----------------------------------------------------------------------------
(* Delivered payloads. *)

\* The API hands the payload of a slot to its proposer.
Deliver ==
  /\ life = "up"
  /\ delivered < MaxSlot
  /\ delivered' = delivered + 1
  /\ unsaved' = unsaved \cup {delivered + 1}
  /\ UNCHANGED <<life, payloads, dbVars, readVars, watchVars>>

SaveDeliveredPayload(s) ==
  /\ life = "up"
  /\ s \in unsaved
  /\ payloads' = Append(payloads, s)
  /\ unsaved' = unsaved \ {s}
  /\ UNCHANGED <<life, delivered, dbVars, readVars, watchVars>>

-----------------------------------------------------------------------------
(* watchProposerPayloads. *)

\* Mutant: the timer's break leaves the loop and the watcher with it.
ProbeFailsReturns ==
  /\ watch = "probe"
  /\ watch' = "returned"
  /\ UNCHANGED <<life, list, lastSlot, printed, dbVars, readVars, saveVars>>

\* A call that fails does not end the first loop, nor does the ten-second timer,
\* whose break only leaves the select.
ProbeFails ==
  /\ watch = "probe"
  /\ UNCHANGED vars

Probe ==
  /\ life = "up"
  /\ watch = "probe"
  /\ watch' = "sleep"
  /\ UNCHANGED <<life, list, lastSlot, printed, dbVars, readVars, saveVars>>

\* The data API answers with all of GetRecentDeliveredPayloads.
Fetch ==
  /\ life = "up"
  /\ watch = "sleep"
  /\ watch' = "got"
  /\ list' = payloads
  /\ UNCHANGED <<life, lastSlot, printed, dbVars, readVars, saveVars>>

\* The error is printed, and the call repeated two seconds later.
FetchFails ==
  /\ watch = "sleep"
  /\ UNCHANGED vars

\* Mutant: the slot that was printed is not kept.
PrintNextAgain ==
  /\ watch = "got"
  /\ list # <<>>
  /\ printed' = IF Head(list) > lastSlot THEN Append(printed, Head(list)) ELSE printed
  /\ list' = Tail(list)
  /\ UNCHANGED <<life, watch, lastSlot, dbVars, readVars, saveVars>>

\* One turn of the loop over the list.
PrintNext ==
  /\ watch = "got"
  /\ list # <<>>
  /\ IF Head(list) > lastSlot
     THEN printed' = Append(printed, Head(list)) /\ lastSlot' = Head(list)
     ELSE UNCHANGED <<printed, lastSlot>>
  /\ list' = Tail(list)
  /\ UNCHANGED <<life, watch, dbVars, readVars, saveVars>>

AllPrinted ==
  /\ watch = "got"
  /\ list = <<>>
  /\ watch' = "sleep"
  /\ UNCHANGED <<life, list, lastSlot, printed, dbVars, readVars, saveVars>>

\* The process is gone; its container's death ends the session (Runner).
Exited == life = "exited" /\ UNCHANGED vars

Next ==
  \/ NewReturns \/ StartReturns
  \/ \E v \in Validators : Register(v) \/ ListVisits(v)
  \/ \E v \in Validators, t \in Stamps : SaveValidatorRegistration(v, t)
  \/ ListBegins \/ ListReturns
  \/ Deliver \/ \E s \in Slots : SaveDeliveredPayload(s)
  \/ Probe \/ ProbeFails \/ Fetch \/ FetchFails \/ PrintNext \/ AllPrinted
  \/ Exited

Spec == Init /\ [][Next]_vars

\* The watcher's goroutine runs, and while the relay is up one of its calls is
\* answered in the end, whatever fails before.
Fairness == WF_vars(Probe) /\ WF_vars(Fetch)
            /\ WF_vars(PrintNext) /\ WF_vars(AllPrinted)

FairSpec == Spec /\ Fairness

-----------------------------------------------------------------------------
(* Properties. *)

(* A validator that waits for the answer before it registers again is known  *)
(* by its latest registration, in the map and in a list that is being made   *)
(* while other goroutines save.  For one that does not wait nothing is       *)
(* promised: an older one may be saved last (mev-boost-relay.go:310).        *)
LatestRegistrationKept ==
  \A v \in Validators \ overlapped :
    (\A t \in Stamps : <<v, t>> \notin open) =>
      /\ registry[v] = newest[v]
      /\ reader => v \in todo \/ seen[v] = newest[v]

\* Payloads that had the greatest slot when they were saved.
Firsts == {i \in DOMAIN payloads : \A j \in 1 .. i - 1 : payloads[j] < payloads[i]}

(* Blocks are reported in the order of their slots, each once, and none that  *)
(* was not delivered, however often the whole list is read again.            *)
PrintedInOrder ==
  /\ \A i, j \in DOMAIN printed : i < j => printed[i] < printed[j]
  /\ Range(printed) \subseteq {payloads[i] : i \in Firsts}

(* Every payload that is saved in the order of the slots is reported, unless *)
(* the relay ends; so nothing is lost to a relay that starts late, to calls  *)
(* that fail, or to the list that was read.  One saved after a later slot's  *)
(* never is.                                                               *)
PayloadReported ==
  \A s \in Slots :
    (\E i \in Firsts : payloads[i] = s) ~> (life = "exited" \/ s \in Range(printed))
=============================================================================
