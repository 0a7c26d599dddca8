----------------------------- MODULE RelayProofs -----------------------------
(***************************************************************************)
(* Proofs about Relay, for any validators, timestamps and slots: the types, *)
(* LatestRegistrationKept and PrintedInOrder.  PayloadReported is a matter *)
(* of fairness and left to TLC.                                            *)
(***************************************************************************)
EXTENDS Relay, SequenceTheorems, TLAPS

USE RelayAssumption DEF Slots, Stamps

-----------------------------------------------------------------------------
(* Registrations. *)

\* A registration in the making is not newer than what its validator sent, and
\* is the newest if the validator waits for answers.
OpenInv ==
  \A v \in Validators, t \in Stamps :
    <<v, t>> \in open => t <= newest[v] /\ (v \notin overlapped => t = newest[v])

\* What was sent and is not in the making is in the map.
SavedInv ==
  \A v \in Validators \ overlapped :
    (\A t \in Stamps : <<v, t>> \notin open) => registry[v] = newest[v]

\* The loop of GetLatestValidatorRegistrations sees the map standing still.
ListInv == reader => \A v \in Validators : v \in todo \/ seen[v] = registry[v]

RegistryInv == TypeOK /\ OpenInv /\ SavedInv /\ ListInv

LEMMA RegistryInit == Init => RegistryInv
<1> SUFFICES ASSUME Init PROVE RegistryInv
  OBVIOUS
<1>1. TypeOK
  <2>1. 0 \in 0 .. MaxStamp /\ 0 \in 0 .. MaxSlot /\ <<>> \in Seq(Slots)
    OBVIOUS
  <2>2. /\ newest \in [Validators -> 0 .. MaxStamp]
        /\ registry \in [Validators -> 0 .. MaxStamp]
        /\ seen \in [Validators -> 0 .. MaxStamp]
        /\ \A v \in Validators : registry[v] <= newest[v]
    BY <2>1 DEF Init
  <2> QED
    BY <2>1, <2>2 DEF Init, TypeOK
<1>2. OpenInv /\ SavedInv /\ ListInv
  BY DEF Init, OpenInv, SavedInv, ListInv
<1> QED
  BY <1>1, <1>2 DEF RegistryInv

\* The steps of the watcher and of the process leave the registry alone.
LEMMA OthersKeepRegistry ==
  ASSUME RegistryInv, TypeOK', UNCHANGED <<dbVars, readVars>>
  PROVE  RegistryInv'
  BY DEF RegistryInv, OpenInv, SavedInv, ListInv, dbVars, readVars

LEMMA RegistryStep == RegistryInv /\ [Next]_vars => RegistryInv'
<1> SUFFICES ASSUME RegistryInv, [Next]_vars PROVE RegistryInv'
  OBVIOUS
<1> USE DEF RegistryInv, dbVars, readVars, saveVars, watchVars
<1>1. CASE NewReturns
  <2>1. TypeOK'
    BY <1>1 DEF NewReturns, TypeOK
  <2> QED
    BY <1>1, <2>1, OthersKeepRegistry DEF NewReturns
<1>2. CASE StartReturns
  <2>1. TypeOK'
    BY <1>2 DEF StartReturns, TypeOK
  <2> QED
    BY <1>2, <2>1, OthersKeepRegistry DEF StartReturns
<1>3. ASSUME NEW v \in Validators, Register(v)
      PROVE  RegistryInv'
  <2> USE <1>3 DEF Register, TypeOK
  <2>1. \A w \in Validators : newest'[w] = IF w = v THEN newest[v] + 1 ELSE newest[w]
    OBVIOUS
  <2>2. newest[v] \in Nat /\ newest[v] + 1 \in Stamps
    OBVIOUS
  <2>3. \A w \in Validators : registry[w] \in Nat /\ newest[w] \in Nat
    OBVIOUS
  <2>4. TypeOK'
    BY <2>1, <2>2, <2>3
  <2>5. OpenInv'
    <3> SUFFICES ASSUME NEW w \in Validators, NEW t \in Stamps, <<w, t>> \in open'
                 PROVE  t <= newest'[w] /\ (w \notin overlapped' => t = newest'[w])
      BY DEF OpenInv
    <3>1. CASE w = v /\ <<w, t>> \in open
      <4>1. t <= newest[v] /\ newest'[w] = newest[v] + 1
        BY <2>1, <3>1 DEF OpenInv
      <4>2. w \in overlapped'
        BY <3>1
      <4> QED
        BY <2>2, <4>1, <4>2
    <3>2. CASE w = v /\ <<w, t>> \notin open
      BY <2>1, <2>2, <3>2
    <3>3. CASE w # v
      BY <2>1, <3>3 DEF OpenInv
    <3> QED
      BY <3>1, <3>2, <3>3
  <2>6. SavedInv'
    BY <2>1, <2>2 DEF SavedInv
  <2>7. ListInv'
    BY DEF ListInv
  <2> QED
    BY <2>4, <2>5, <2>6, <2>7
<1>4. ASSUME NEW v \in Validators, NEW t \in Stamps, SaveValidatorRegistration(v, t)
      PROVE  RegistryInv'
  <2> USE <1>4 DEF SaveValidatorRegistration, TypeOK
  <2>1. \A w \in Validators : registry'[w] = IF w = v THEN t ELSE registry[w]
    OBVIOUS
  <2>2. t <= newest[v]
    BY DEF OpenInv
  <2>3. TypeOK'
    BY <2>1, <2>2
  <2>4. OpenInv'
    BY DEF OpenInv
  <2>5. SavedInv'
    BY <2>1 DEF SavedInv, OpenInv
  <2>6. ListInv'
    BY DEF ListInv, LockFree
  <2> QED
    BY <2>3, <2>4, <2>5, <2>6
<1>5. CASE ListBegins
  <2>1. TypeOK'
    BY <1>5 DEF ListBegins, TypeOK
  <2>2. ListInv'
    BY <1>5 DEF ListBegins, ListInv, TypeOK
  <2> QED
    BY <1>5, <2>1, <2>2 DEF ListBegins, OpenInv, SavedInv
<1>6. ASSUME NEW v \in Validators, ListVisits(v)
      PROVE  RegistryInv'
  <2> USE <1>6 DEF ListVisits
  <2>1. TypeOK'
    BY DEF TypeOK
  <2>2. ListInv'
    BY DEF TypeOK, ListInv
  <2> QED
    BY <2>1, <2>2 DEF OpenInv, SavedInv
<1>7. CASE ListReturns
  <2>1. TypeOK'
    <3>1. seen' \in [Validators -> 0 .. MaxStamp]
      BY <1>7 DEF ListReturns
    <3> QED
      BY <1>7, <3>1 DEF ListReturns, TypeOK
  <2> QED
    BY <1>7, <2>1 DEF ListReturns, OpenInv, SavedInv, ListInv
<1>8. CASE Deliver
  <2>1. TypeOK'
    BY <1>8 DEF Deliver, TypeOK
  <2> QED
    BY <1>8, <2>1, OthersKeepRegistry DEF Deliver
<1>9. ASSUME NEW s \in Slots, SaveDeliveredPayload(s)
      PROVE  RegistryInv'
  <2>1. TypeOK'
    BY <1>9 DEF SaveDeliveredPayload, TypeOK
  <2> QED
    BY <1>9, <2>1, OthersKeepRegistry DEF SaveDeliveredPayload
<1>10. CASE Probe
  <2>1. TypeOK'
    BY <1>10 DEF Probe, TypeOK
  <2> QED
    BY <1>10, <2>1, OthersKeepRegistry DEF Probe
<1>11. CASE Fetch
  <2>1. TypeOK'
    BY <1>11 DEF Fetch, TypeOK
  <2> QED
    BY <1>11, <2>1, OthersKeepRegistry DEF Fetch
<1>12. CASE PrintNext
  <2>1. TypeOK /\ list # <<>>
    BY <1>12 DEF PrintNext
  <2>2. Head(list) \in Slots /\ Tail(list) \in Seq(Slots)
    BY <2>1, HeadTailProperties DEF TypeOK
  <2>3. TypeOK'
    <3>1. Head(list) \in 0 .. MaxSlot
      BY <2>2
    <3>2. printed' \in Seq(Slots) /\ lastSlot' \in 0 .. MaxSlot
      <4>1. CASE Head(list) > lastSlot
        <5>1. printed \in Seq(Slots) /\ printed' = Append(printed, Head(list)) /\ lastSlot' = Head(list)
          BY <1>12, <4>1, <2>1 DEF PrintNext, TypeOK
        <5> QED
          BY <2>2, <3>1, <5>1, AppendProperties
      <4>2. CASE ~(Head(list) > lastSlot)
        BY <1>12, <4>2, <2>1 DEF PrintNext, TypeOK
      <4> QED
        BY <4>1, <4>2
    <3>3. list' \in Seq(Slots) /\ watch' \in {"probe", "sleep", "got", "returned"}
      BY <1>12, <2>1, <2>2 DEF PrintNext, TypeOK
    <3>4. UNCHANGED <<life, dbVars, readVars, saveVars>>
      BY <1>12 DEF PrintNext
    <3> QED
      BY <2>1, <3>2, <3>3, <3>4 DEF TypeOK
  <2> QED
    BY <1>12, <2>3, OthersKeepRegistry DEF PrintNext
<1>13. CASE AllPrinted
  <2>1. TypeOK'
    BY <1>13 DEF AllPrinted, TypeOK
  <2> QED
    BY <1>13, <2>1, OthersKeepRegistry DEF AllPrinted
<1>14. CASE UNCHANGED vars
  <2>1. TypeOK'
    BY <1>14 DEF vars, TypeOK
  <2> QED
    BY <1>14, <2>1, OthersKeepRegistry DEF vars
<1> QED
  BY <1>1, <1>2, <1>3, <1>4, <1>5, <1>6, <1>7, <1>8, <1>9, <1>10, <1>11, <1>12, <1>13, <1>14
     DEF Next, ProbeFails, FetchFails, Exited

THEOREM RegistryInvariance == Spec => []RegistryInv
  BY RegistryInit, RegistryStep, PTL DEF Spec

(* Every variable keeps its type; in particular the map never holds what a *)
(* validator has not sent.                                                 *)
THEOREM TypeCorrect == Spec => []TypeOK
<1>1. RegistryInv => TypeOK
  BY DEF RegistryInv
<1> QED
  BY <1>1, RegistryInvariance, PTL

(* A validator that waits for each answer is known by its latest            *)
(* registration, in the map and in a list being made, for any number of    *)
(* validators and registrations and any order of the requests.             *)
THEOREM LatestKept == Spec => []LatestRegistrationKept
<1>1. RegistryInv => LatestRegistrationKept
  BY DEF RegistryInv, SavedInv, ListInv, LatestRegistrationKept
<1> QED
  BY <1>1, RegistryInvariance, PTL

-----------------------------------------------------------------------------
(* Printed blocks. *)

\* The list is what was fetched from some place of the payloads on, and nothing
\* before that place is above the last slot.
ReadUpTo(k) ==
  /\ k + Len(list) <= Len(payloads)
  /\ \A i \in 1 .. Len(list) : list[i] = payloads[k + i]
  /\ \A j \in 1 .. k : payloads[j] <= lastSlot

PrintInv ==
  /\ TypeOK
  /\ \A i, j \in DOMAIN printed : i < j => printed[i] < printed[j]
  /\ \A i \in DOMAIN printed : printed[i] <= lastSlot
  /\ \A i \in DOMAIN printed : \E f \in Firsts : printed[i] = payloads[f]
  /\ \E k \in Nat : ReadUpTo(k)

LEMMA PrintInit == Init => PrintInv
<1> SUFFICES ASSUME Init PROVE PrintInv
  OBVIOUS
<1>1. TypeOK
  BY RegistryInit DEF RegistryInv
<1>2. ReadUpTo(0)
  BY DEF Init, ReadUpTo
<1> QED
  BY <1>1, <1>2 DEF Init, PrintInv

LEMMA PrintStep == PrintInv /\ TypeOK' /\ [Next]_vars => PrintInv'
<1> SUFFICES ASSUME PrintInv, TypeOK', [Next]_vars PROVE PrintInv'
  OBVIOUS
<1> USE DEF dbVars, readVars, saveVars, watchVars
<1>1. /\ TypeOK /\ printed \in Seq(Slots) /\ payloads \in Seq(Slots) /\ list \in Seq(Slots)
      /\ lastSlot \in Nat
  <2>1. TypeOK
    BY DEF PrintInv
  <2>2. lastSlot \in 0 .. MaxSlot
    BY <2>1 DEF TypeOK
  <2>3. lastSlot \in Nat
    BY <2>2
  <2>4. printed \in Seq(Slots) /\ payloads \in Seq(Slots) /\ list \in Seq(Slots)
    BY <2>1, Zenon DEF TypeOK
  <2> QED
    BY <2>1, <2>3, <2>4
<1>7. /\ DOMAIN payloads = 1 .. Len(payloads) /\ Len(payloads) \in Nat
      /\ \A i \in 1 .. Len(payloads) : payloads[i] \in Nat
  <2>1. \A i \in 1 .. Len(payloads) : payloads[i] \in Slots
    BY <1>1
  <2> QED
    BY <1>1, <2>1
<1>8. /\ DOMAIN printed = 1 .. Len(printed) /\ Len(printed) \in Nat
      /\ \A i \in 1 .. Len(printed) : printed[i] \in Nat
  <2>1. \A i \in 1 .. Len(printed) : printed[i] \in Slots
    BY <1>1
  <2> QED
    BY <1>1, <2>1
<1>2. ASSUME UNCHANGED <<payloads, list, lastSlot, printed>>
      PROVE  PrintInv'
  BY <1>2 DEF PrintInv, ReadUpTo, Firsts
<1>3. ASSUME NEW s \in Slots, SaveDeliveredPayload(s)
      PROVE  PrintInv'
  <2>1. /\ payloads' = Append(payloads, s)
        /\ UNCHANGED <<list, lastSlot, printed>>
    BY <1>3 DEF SaveDeliveredPayload
  <2>2. /\ Len(payloads') = Len(payloads) + 1
        /\ \A i \in 1 .. Len(payloads) : payloads'[i] = payloads[i]
    BY <1>1, <2>1, AppendProperties
  <2>3. Firsts \subseteq Firsts'
    BY <1>1, <2>1, <2>2 DEF Firsts
  <2>4. \A f \in Firsts : payloads'[f] = payloads[f]
    BY <1>7, <2>2 DEF Firsts
  <2>5. ASSUME NEW k \in Nat, ReadUpTo(k)
        PROVE  ReadUpTo(k)'
    BY <1>1, <2>1, <2>2, <2>5 DEF ReadUpTo
  <2> QED
    BY <2>1, <2>3, <2>4, <2>5 DEF PrintInv
<1>4. CASE Fetch
  <2>1. list' = payloads /\ UNCHANGED <<payloads, lastSlot, printed>>
    BY <1>4 DEF Fetch
  <2>2. ReadUpTo(0)'
    BY <1>1, <2>1 DEF ReadUpTo
  <2> QED
    BY <2>1, <2>2 DEF PrintInv, Firsts
<1>5. CASE PrintNext
  <2>1. /\ list # <<>>
        /\ list' = Tail(list)
        /\ UNCHANGED payloads
    BY <1>5 DEF PrintNext
  <2>2. PICK k \in Nat : ReadUpTo(k)
    BY DEF PrintInv
  <2>3. /\ Head(list) = list[1] /\ Len(list) >= 1
        /\ Len(list') = Len(list) - 1
        /\ \A i \in 1 .. Len(list') : list'[i] = list[i + 1]
    BY <1>1, <2>1, HeadTailProperties
  <2>4. k + 1 \in DOMAIN payloads /\ payloads[k + 1] = Head(list)
    BY <1>1, <2>2, <2>3 DEF ReadUpTo
  <2>5. lastSlot \in Nat /\ Head(list) \in Nat /\ \A i \in DOMAIN payloads : payloads[i] \in Nat
    BY <1>1, <1>7, <2>4
  <2>6. lastSlot' >= lastSlot /\ lastSlot' >= Head(list) /\ lastSlot' \in Nat
    BY <1>5, <2>5 DEF PrintNext
  <2>7. ReadUpTo(k + 1)'
    <3>1. \A j \in 1 .. k + 1 : payloads[j] <= lastSlot'
      <4> SUFFICES ASSUME NEW j \in 1 .. k + 1 PROVE payloads[j] <= lastSlot'
        OBVIOUS
      <4>1. CASE j = k + 1
        BY <2>4, <2>6, <4>1
      <4>2. CASE j # k + 1
        <5>1. j \in 1 .. k /\ j \in DOMAIN payloads
          BY <1>7, <2>4, <4>2
        <5>2. payloads[j] <= lastSlot /\ payloads[j] \in Nat
          BY <2>2, <2>5, <5>1 DEF ReadUpTo
        <5> QED
          BY <2>5, <2>6, <5>2
      <4> QED
        BY <4>1, <4>2
    <3>2. k + 1 + Len(list') <= Len(payloads')
      BY <1>1, <1>7, <2>1, <2>2, <2>3 DEF ReadUpTo
    <3>3. \A i \in 1 .. Len(list') : list'[i] = payloads'[k + 1 + i]
      <4> SUFFICES ASSUME NEW i \in 1 .. Len(list') PROVE list'[i] = payloads'[k + 1 + i]
        OBVIOUS
      <4>1. i + 1 \in 1 .. Len(list) /\ k + (i + 1) = k + 1 + i
        BY <1>1, <2>3
      <4>2. list[i + 1] = payloads[k + (i + 1)]
        BY <2>2, <4>1 DEF ReadUpTo
      <4> QED
        BY <2>1, <2>3, <4>1, <4>2
    <3> QED
      BY <2>1, <3>1, <3>2, <3>3 DEF ReadUpTo
  <2>8. CASE Head(list) > lastSlot
    <3>1. printed' = Append(printed, Head(list)) /\ lastSlot' = Head(list)
      BY <1>5, <2>8 DEF PrintNext
    <3>2. /\ Len(printed') = Len(printed) + 1
          /\ \A i \in 1 .. Len(printed) : printed'[i] = printed[i]
          /\ printed'[Len(printed) + 1] = Head(list)
          /\ DOMAIN printed' = 1 .. Len(printed) + 1
          /\ DOMAIN printed = 1 .. Len(printed)
      BY <1>1, <2>5, <3>1, AppendProperties
    <3>3. k + 1 \in Firsts
      BY <2>2, <2>4, <2>5, <2>8 DEF Firsts, ReadUpTo
    <3>4. \A i \in DOMAIN printed : printed[i] \in Nat
      BY <1>1
    <3>5. \A i, j \in DOMAIN printed' : i < j => printed'[i] < printed'[j]
      <4> SUFFICES ASSUME NEW i \in DOMAIN printed', NEW j \in DOMAIN printed', i < j
                   PROVE  printed'[i] < printed'[j]
        OBVIOUS
      <4>1. i \in DOMAIN printed /\ printed'[i] = printed[i] /\ printed[i] \in Nat
        BY <1>8, <3>2
      <4>2. CASE j \in DOMAIN printed
        BY <3>2, <4>1, <4>2 DEF PrintInv
      <4>3. CASE j \notin DOMAIN printed
        <5>1. printed'[j] = Head(list)
          BY <1>8, <3>2, <4>3
        <5>2. printed[i] <= lastSlot
          BY <4>1 DEF PrintInv
        <5> QED
          BY <2>5, <2>8, <4>1, <5>1, <5>2
      <4> QED
        BY <4>2, <4>3
    <3>6. \A i \in DOMAIN printed' : printed'[i] <= lastSlot'
      BY <1>1, <2>5, <2>8, <3>1, <3>2, <3>4 DEF PrintInv
    <3>7. Firsts' = Firsts
      BY <2>1 DEF Firsts
    <3>8. \A i \in DOMAIN printed' : \E f \in Firsts' : printed'[i] = payloads'[f]
      <4> SUFFICES ASSUME NEW i \in DOMAIN printed'
                   PROVE  \E f \in Firsts : printed'[i] = payloads[f]
        BY <2>1, <3>7
      <4>1. CASE i \in DOMAIN printed
        BY <3>2, <4>1 DEF PrintInv
      <4>2. CASE i \notin DOMAIN printed
        <5>1. printed'[i] = payloads[k + 1]
          BY <1>8, <2>4, <3>2, <4>2
        <5> QED
          BY <3>3, <5>1
      <4> QED
        BY <4>1, <4>2
    <3> QED
      BY <2>7, <3>5, <3>6, <3>8 DEF PrintInv
  <2>9. CASE ~(Head(list) > lastSlot)
    <3>1. UNCHANGED <<printed, lastSlot>>
      BY <1>5, <2>9 DEF PrintNext
    <3> QED
      BY <2>1, <2>7, <3>1 DEF PrintInv, Firsts
  <2> QED
    BY <2>8, <2>9
<1>6. UNCHANGED <<payloads, list, lastSlot, printed>> \/ Fetch \/ PrintNext
      \/ \E s \in Slots : SaveDeliveredPayload(s)
  BY DEF Next, vars, NewReturns, StartReturns, Register, ListVisits, SaveValidatorRegistration,
         ListBegins, ListReturns, Deliver, Probe, ProbeFails, FetchFails, AllPrinted, Exited
<1> QED
  BY <1>2, <1>3, <1>4, <1>5, <1>6

(* Blocks are printed in the order of their slots and each once, whatever  *)
(* the order they are saved in and however often the list is read.         *)
THEOREM InOrder == Spec => []PrintedInOrder
<1>1. PrintInv => PrintedInOrder
  BY DEF PrintInv, PrintedInOrder, Range
<1> QED
  BY <1>1, TypeCorrect, PrintInit, PrintStep, PTL DEF Spec
=============================================================================
