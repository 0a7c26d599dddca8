---------------------------- MODULE InspectProofs ----------------------------
(***************************************************************************)
(* Proofs about Inspect, for any sessions, services and user labels: the   *)
(* types, CaptureIsOfService, StopsItsOwn, and that inspect cleans up.     *)
(***************************************************************************)
EXTENDS Inspect, TLAPS

USE InspectAssumption

-----------------------------------------------------------------------------
(* Labels. *)

\* A container that carries a session's id is that session's.
LEMMA SessionLabel ==
  ASSUME TypeOK, NEW c \in Containers, NEW s \in Sessions, IsOfSession(c, s)
  PROVE  c[1] = s
  BY DEF IsOfSession, Label, OwnLabels, Containers

\* It does so unless the user's labels say otherwise.
LEMMA OwnSessionLabel ==
  ASSUME TypeOK, NEW s \in Sessions, NEW v \in Services, "session" \notin user[s]
  PROVE  IsOfSession(<<s, v>>, s)
  BY DEF IsOfSession, Label, OwnLabels

LEMMA PortValue ==
  ASSUME TypeOK, NEW c \in Containers
  PROVE  Port(c) \subseteq PortValues
  BY DEF Port, Label, OwnLabels, Containers, PortValues

-----------------------------------------------------------------------------
(* The invariant. *)

TargetsInv == \A s \in Sessions : \A c \in targets[s] : c[1] = s

\* What Stop has still to remove is all that runs.
StopInv ==
  \A s \in Sessions :
    (~spared[s] /\ "session" \notin user[s]) =>
      \A v \in Services : container[<<s, v>>] = "running" =>
        /\ stage[s] # "done"
        /\ stage[s] = "stop" => <<s, v>> \in targets[s]

FoundOne == \A c, d \in found : c = d

FoundInv == \A c \in found : Label(c, "service") = asked

CaptureInv ==
  /\ pc = "list" => capture = {}
  /\ \A k \in capture : k.net \in found /\ k.port \in Port(k.net)

IInv == TypeOK /\ TargetsInv /\ StopInv /\ FoundOne /\ FoundInv /\ CaptureInv

LEMMA InvInit == Init => IInv
<1> SUFFICES ASSUME Init PROVE IInv
  OBVIOUS
<1>1. user \in [Sessions -> SUBSET UserKeys]
  BY DEF Init
<1>2. TypeOK
  BY <1>1 DEF Init, TypeOK
<1>3. TargetsInv /\ FoundOne /\ FoundInv /\ CaptureInv
  BY DEF Init, TargetsInv, FoundOne, FoundInv, CaptureInv
<1>4. StopInv
  BY DEF Init, StopInv, Containers
<1> QED
  BY <1>2, <1>3, <1>4 DEF IInv

\* The steps of inspect leave the sessions alone.
LEMMA InspectKeeps ==
  ASSUME IInv, UNCHANGED sessionVars
  PROVE  TargetsInv' /\ StopInv'
  BY DEF IInv, TargetsInv, StopInv, sessionVars

\* The steps of the sessions leave inspect and the user's labels alone.
LEMMA SessionsKeep ==
  ASSUME IInv, UNCHANGED <<user, inspectVars>>
  PROVE  FoundOne' /\ FoundInv' /\ CaptureInv'
  BY DEF IInv, FoundOne, FoundInv, CaptureInv, Label, Port, inspectVars

LEMMA SessionStep ==
  ASSUME IInv, NEW s \in Sessions, SessionSteps(s)
  PROVE  IInv'
<1> USE DEF IInv, inspectVars
<1>0. TypeOK /\ UNCHANGED <<user, shared, inspectVars>>
  BY DEF SessionSteps, ComposeReturns, StopLists, StopReturns, ContainerStarts, StopRemoves,
         StopRemoveFails
<1>1. FoundOne' /\ FoundInv' /\ CaptureInv'
  BY <1>0, SessionsKeep
<1>2. CASE ComposeReturns(s)
  <2>1. stage' = [stage EXCEPT ![s] = "serve"] /\ UNCHANGED <<container, targets, spared>>
    BY <1>2 DEF ComposeReturns
  <2>2. TypeOK'
    BY <1>0, <2>1 DEF TypeOK
  <2>3. \A r \in Sessions : stage'[r] = IF r = s THEN "serve" ELSE stage[r]
    BY <2>1 DEF TypeOK
  <2>4. TargetsInv' /\ StopInv'
    BY <1>0, <2>1, <2>3 DEF TargetsInv, StopInv
  <2> QED
    BY <1>1, <2>2, <2>4
<1>3. CASE StopLists(s)
  <2> DEFINE own == {c \in Containers : container[c] = "running" /\ IsOfSession(c, s)}
  <2>1. /\ stage' = [stage EXCEPT ![s] = "stop"]
        /\ targets' = [targets EXCEPT ![s] = own]
        /\ UNCHANGED <<container, spared>>
    BY <1>3 DEF StopLists
  <2>2. TypeOK'
    BY <1>0, <2>1 DEF TypeOK
  <2>3. /\ \A r \in Sessions : stage'[r] = IF r = s THEN "stop" ELSE stage[r]
        /\ \A r \in Sessions : targets'[r] = IF r = s THEN own ELSE targets[r]
    BY <2>1 DEF TypeOK
  <2>4. TargetsInv'
    <3>1. \A c \in own : c[1] = s
      BY SessionLabel
    <3> HIDE DEF own
    <3> QED
      BY <2>3, <3>1 DEF TargetsInv
  <2>5. ASSUME "session" \notin user[s], NEW v \in Services, container[<<s, v>>] = "running"
        PROVE  <<s, v>> \in own
    BY <2>5, OwnSessionLabel DEF Containers
  <2>6. StopInv'
    <3> HIDE DEF own
    <3> QED
      BY <1>0, <2>1, <2>3, <2>5 DEF StopInv
  <2> QED
    BY <1>1, <2>2, <2>4, <2>6
<1>4. CASE StopReturns(s)
  <2>1. /\ stage[s] = "stop" /\ targets[s] = {}
        /\ stage' = [stage EXCEPT ![s] = "done"]
        /\ UNCHANGED <<container, targets, spared>>
    BY <1>4 DEF StopReturns
  <2>2. TypeOK'
    BY <1>0, <2>1 DEF TypeOK
  <2>3. \A r \in Sessions : stage'[r] = IF r = s THEN "done" ELSE stage[r]
    BY <2>1 DEF TypeOK
  <2>4. TargetsInv' /\ StopInv'
    BY <1>0, <2>1, <2>3 DEF TargetsInv, StopInv
  <2> QED
    BY <1>1, <2>2, <2>4
<1>5. ASSUME NEW v \in Services, ContainerStarts(s, v)
      PROVE  IInv'
  <2>1. stage[s] = "compose" /\ UNCHANGED <<stage, targets, spared>>
    BY <1>5 DEF ContainerStarts
  <2>2. PICK replaced : container' = [Without(replaced) EXCEPT ![<<s, v>>] = "running"]
    BY <1>5 DEF ContainerStarts
  <2>3. /\ container' \in [Containers -> {"none", "running", "exited"}]
        /\ \A c \in Containers : c # <<s, v>> =>
             container'[c] = "none" \/ container'[c] = container[c]
    BY <2>2 DEF Without, TypeOK
  <2>4. TypeOK'
    BY <1>0, <2>1, <2>3 DEF TypeOK
  <2>5. TargetsInv'
    BY <2>1 DEF TargetsInv
  <2>6. StopInv'
    <3> SUFFICES ASSUME NEW r \in Sessions, ~spared[r], "session" \notin user[r],
                        NEW w \in Services, container'[<<r, w>>] = "running"
                 PROVE  stage[r] # "done" /\ (stage[r] = "stop" => <<r, w>> \in targets[r])
      BY <1>0, <2>1 DEF StopInv
    <3>1. CASE r = s
      BY <2>1, <3>1
    <3>2. CASE r # s
      <4>1. <<r, w>> \in Containers /\ <<r, w>> # <<s, v>>
        BY <3>2 DEF Containers
      <4>2. container[<<r, w>>] = "running"
        BY <2>3, <4>1
      <4> QED
        BY <4>2 DEF StopInv
    <3> QED
      BY <3>1, <3>2
  <2> QED
    BY <1>1, <2>4, <2>5, <2>6
<1>6. ASSUME NEW c \in Containers, StopRemoves(s, c)
      PROVE  IInv'
  <2>1. /\ c \in targets[s]
        /\ targets' = [targets EXCEPT ![s] = @ \ {c}]
        /\ container' = Without({c})
        /\ UNCHANGED <<stage, spared>>
    BY <1>6 DEF StopRemoves
  <2>2. \A r \in Sessions : targets'[r] = IF r = s THEN targets[s] \ {c} ELSE targets[r]
    BY <2>1 DEF TypeOK
  <2>3. /\ container' \in [Containers -> {"none", "running", "exited"}]
        /\ \A d \in Containers : container'[d] = IF d = c THEN "none" ELSE container[d]
    BY <2>1 DEF Without, TypeOK
  <2>4. TypeOK'
    BY <1>0, <2>1, <2>3 DEF TypeOK
  <2>5. TargetsInv'
    BY <2>2 DEF TargetsInv
  <2>6. StopInv'
    <3> SUFFICES ASSUME NEW r \in Sessions, ~spared[r], "session" \notin user[r],
                        NEW w \in Services, container'[<<r, w>>] = "running"
                 PROVE  stage[r] # "done" /\ (stage[r] = "stop" => <<r, w>> \in targets'[r])
      BY <1>0, <2>1 DEF StopInv
    <3>1. <<r, w>> # c /\ container[<<r, w>>] = "running"
      BY <2>3 DEF Containers
    <3> QED
      BY <2>2, <3>1 DEF StopInv
  <2> QED
    BY <1>1, <2>4, <2>5, <2>6
<1>7. ASSUME NEW c \in Containers, StopRemoveFails(s, c)
      PROVE  IInv'
  <2>1. /\ targets' = [targets EXCEPT ![s] = @ \ {c}]
        /\ spared' = [spared EXCEPT ![s] = TRUE]
        /\ UNCHANGED <<stage, container>>
    BY <1>7 DEF StopRemoveFails
  <2>2. /\ \A r \in Sessions : targets'[r] = IF r = s THEN targets[s] \ {c} ELSE targets[r]
        /\ \A r \in Sessions : spared'[r] <=> (r = s \/ spared[r])
    BY <2>1 DEF TypeOK
  <2>3. TypeOK'
    BY <1>0, <2>1 DEF TypeOK
  <2>4. TargetsInv' /\ StopInv'
    BY <1>0, <2>1, <2>2 DEF TargetsInv, StopInv
  <2> QED
    BY <1>1, <2>3, <2>4
<1> QED
  BY <1>2, <1>3, <1>4, <1>5, <1>6, <1>7 DEF SessionSteps

\* A container that exits is one less to stop.
LEMMA ExitStep ==
  ASSUME IInv, NEW c \in Containers, ContainerExits(c)
  PROVE  IInv'
<1> USE DEF IInv, inspectVars
<1>0. TypeOK /\ UNCHANGED <<user, shared, stage, targets, spared, inspectVars>>
  BY DEF ContainerExits
<1>1. /\ container' \in [Containers -> {"none", "running", "exited"}]
      /\ \A d \in Containers : container'[d] = IF d = c THEN "exited" ELSE container[d]
  BY DEF ContainerExits, TypeOK
<1>2. TypeOK'
  BY <1>0, <1>1 DEF TypeOK
<1>3. \A r \in Sessions, w \in Services :
        container'[<<r, w>>] = "running" => container[<<r, w>>] = "running"
  BY <1>1 DEF Containers
<1>4. TargetsInv' /\ StopInv'
  BY <1>0, <1>3 DEF TargetsInv, StopInv
<1> QED
  BY <1>0, <1>2, <1>4, SessionsKeep

LEMMA InspectStep ==
  ASSUME IInv, InspectSteps
  PROVE  IInv'
<1> USE DEF Goto, keepsCapture, sessionVars
<1>0. TypeOK /\ UNCHANGED <<asked, cancelled, sessionVars>>
  BY DEF IInv, InspectSteps, List, NoneOrSeveral, Details, RetrieveFails, Create, CreateFails,
         Start, StartFails, Logs, LogsFail, WaitEnds, StopCapture, RemoveCapture,
         RemoveCaptureFails
<1>1. TargetsInv' /\ StopInv'
  BY <1>0, InspectKeeps
<1>2. \A c : (Label(c, "service"))' = Label(c, "service") /\ Port(c)' = Port(c)
  BY <1>0 DEF Label, Port
<1>3. CASE List
  <2>1. PICK c \in Named : found' = {c}
    BY <1>3 DEF List
  <2>2. c \in Containers /\ Label(c, "service") = asked
    BY <2>1 DEF Named, Present
  <2>3. capture' = {} /\ pc' = "details" /\ refused' = refused
    BY <1>3 DEF List, IInv, CaptureInv
  <2>4. TypeOK'
    BY <1>0, <2>1, <2>2, <2>3 DEF TypeOK
  <2>5. FoundOne' /\ FoundInv' /\ CaptureInv'
    BY <1>0, <1>2, <2>1, <2>2, <2>3 DEF FoundOne, FoundInv, CaptureInv
  <2> QED
    BY <1>1, <2>4, <2>5 DEF IInv
<1>4. ASSUME NewCapture, found' = found
      PROVE  /\ \E c \in found, q \in PortValues : capture' = {[net |-> c, port |-> q]}
             /\ \A k \in capture' : k.net \in found /\ k.port \in Port(k.net)
  <2>1. PICK c \in found, q \in UNION {Port(d) : d \in found} :
             capture' = {[net |-> c, port |-> q]}
    BY <1>4 DEF NewCapture
  <2>2. found = {c}
    BY <1>0, <2>1 DEF IInv, FoundOne
  <2>3. q \in Port(c)
    BY <2>1, <2>2
  <2>4. q \in PortValues
    BY <1>0, <2>1, <2>3, PortValue DEF TypeOK
  <2> QED
    BY <2>1, <2>3, <2>4
<1>5. ASSUME ~List
      PROVE  /\ found' = found
             /\ capture' = capture \/ capture' = {} \/ NewCapture
             /\ pc' \in {"details", "create", "start", "logs", "wait", "stop", "remove",
                         "nil", "error"}
             /\ pc' # "error" => pc \notin {"list", "error"}
             /\ refused' \in BOOLEAN
  BY <1>0, <1>5 DEF InspectSteps, TypeOK, NoneOrSeveral, Details, RetrieveFails, Create,
     CreateFails, Start, StartFails, Logs, LogsFail, WaitEnds, StopCapture, RemoveCapture,
     RemoveCaptureFails
<1>6. CASE ~List
  <2>1. TypeOK'
    <3>1. capture' = {} \/ \E c \in found, q \in PortValues : capture' = {[net |-> c, port |-> q]}
      BY <1>0, <1>4, <1>5, <1>6 DEF TypeOK
    <3> QED
      BY <1>0, <1>5, <1>6, <3>1 DEF TypeOK
  <2>2. FoundInv' /\ FoundOne'
    BY <1>0, <1>2, <1>5, <1>6 DEF IInv, FoundInv, FoundOne
  <2>3. CaptureInv'
    BY <1>2, <1>4, <1>5, <1>6 DEF IInv, CaptureInv
  <2> QED
    BY <1>1, <2>1, <2>2, <2>3 DEF IInv
<1> QED
  BY <1>3, <1>6

LEMMA InvStep == IInv /\ [Next]_vars => IInv'
<1> SUFFICES ASSUME IInv, [Next]_vars PROVE IInv'
  OBVIOUS
<1>1. CASE InspectSteps
  BY <1>1, InspectStep
<1>2. CASE Interrupt
  <2>1. UNCHANGED <<asked, pc, found, capture, refused, sessionVars>> /\ cancelled' = TRUE
    BY <1>2 DEF Interrupt, keepsCapture
  <2>2. TypeOK'
    BY <2>1 DEF IInv, TypeOK, sessionVars
  <2>3. FoundInv' /\ FoundOne' /\ CaptureInv'
    BY <2>1 DEF IInv, FoundInv, FoundOne, CaptureInv, Label, Port, sessionVars
  <2> QED
    BY <2>1, <2>2, <2>3, InspectKeeps DEF IInv
<1>3. CASE \E s \in Sessions : SessionSteps(s)
  BY <1>3, SessionStep
<1>4. CASE \E c \in Containers : ContainerExits(c)
  BY <1>4, ExitStep
<1>5. CASE UNCHANGED vars
  <2>1. TypeOK'
    BY <1>5 DEF IInv, TypeOK, vars, sessionVars, inspectVars
  <2>2. UNCHANGED sessionVars /\ UNCHANGED <<user, inspectVars>>
    BY <1>5 DEF vars, sessionVars
  <2> QED
    BY <2>1, <2>2, InspectKeeps, SessionsKeep DEF IInv
<1> QED
  BY <1>1, <1>2, <1>3, <1>4, <1>5 DEF Next

THEOREM Invariance == Spec => []IInv
  BY InvInit, InvStep, PTL DEF Spec

-----------------------------------------------------------------------------
(* Theorems. *)

(* Every variable keeps its type; a capture is of the container found.     *)
THEOREM TypeCorrect == Spec => []TypeOK
<1>1. IInv => TypeOK
  BY DEF IInv
<1> QED
  BY <1>1, Invariance, PTL

(* For any number of sessions and services and any of the user's labels    *)
(* but "service", what is captured is the port of the service asked for.   *)
THEOREM CaptureCorrect == Spec => []CaptureIsOfService
<1>1. IInv => CaptureIsOfService
  <2> SUFFICES ASSUME IInv, NEW k \in capture,
                      \A s \in Sessions : "service" \notin user[s]
               PROVE  k.net[2] = asked /\ (asked \in Exposing => k.port = asked)
    BY DEF CaptureIsOfService
  <2>1. /\ k.net \in Containers
        /\ Label(k.net, "service") = asked
        /\ k.port \in Port(k.net)
    BY DEF IInv, TypeOK, CaptureInv, FoundInv
  <2>2. k.net[1] \in Sessions
    BY <2>1 DEF Containers
  <2>3. k.net[2] = asked
    BY <2>1, <2>2 DEF Label, OwnLabels
  <2> QED
    BY <2>1, <2>3 DEF Port, Label
<1> QED
  BY <1>1, Invariance, PTL

(* For any number of sessions, whatever compose projects they share, Stop  *)
(* removes no container of another, and unless docker refuses or the user  *)
(* relabels them all of its own that run.                                  *)
THEOREM StopCorrect == Spec => []StopsItsOwn
<1>1. IInv => StopsItsOwn
  BY DEF IInv, StopsItsOwn, TargetsInv, StopInv
<1> QED
  BY <1>1, Invariance, PTL

\* What inspect returns without an error, it returns after Ctrl+C, and the capture
\* container is gone or docker has refused to remove it: the end of InterruptCleansUp,
\* reached through "stop" and "remove" only.
LeavesNoCapture ==
  /\ pc \in {"stop", "remove", "nil"} => cancelled
  /\ pc = "nil" => capture = {} \/ refused

(* However inspect comes to return nil, it has been interrupted and has     *)
(* cleaned up: no order of Ctrl+C, of docker's answers and of what sessions *)
(* do leaves the tcpflow container behind (inspect.go:119).                 *)
THEOREM CleanReturn == Spec => []LeavesNoCapture
<1>1. Init => LeavesNoCapture
  BY DEF Init, LeavesNoCapture
<1>2. LeavesNoCapture /\ [Next]_vars => LeavesNoCapture'
  <2> SUFFICES ASSUME LeavesNoCapture, [Next]_vars
               PROVE  LeavesNoCapture'
    OBVIOUS
  <2> USE DEF LeavesNoCapture
  <2>1. CASE InspectSteps
    BY <2>1 DEF InspectSteps, List, NoneOrSeveral, Details, RetrieveFails, Create,
         CreateFails, NewCapture, Start, StartFails, Logs, LogsFail, WaitEnds, StopCapture,
         RemoveCapture, RemoveCaptureFails, Goto, keepsCapture
  <2>2. CASE Interrupt
    BY <2>2 DEF Interrupt, keepsCapture
  <2>3. ASSUME NEW s \in Sessions, SessionSteps(s)
        PROVE  UNCHANGED inspectVars
    BY <2>3 DEF SessionSteps, ComposeReturns, StopLists, StopReturns, ContainerStarts,
         StopRemoves, StopRemoveFails
  <2>4. ASSUME NEW c \in Containers, ContainerExits(c)
        PROVE  UNCHANGED inspectVars
    BY <2>4 DEF ContainerExits
  <2>5. CASE UNCHANGED inspectVars
    BY <2>5 DEF inspectVars
  <2> QED
    BY <2>1, <2>2, <2>3, <2>4, <2>5 DEF Next, vars
<1> QED
  BY <1>1, <1>2, PTL DEF Spec
=============================================================================
