------------------------------- MODULE Inspect -------------------------------
(***************************************************************************)
(* `playground inspect <service> <port>` (playground/inspect.go) beside    *)
(* the sessions it looks into.  Everything the program tells containers    *)
(* apart by is a label: the session's filter when it stops, the service    *)
(* and the port when one is inspected.  toDockerComposeService             *)
(* (playground/local_runner.go) puts the labels of --labels over its own   *)
(* and those of the ports over all.                                        *)
(*                                                                         *)
(* A container is <<session, service>>.  compose names its project after   *)
(* the output directory: sessions that use directories of the same name    *)
(* replace each other's containers.                                        *)
(***************************************************************************)
EXTENDS Naturals

CONSTANTS
  Sessions,   \* their ids
  Labelled,   \* those given --labels
  Services,   \* the services each of them runs
  Exposing,   \* those that have a port of the name asked for
  Custom      \* the value of the user's labels

ASSUME InspectAssumption ==
  /\ Labelled \subseteq Sessions
  /\ Exposing \subseteq Services
  /\ Custom \notin Sessions \cup Services

VARIABLES
  user,       \* by session: the keys --labels sets
  shared,     \* the sessions have the same compose project
  stage,      \* by session: where it is
  container,  \* by container: how docker has it
  targets,    \* by session: what its Stop has listed
  spared,     \* by session: docker failed to remove one of them
  asked,      \* the service named on the command line of inspect
  pc,         \* where inspect is
  cancelled,  \* its ctx is done
  found,      \* {} or the container it has found
  capture,    \* the tcpflow container: {} or [net, port]
  refused     \* docker failed to remove it

sessionVars == <<user, shared, stage, container, targets, spared>>
inspectVars == <<asked, pc, cancelled, found, capture, refused>>
vars == <<sessionVars, inspectVars>>

Containers == Sessions \X Services
PortValues == Services \cup {Custom}
UserKeys   == {"session", "service", "port"}

TypeOK ==
  /\ user \in [Sessions -> SUBSET UserKeys]
  /\ shared \in BOOLEAN
  /\ stage \in [Sessions -> {"compose", "serve", "stop", "done"}]
  /\ container \in [Containers -> {"none", "running", "exited"}]
  /\ targets \in [Sessions -> SUBSET Containers]
  /\ spared \in [Sessions -> BOOLEAN]
  /\ asked \in Services \cup {Custom}
  /\ pc \in {"list", "details", "create", "start", "logs", "wait", "stop", "remove",
             "nil", "error"}
  /\ cancelled \in BOOLEAN
  /\ found \subseteq Containers
  /\ pc \notin {"list", "error"} => found # {}
  /\ capture = {} \/ \E c \in found, p \in PortValues : capture = {[net |-> c, port |-> p]}
  /\ refused \in BOOLEAN

Init ==
  /\ \E keys \in {{}} \cup {{k} : k \in UserKeys} :
        user = [s \in Sessions |-> IF s \in Labelled THEN keys ELSE {}]
  /\ shared \in BOOLEAN
  /\ stage = [s \in Sessions |-> "compose"]
  /\ container = [c \in Containers |-> "none"]
  /\ targets = [s \in Sessions |-> {}]
  /\ spared = [s \in Sessions |-> FALSE]
  /\ asked \in Services \cup {Custom}
  /\ pc = "list"
  /\ cancelled = FALSE
  /\ found = {}
  /\ capture = {}
  /\ refused = FALSE

-----------------------------------------------------------------------------
(* Labels. *)

\* What the program writes itself, "" for no label; session is playground.session.
OwnLabels(c) == [playground |-> "true", session |-> c[1], service |-> c[2], port |-> ""]

\* Mutant: the user's labels come last.
LabelUserLast(c, key) ==
  IF key \in user[c[1]] THEN Custom
  ELSE IF key = "port" /\ c[2] \in Exposing THEN c[2] ELSE OwnLabels(c)[key]

\* The number of a port is known by the service that has it.
Label(c, key) ==
  IF key = "port" /\ c[2] \in Exposing THEN c[2]
  ELSE IF key \in user[c[1]] THEN Custom ELSE OwnLabels(c)[key]

\* Mutant: every playground container, as long as only one session is thought of.
IsOfSessionAny(c, s) == Label(c, "playground") = "true"

\* The filter of Stop, and of the tracker's events.
IsOfSession(c, s) == Label(c, "session") = s

-----------------------------------------------------------------------------
(* Sessions. *)

Present == {c \in Containers : container[c] # "none"}

Without(cs) == [c \in Containers |-> IF c \in cs THEN "none" ELSE container[c]]

ContainerStarts(s, v) ==
  /\ stage[s] = "compose"
  /\ container[<<s, v>>] = "none"
  /\ LET replaced == IF shared THEN Sessions \X {v} ELSE {}
     IN container' = [Without(replaced) EXCEPT ![<<s, v>>] = "running"]
  /\ UNCHANGED <<user, shared, stage, targets, spared, inspectVars>>

ContainerExits(c) ==
  /\ container[c] = "running"
  /\ container' = [container EXCEPT ![c] = "exited"]
  /\ UNCHANGED <<user, shared, stage, targets, spared, inspectVars>>

ComposeReturns(s) ==
  /\ stage[s] = "compose"
  /\ stage' = [stage EXCEPT ![s] = "serve"]
  /\ UNCHANGED <<user, shared, container, targets, spared, inspectVars>>

\* ContainerList without All: running containers only.
StopLists(s) ==
  /\ stage[s] = "serve"
  /\ stage' = [stage EXCEPT ![s] = "stop"]
  /\ targets' = [targets EXCEPT ![s] =
       {c \in Containers : container[c] = "running" /\ IsOfSession(c, s)}]
  /\ UNCHANGED <<user, shared, container, spared, inspectVars>>

StopRemoves(s, c) ==
  /\ c \in targets[s]
  /\ targets' = [targets EXCEPT ![s] = @ \ {c}]
  /\ container' = Without({c})
  /\ UNCHANGED <<user, shared, stage, spared, inspectVars>>

StopRemoveFails(s, c) ==
  /\ c \in targets[s]
  /\ targets' = [targets EXCEPT ![s] = @ \ {c}]
  /\ spared' = [spared EXCEPT ![s] = TRUE]
  /\ UNCHANGED <<user, shared, stage, container, inspectVars>>

StopReturns(s) ==
  /\ stage[s] = "stop"
  /\ targets[s] = {}
  /\ stage' = [stage EXCEPT ![s] = "done"]
  /\ UNCHANGED <<user, shared, container, targets, spared, inspectVars>>

-----------------------------------------------------------------------------
(* inspect. *)

Goto(to) == pc' = to /\ UNCHANGED <<asked, cancelled, sessionVars>>

keepsCapture == <<found, capture, refused>>

Interrupt ==
  /\ pc \notin {"nil", "error"}
  /\ ~cancelled
  /\ cancelled' = TRUE
  /\ UNCHANGED <<asked, pc, keepsCapture, sessionVars>>

\* Exited containers are listed as well.
Named == {c \in Present : Label(c, "service") = asked}

List ==
  /\ pc = "list"
  /\ LET named == Named IN \E c \in named : named = {c} /\ found' = {c}
  /\ Goto("details")
  /\ UNCHANGED <<capture, refused>>

NoneOrSeveral ==
  /\ pc = "list"
  /\ LET named == Named IN \A c \in named : named # {c}
  /\ Goto("error")
  /\ UNCHANGED keepsCapture

Port(c) == {Label(c, "port")} \ {""}

Details ==
  /\ pc = "details"
  /\ found \subseteq Present
  /\ \A c \in found : Port(c) # {}
  /\ Goto("create")
  /\ UNCHANGED keepsCapture

\* A call to docker fails, the container is gone or has no such port label.
RetrieveFails ==
  /\ pc \in {"list", "details"}
  /\ Goto("error")
  /\ UNCHANGED keepsCapture

NewCapture ==
  \E c \in found, p \in UNION {Port(c) : c \in found} :
     capture' = {[net |-> c, port |-> p]}

Create ==
  /\ pc = "create"
  /\ ~cancelled
  /\ NewCapture
  /\ Goto("start")
  /\ UNCHANGED <<found, refused>>

\* The image is missing, or ctx was done: before docker acted or after.
CreateFails ==
  /\ pc = "create"
  /\ UNCHANGED capture \/ (cancelled /\ NewCapture)
  /\ Goto("error")
  /\ UNCHANGED <<found, refused>>

\* It joins the network of a container that has to run.
Start ==
  /\ pc = "start"
  /\ ~cancelled
  /\ \A c \in found : container[c] = "running"
  /\ Goto("logs")
  /\ UNCHANGED keepsCapture

StartFails ==
  /\ pc = "start"
  /\ Goto("error")
  /\ UNCHANGED keepsCapture

Logs ==
  /\ pc = "logs"
  /\ ~cancelled
  /\ Goto("wait")
  /\ UNCHANGED keepsCapture

LogsFail ==
  /\ pc = "logs"
  /\ Goto("error")
  /\ UNCHANGED keepsCapture

WaitEnds ==
  /\ pc = "wait"
  /\ cancelled
  /\ Goto("stop")
  /\ UNCHANGED keepsCapture

\* It succeeds or prints an error: the forced removal does not depend on it.
StopCapture ==
  /\ pc = "stop"
  /\ Goto("remove")
  /\ UNCHANGED keepsCapture

\* Mutant: without Force, and with the ctx that is done.
RemoveCaptureWithCtx ==
  /\ pc = "remove"
  /\ IF cancelled THEN UNCHANGED capture ELSE capture' = {}
  /\ Goto("nil")
  /\ UNCHANGED <<found, refused>>

RemoveCapture ==
  /\ pc = "remove"
  /\ capture' = {}
  /\ Goto("nil")
  /\ UNCHANGED <<found, refused>>

RemoveCaptureFails ==
  /\ pc = "remove"
  /\ refused' = TRUE
  /\ Goto("nil")
  /\ UNCHANGED <<found, capture>>

-----------------------------------------------------------------------------
InspectSteps ==
  \/ List \/ NoneOrSeveral \/ Details \/ RetrieveFails
  \/ Create \/ CreateFails \/ Start \/ StartFails \/ Logs \/ LogsFail
  \/ WaitEnds \/ StopCapture \/ RemoveCapture \/ RemoveCaptureFails

SessionSteps(s) ==
  \/ ComposeReturns(s) \/ StopLists(s) \/ StopReturns(s)
  \/ \E v \in Services : ContainerStarts(s, v)
  \/ \E c \in Containers : StopRemoves(s, c) \/ StopRemoveFails(s, c)

Next ==
  \/ InspectSteps \/ Interrupt
  \/ \E s \in Sessions : SessionSteps(s)
  \/ \E c \in Containers : ContainerExits(c)

Spec == Init /\ [][Next]_vars

\* The calls to docker return; nothing is assumed of users, containers, sessions.
FairSpec == Spec /\ WF_vars(InspectSteps)

-----------------------------------------------------------------------------
(* Properties. *)

(* What is captured is the port of the service that was asked for: however *)
(* many sessions there are and whatever labels the user adds, short of     *)
(* naming one "service" or a port a service does not have.                 *)
CaptureIsOfService ==
  \A k \in capture :
    (\A s \in Sessions : "service" \notin user[s]) =>
      /\ k.net[2] = asked
      /\ asked \in Exposing => k.port = asked

(* Stop removes the containers of its own session, of nobody else's: "only *)
(* stop the containers that belong to this session" (local_runner.go:386). *)
(* And all of them that ran: none outlives a Stop that met no error, with  *)
(* any user labels but one that replaces playground.session.               *)
StopsItsOwn ==
  \A s \in Sessions :
    /\ \A c \in targets[s] : c[1] = s
    /\ (stage[s] = "done" /\ ~spared[s] /\ "session" \notin user[s]) =>
         \A v \in Services : container[<<s, v>>] # "running"

(* Ctrl+C ends inspect wherever it is, and unless that is with an error the *)
(* capture container is gone or docker refused to remove it: the ctx that  *)
(* ended the wait does not cut the clean-up short (inspect.go:119).        *)
InterruptCleansUp == cancelled ~> (pc = "error" \/ (pc = "nil" /\ (capture = {} \/ refused)))
=============================================================================
