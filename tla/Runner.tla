------------------------------- MODULE Runner -------------------------------
(***************************************************************************)
(* One playground session: the goroutines of main.go's runIt and of the    *)
(* LocalRunner (playground/local_runner.go) from LocalRunner.Run until the *)
(* program returns, together with what they drive.                         *)
(*                                                                         *)
(*   main      runIt: Run, WaitForReady, CompleteReady, the final select,  *)
(*             and LocalRunner.Stop on every way out                       *)
(*   tracker   trackContainerStatusAndLogs, which turns docker events into *)
(*             task statuses and into errors on the exitErr channel        *)
(*   launcher  the goroutine of Run that calls runOnHost for each service  *)
(*             overridden with an executable                               *)
(*   hosts     one goroutine per host service, blocked in cmd.Run          *)
(*   docker    the daemon and `docker compose up -d` (not in src/): starts *)
(*             containers in dependency order, reports start, healthy and  *)
(*             die events to whoever is subscribed                         *)
(*                                                                         *)
(* tasksMtx is held across a step only while the tracker is blocked on a   *)
(* full exitErr; every other critical section is one step.  The session    *)
(* ends when main returns or panics: its goroutines go with it, containers *)
(* and host processes do not.                                              *)
(***************************************************************************)
EXTENDS Integers, Sequences

CONSTANTS
  Services,      \* the services of the manifest
  HostOrder,     \* those with an executable override, in manifest order
  Checked,       \* services with a ReadyCheck
  NeedsRunning,  \* depends_on edges with condition service_started
  NeedsHealthy,  \* depends_on edges with condition service_healthy
  ExtraStops,    \* which of --watchdog and --timeout are given
  ExitCap,       \* capacity of exitErr (2 in the code)
  MaxQueued      \* model bound: no health event is emitted beyond this backlog

Host   == {HostOrder[i] : i \in DOMAIN HostOrder}
Docker == Services \ Host

ASSUME RunnerAssumption ==
  /\ HostOrder \in Seq(Services)
  /\ \A i, j \in DOMAIN HostOrder : HostOrder[i] = HostOrder[j] => i = j
  /\ Checked \subseteq Services
  /\ NeedsRunning \in [Services -> SUBSET Services]
  /\ NeedsHealthy \in [Services -> SUBSET Services]
  /\ ExtraStops \subseteq {"watchdog", "timer"}
  /\ ExitCap \in Nat \ {0}
  /\ MaxQueued \in Nat

VARIABLES
  main,       \* where runIt is
  why,        \* what made runIt call Stop
  result,     \* what runIt returned
  cancelled,  \* ctx is done: SIGINT was delivered
  container,  \* docker: state of each service's container
  health,     \* docker: verdict of each container's health check
  stream,     \* the tracker's event subscription
  events,     \* events the daemon sent that the tracker has not taken
  status,     \* tasks[s].status
  ready,      \* tasks[s].ready
  unsent,     \* the failure the tracker is blocked on sending, with the lock held
  exitErr,    \* contents of the exitErr channel
  launcher,   \* where the launcher goroutine is
  next,       \* index in HostOrder of the service it launches next
  proc,       \* host processes
  reporting,  \* host goroutines that still have to send on exitErr
  handles,    \* LocalRunner.handles
  targets,    \* containers Stop has listed and not finished removing
  toKill,     \* handles the kill loop of Stop has still to visit
  stopErr     \* first kind of error Stop met

ctlVars    == <<main, why, result, cancelled>>
dockerVars == <<container, health>>
taskVars   == <<status, ready, unsent>>
hostVars   == <<launcher, next, proc, handles>>
stopVars   == <<targets, toKill, stopErr>>
vars == <<ctlVars, dockerVars, stream, events, taskVars, exitErr, hostVars,
          reporting, stopVars>>

MainPC == {"compose", "hosts", "poll", "lock", "complete", "serve",
           "list", "remove", "kill", "exited", "panicked"}

TypeOK ==
  /\ main \in MainPC
  /\ why \in {"none", "run", "wait", "ready", "cancel", "service", "watchdog", "timer"}
  /\ result \in {"none", "nil", "error"}
  /\ cancelled \in BOOLEAN
  /\ container \in [Docker -> {"absent", "running", "exited", "removed"}]
  /\ health \in [Docker -> {"starting", "healthy", "unhealthy", "relapsed"}]
  /\ stream \in {"connecting", "open", "broken"}
  /\ events \in Seq(Docker \X {"start", "healthy", "die"})
  /\ status \in [Services -> {"pending", "started", "die"}]
  /\ ready \in [Services -> BOOLEAN]
  /\ unsent \subseteq Services
  /\ exitErr \in Seq(Services)
  /\ Len(exitErr) <= ExitCap
  /\ launcher \in {"off", "launch", "append", "report", "closed"}
  /\ next \in 1 .. Len(HostOrder) + 1
  /\ proc \in [Host -> {"none", "spawned", "running", "failed", "crashed", "exited"}]
  /\ reporting \subseteq Host
  /\ handles \in Seq(Host)
  /\ targets \subseteq Docker
  /\ toKill \in Seq(Host)
  /\ stopErr \in {"none", "list", "remove"}

Init ==
  /\ main = "compose"
  /\ why = "none"
  /\ result = "none"
  /\ cancelled = FALSE
  /\ container = [s \in Docker |-> "absent"]
  /\ health = [s \in Docker |-> "starting"]
  /\ stream = "connecting"
  /\ events = <<>>
  /\ status = [s \in Services |-> "pending"]
  /\ ready = [s \in Services |-> FALSE]
  /\ unsent = {}
  /\ exitErr = <<>>
  /\ launcher = "off"
  /\ next = 1
  /\ proc = [h \in Host |-> "none"]
  /\ reporting = {}
  /\ handles = <<>>
  /\ targets = {}
  /\ toKill = <<>>
  /\ stopErr = "none"

Alive == main \notin {"exited", "panicked"}

-----------------------------------------------------------------------------
(* The docker daemon and compose, as the runner relies on them. *)

\* Only a subscription that is open receives an event (no Since option is given).
Publish(s, action) ==
  events' = IF stream = "open" THEN Append(events, <<s, action>>) ELSE events

\* depends_on: compose starts s once a service_started dependency has been started,
\* whatever became of it since, and a service_healthy one is running and healthy.
DependenciesMet(s) ==
  /\ \A d \in NeedsRunning[s] : d \in Docker /\ container[d] # "absent"
  /\ \A d \in NeedsHealthy[s] :
        d \in Docker /\ container[d] = "running" /\ health[d] = "healthy"

ContainerStarts(s) ==
  /\ main = "compose"
  /\ container[s] = "absent"
  /\ DependenciesMet(s)
  /\ container' = [container EXCEPT ![s] = "running"]
  /\ Publish(s, "start")
  /\ UNCHANGED <<ctlVars, health, stream, taskVars, exitErr, hostVars, reporting, stopVars>>

ContainerDies(s) ==
  /\ Alive
  /\ container[s] = "running"
  /\ container' = [container EXCEPT ![s] = "exited"]
  /\ Publish(s, "die")
  /\ UNCHANGED <<ctlVars, health, stream, taskVars, exitErr, hostVars, reporting, stopVars>>

\* The health check of a running container passes for the first time or again.
ContainerHealthy(s) ==
  /\ Alive
  /\ s \in Checked
  /\ container[s] = "running"
  /\ health[s] # "healthy"
  /\ Len(events) < MaxQueued
  /\ health' = [health EXCEPT ![s] = "healthy"]
  /\ Publish(s, "healthy")
  /\ UNCHANGED <<ctlVars, container, stream, taskVars, exitErr, hostVars, reporting, stopVars>>

\* Its event matches no case of the tracker's switch, so none is queued.  Docker
\* says "unhealthy" of both; "relapsed" remembers that the check has passed before.
ContainerUnhealthy(s) ==
  /\ Alive
  /\ s \in Checked
  /\ container[s] = "running"
  /\ health[s] \in {"starting", "healthy"}
  /\ health' = [health EXCEPT ![s] = IF @ = "healthy" THEN "relapsed" ELSE "unhealthy"]
  /\ UNCHANGED <<ctlVars, container, stream, events, taskVars, exitErr, hostVars,
                 reporting, stopVars>>

-----------------------------------------------------------------------------
(* The tracker. *)

Subscribe ==
  /\ Alive
  /\ stream = "connecting"
  /\ stream' = "open"
  /\ UNCHANGED <<ctlVars, dockerVars, events, taskVars, exitErr, hostVars, reporting, stopVars>>

\* The event stream fails: what was still in transit is cut at some point, and
\* the loop only logs; it never subscribes again.
StreamBreaks ==
  /\ Alive
  /\ stream # "broken"
  /\ stream' = "broken"
  /\ \E n \in 0 .. Len(events) : events' = SubSeq(events, 1, n)
  /\ UNCHANGED <<ctlVars, dockerVars, taskVars, exitErr, hostVars, reporting, stopVars>>

MutexFree == unsent = {}

ChannelFull == Len(exitErr) >= ExitCap

\* Mutant: a die event is sent on without being recorded in tasks.
updateTaskStatusUnrecorded(s, action) ==
  /\ MutexFree
  /\ ready' = IF action = "healthy" THEN [ready EXCEPT ![s] = TRUE] ELSE ready
  /\ status' = IF action = "start" THEN [status EXCEPT ![s] = "started"] ELSE status
  /\ exitErr' = IF action = "die" /\ ~ChannelFull THEN Append(exitErr, s) ELSE exitErr
  /\ unsent' = IF action = "die" /\ ChannelFull THEN {s} ELSE unsent

\* updateTaskStatus for the three events the tracker's switch knows.
updateTaskStatus(s, action) ==
  /\ MutexFree
  /\ IF action = "healthy"
     THEN ready' = [ready EXCEPT ![s] = TRUE] /\ UNCHANGED status
     ELSE /\ status' = [status EXCEPT ![s] = IF action = "die" THEN "die" ELSE "started"]
          /\ UNCHANGED ready
  /\ IF action = "die"
     THEN IF ChannelFull
          THEN unsent' = {s} /\ UNCHANGED exitErr
          ELSE exitErr' = Append(exitErr, s) /\ UNCHANGED unsent
     ELSE UNCHANGED <<unsent, exitErr>>

TrackerTakes ==
  /\ Alive
  /\ events # <<>>
  /\ updateTaskStatus(Head(events)[1], Head(events)[2])
  /\ events' = Tail(events)
  /\ UNCHANGED <<ctlVars, dockerVars, stream, hostVars, reporting, stopVars>>

\* The blocked send goes through and the deferred unlock runs.
TrackerSends ==
  /\ Alive
  /\ ~ChannelFull
  /\ \E s \in unsent : exitErr' = Append(exitErr, s) /\ unsent' = unsent \ {s}
  /\ UNCHANGED <<ctlVars, dockerVars, stream, events, status, ready, hostVars, reporting, stopVars>>

-----------------------------------------------------------------------------
(* LocalRunner.Run after compose, and the goroutines it starts. *)

Stopping(cause) == main' = "list" /\ why' = cause

\* `docker compose up -d` returns success: every container has been started.
ComposeUp ==
  /\ main = "compose"
  /\ \A s \in Docker : container[s] # "absent"
  /\ main' = "hosts"
  /\ launcher' = "launch"
  /\ UNCHANGED <<why, result, cancelled, dockerVars, stream, events, taskVars, exitErr,
                 next, proc, handles, reporting, stopVars>>

\* Generating the compose file, writing it, or compose itself fails.
ComposeFails ==
  /\ main = "compose"
  /\ Stopping("run")
  /\ UNCHANGED <<result, cancelled, dockerVars, stream, events, taskVars, exitErr,
                 hostVars, reporting, stopVars>>

\* runOnHost, first half: the goroutine that calls cmd.Run is spawned ...
Spawn ==
  /\ Alive
  /\ launcher = "launch"
  /\ next <= Len(HostOrder)
  /\ proc' = [proc EXCEPT ![HostOrder[next]] = "spawned"]
  /\ launcher' = "append"
  /\ UNCHANGED <<ctlVars, dockerVars, stream, events, taskVars, exitErr, next, handles,
                 reporting, stopVars>>

\* ... second half: the command is appended to handles, without a lock.
AppendHandle ==
  /\ Alive
  /\ launcher = "append"
  /\ handles' = Append(handles, HostOrder[next])
  /\ next' = next + 1
  /\ launcher' = "launch"
  /\ UNCHANGED <<ctlVars, dockerVars, stream, events, taskVars, exitErr, proc, reporting,
                 stopVars>>

\* runOnHost returns an error before it spawns anything.
SpawnFails ==
  /\ Alive
  /\ launcher = "launch"
  /\ next <= Len(HostOrder)
  /\ launcher' = "report"
  /\ UNCHANGED <<ctlVars, dockerVars, stream, events, taskVars, exitErr, next, proc,
                 handles, reporting, stopVars>>

\* errCh is unbuffered: the error passes only while Run still receives.  Run
\* returns it, and the launcher goes on with the next service.
LaunchError ==
  /\ main = "hosts"
  /\ launcher = "report"
  /\ Stopping("run")
  /\ launcher' = "launch"
  /\ next' = next + 1
  /\ UNCHANGED <<result, cancelled, dockerVars, stream, events, taskVars, exitErr, proc,
                 handles, reporting, stopVars>>

CloseErrCh ==
  /\ Alive
  /\ launcher = "launch"
  /\ next > Len(HostOrder)
  /\ launcher' = "closed"
  /\ UNCHANGED <<ctlVars, dockerVars, stream, events, taskVars, exitErr, next, proc,
                 handles, reporting, stopVars>>

\* Mutant: Run does not wait for the launcher.
RunReturnsEarly ==
  /\ main = "hosts"
  /\ main' = "poll"
  /\ UNCHANGED <<why, result, cancelled, dockerVars, stream, events, taskVars, exitErr,
                 hostVars, reporting, stopVars>>

\* The range over errCh ends and Run returns nil.
RunReturns ==
  /\ main = "hosts"
  /\ launcher = "closed"
  /\ main' = "poll"
  /\ UNCHANGED <<why, result, cancelled, dockerVars, stream, events, taskVars, exitErr,
                 hostVars, reporting, stopVars>>

\* cmd.Run in the goroutine of h: Start succeeds, or fails and leaves Process nil.
HostStarts(h) ==
  /\ Alive
  /\ proc[h] = "spawned"
  /\ \/ proc' = [proc EXCEPT ![h] = "running"] /\ UNCHANGED reporting
     \/ proc' = [proc EXCEPT ![h] = "failed"] /\ reporting' = reporting \cup {h}
  /\ UNCHANGED <<ctlVars, dockerVars, stream, events, taskVars, exitErr, launcher, next,
                 handles, stopVars>>

\* The process ends by itself: only a failure makes cmd.Run return an error.
HostExits(h) ==
  /\ Alive
  /\ proc[h] = "running"
  /\ \/ proc' = [proc EXCEPT ![h] = "exited"] /\ UNCHANGED reporting
     \/ proc' = [proc EXCEPT ![h] = "crashed"] /\ reporting' = reporting \cup {h}
  /\ UNCHANGED <<ctlVars, dockerVars, stream, events, taskVars, exitErr, launcher, next,
                 handles, stopVars>>

HostReports(h) ==
  /\ Alive
  /\ h \in reporting
  /\ ~ChannelFull
  /\ exitErr' = Append(exitErr, h)
  /\ reporting' = reporting \ {h}
  /\ UNCHANGED <<ctlVars, dockerVars, stream, events, taskVars, hostVars, stopVars>>

-----------------------------------------------------------------------------
(* runIt after Run: WaitForReady, CompleteReady and the final select. *)

mainKeeps == <<result, cancelled, dockerVars, stream, events, taskVars, hostVars,
               reporting, stopVars>>

\* Mutants: health is not asked for; the status is not looked at; host services
\* are not skipped.
AreReadyStartedOnly == \A s \in Docker : status[s] = "started"

AreReadyFlagOnly == \A s \in Docker : s \in Checked => ready[s]

AreReadyHostsToo ==
  \A s \in Services : status[s] = "started" /\ (s \in Checked => ready[s])

AreReady ==
  \A s \in Docker : status[s] = "started" /\ (s \in Checked => ready[s])

\* WaitForReady: a second passes with neither channel of its select ready (a
\* ready one wakes the select at once); AreReady then needs the lock.
PollTimer ==
  /\ main = "poll"
  /\ ~cancelled
  /\ exitErr = <<>>
  /\ main' = "lock"
  /\ UNCHANGED <<why, exitErr, mainKeeps>>

CheckReady ==
  /\ main = "lock"
  /\ MutexFree
  /\ main' = IF AreReady THEN "complete" ELSE "poll"
  /\ UNCHANGED <<why, exitErr, mainKeeps>>

\* Mutant: the case only breaks out of the select.
PollCancelledBreaks ==
  /\ main = "poll"
  /\ cancelled
  /\ UNCHANGED <<main, why, exitErr, mainKeeps>>

PollCancelled ==
  /\ main = "poll"
  /\ cancelled
  /\ Stopping("wait")
  /\ UNCHANGED <<exitErr, mainKeeps>>

\* Mutant: the error is received, logged and forgotten.
PollFailureLogged ==
  /\ main = "poll"
  /\ exitErr # <<>>
  /\ exitErr' = Tail(exitErr)
  /\ UNCHANGED <<main, why, mainKeeps>>

PollFailure ==
  /\ main = "poll"
  /\ exitErr # <<>>
  /\ exitErr' = Tail(exitErr)
  /\ Stopping("wait")
  /\ UNCHANGED mainKeeps

\* CompleteReady: every component's Ready hook runs, neither ctx nor exitErr is
\* looked at meanwhile.
CompleteReady ==
  /\ main = "complete"
  /\ main' = "serve"
  /\ UNCHANGED <<why, exitErr, mainKeeps>>

CompleteReadyFails ==
  /\ main = "complete"
  /\ Stopping("ready")
  /\ UNCHANGED <<exitErr, mainKeeps>>

ServeCancelled ==
  /\ main = "serve"
  /\ cancelled
  /\ Stopping("cancel")
  /\ UNCHANGED <<exitErr, mainKeeps>>

\* Mutant: the same for the final select.
ServeFailureLogged ==
  /\ main = "serve"
  /\ exitErr # <<>>
  /\ exitErr' = Tail(exitErr)
  /\ UNCHANGED <<main, why, mainKeeps>>

ServeFailure ==
  /\ main = "serve"
  /\ exitErr # <<>>
  /\ exitErr' = Tail(exitErr)
  /\ Stopping("service")
  /\ UNCHANGED mainKeeps

ServeExtraStop ==
  /\ main = "serve"
  /\ \E cause \in ExtraStops : Stopping(cause)
  /\ UNCHANGED <<exitErr, mainKeeps>>

\* SIGINT: the signal goroutine cancels ctx, once.
Interrupt ==
  /\ Alive
  /\ ~cancelled
  /\ cancelled' = TRUE
  /\ UNCHANGED <<main, why, result, dockerVars, stream, events, taskVars, exitErr,
                 hostVars, reporting, stopVars>>

-----------------------------------------------------------------------------
(* LocalRunner.Stop and the return of runIt. *)

\* runIt reports what made Run, WaitForReady or CompleteReady fail whatever Stop
\* says; after the final select only an error of Stop makes it return one.
Return(err) ==
  /\ main' = "exited"
  /\ result' = IF why \in {"run", "wait", "ready"} \/ err # "none" THEN "error" ELSE "nil"

ListFails ==
  /\ main = "list"
  /\ stopErr' = "list"
  /\ Return("list")
  /\ UNCHANGED <<why, cancelled, dockerVars, stream, events, taskVars, exitErr, hostVars,
                 reporting, targets, toKill>>

\* ContainerList without All: the running containers of this session.
ListContainers ==
  /\ main = "list"
  /\ targets' = {s \in Docker : container[s] = "running"}
  /\ main' = "remove"
  /\ UNCHANGED <<why, result, cancelled, dockerVars, stream, events, taskVars, exitErr,
                 hostVars, reporting, toKill, stopErr>>

\* Force removal kills a container that still runs, in parallel for all targets.
RemoveContainer(s) ==
  /\ main = "remove"
  /\ s \in targets
  /\ targets' = targets \ {s}
  /\ container' = [container EXCEPT ![s] = "removed"]
  /\ IF container[s] = "running" THEN Publish(s, "die") ELSE UNCHANGED events
  /\ UNCHANGED <<ctlVars, health, stream, taskVars, exitErr, hostVars, reporting, toKill,
                 stopErr>>

RemoveFails(s) ==
  /\ main = "remove"
  /\ s \in targets
  /\ targets' = targets \ {s}
  /\ stopErr' = "remove"
  /\ UNCHANGED <<ctlVars, dockerVars, stream, events, taskVars, exitErr, hostVars,
                 reporting, toKill>>

\* Mutant: wg.Wait is missing.
RemovalsDoneNoWait ==
  /\ main = "remove"
  /\ toKill' = handles
  /\ main' = "kill"
  /\ UNCHANGED <<why, result, cancelled, dockerVars, stream, events, taskVars, exitErr,
                 hostVars, reporting, targets, stopErr>>

\* wg.Wait returns; range evaluates d.handles once.
RemovalsDone ==
  /\ main = "remove"
  /\ targets = {}
  /\ toKill' = handles
  /\ main' = "kill"
  /\ UNCHANGED <<why, result, cancelled, dockerVars, stream, events, taskVars, exitErr,
                 hostVars, reporting, targets, stopErr>>

\* handle.Process.Kill(): Process is nil until Start has succeeded.
KillHandle ==
  /\ main = "kill"
  /\ toKill # <<>>
  /\ proc[Head(toKill)] \notin {"spawned", "failed"}
  /\ IF proc[Head(toKill)] = "running"
     THEN /\ proc' = [proc EXCEPT ![Head(toKill)] = "crashed"]
          /\ reporting' = reporting \cup {Head(toKill)}
     ELSE UNCHANGED <<proc, reporting>>
  /\ toKill' = Tail(toKill)
  /\ UNCHANGED <<ctlVars, dockerVars, stream, events, taskVars, exitErr, launcher, next,
                 handles, targets, stopErr>>

KillPanics ==
  /\ main = "kill"
  /\ toKill # <<>>
  /\ proc[Head(toKill)] \in {"spawned", "failed"}
  /\ main' = "panicked"
  /\ result' = "error"
  /\ UNCHANGED <<why, cancelled, dockerVars, stream, events, taskVars, exitErr, hostVars,
                 reporting, stopVars>>

StopReturns ==
  /\ main = "kill"
  /\ toKill = <<>>
  /\ Return(stopErr)
  /\ UNCHANGED <<why, cancelled, dockerVars, stream, events, taskVars, exitErr, hostVars,
                 reporting, stopVars>>

\* The program is gone.
Ended == ~Alive /\ UNCHANGED vars

-----------------------------------------------------------------------------
Compose == ComposeUp \/ ComposeFails

Launcher == Spawn \/ AppendHandle \/ SpawnFails \/ LaunchError \/ CloseErrCh

Tracker == Subscribe \/ TrackerTakes \/ TrackerSends

HostGoroutine(h) == HostStarts(h) \/ HostExits(h) \/ HostReports(h)

\* What Stop does once it runs, in the order the code does it.
StopSteps ==
  \/ ListFails \/ ListContainers
  \/ \E s \in Docker : RemoveContainer(s) \/ RemoveFails(s)
  \/ RemovalsDone \/ KillHandle \/ KillPanics \/ StopReturns

Select ==
  \/ RunReturns \/ PollTimer \/ CheckReady \/ PollCancelled \/ PollFailure
  \/ CompleteReady \/ CompleteReadyFails
  \/ ServeCancelled \/ ServeFailure

\* What happens when it likes, or never.
Environment ==
  \/ \E s \in Docker : \/ ContainerStarts(s) \/ ContainerDies(s)
                       \/ ContainerHealthy(s) \/ ContainerUnhealthy(s)
  \/ StreamBreaks
  \/ Interrupt
  \/ ServeExtraStop

Next ==
  \/ Environment
  \/ Compose
  \/ Select
  \/ StopSteps
  \/ Tracker
  \/ Launcher
  \/ \E h \in Host : HostGoroutine(h)
  \/ Ended

Spec == Init /\ [][Next]_vars

\* Every goroutine keeps running; compose, the docker calls and the Ready hooks
\* return.  Nothing is assumed of the environment: containers and host processes
\* need not die, become healthy or be interrupted.
Fairness ==
  /\ WF_vars(\E s \in Docker : ContainerStarts(s))
  /\ WF_vars(Compose)
  /\ WF_vars(Select)
  /\ WF_vars(StopSteps)
  /\ WF_vars(Subscribe)
  /\ WF_vars(TrackerTakes)
  /\ WF_vars(TrackerSends)
  /\ WF_vars(Launcher)
  /\ \A h \in Host : WF_vars(HostStarts(h)) /\ WF_vars(HostReports(h))

FairSpec == Spec /\ Fairness

-----------------------------------------------------------------------------
(* Safety. *)

\* The health check of s has passed at some time.
WasHealthy(s) == health[s] \in {"healthy", "relapsed"}

\* runIt has not called Stop yet.
Running == main \in {"compose", "hosts", "poll", "lock", "complete", "serve"}

\* runIt got past WaitForReady.
PassedReady ==
  \/ main \in {"complete", "serve"}
  \/ why \in {"ready", "cancel", "service", "watchdog", "timer"}

Gone(s) == container[s] \in {"exited", "removed"}

Queued(s, action) == \E i \in DOMAIN events : events[i] = <<s, action>>

HostDead(h) == proc[h] \in {"failed", "crashed", "exited"}

(* WaitForReady (local_runner.go:345) lets runIt through only when every    *)
(* container has really been started and every container with a ReadyCheck *)
(* has really been healthy, although it only sees the tasks map the        *)
(* tracker fills from a stream that is late, lossy and may break.          *)
ServingWasReady ==
  PassedReady =>
    \A s \in Docker : container[s] # "absent" /\ (s \in Checked => WasHealthy(s))

(* While the subscription is open, a service the tasks map shows as started *)
(* is running, or its die event is on its way: no order of the tracker's    *)
(* updates leaves a dead container "started" for good.                      *)
DeathIsNoticed ==
  stream = "open" =>
    \A s \in Docker : (status[s] = "started" /\ Gone(s)) => Queued(s, "die")

(* A death the tracker has recorded stays pending on exitErr (in the        *)
(* channel, or in the blocked send) until runIt takes a failure and stops.  *)
FailurePending ==
  (Running /\ \E s \in Docker : status[s] = "die") => (exitErr # <<>> \/ unsent # {})

(* Stop's list is a snapshot, yet once every removal has succeeded no       *)
(* container of the session runs: also when compose failed half way, when   *)
(* containers die during the removal, and when the kill loop panics.        *)
NoContainerOutlivesStop ==
  (main \in {"kill", "exited", "panicked"} /\ stopErr = "none") =>
    \A s \in Docker : container[s] # "running"

(* A readiness check that passes is not based on stale news: at that moment *)
(* every container runs, or its death is still on its way to the tracker.   *)
VerdictIsCurrent ==
  [][(main = "lock" /\ main' = "complete" /\ stream = "open") =>
       \A s \in Docker : container[s] = "running" \/ Queued(s, "die")]_vars

(* When runIt returns nil nothing of the session is left running: neither a *)
(* container nor a host process, whatever ended the session.                *)
CleanExit ==
  result = "nil" =>
    /\ \A s \in Docker : container[s] # "running"
    /\ \A h \in Host : HostDead(h)

-----------------------------------------------------------------------------
(* Liveness. *)

(* Ctrl+C ends the session, whatever runIt is doing.                        *)
CtrlCStops == cancelled ~> ~Alive

(* A death docker has reported ends the session, unless the event stream    *)
(* itself breaks first: the error is not lost between the tracker, the      *)
(* channel and whichever select runIt is in or heading for.                 *)
(* So does the failure of a host process, including one that never started. *)
FailureEndsSession ==
  /\ \A s \in Docker : Queued(s, "die") ~> (~Alive \/ stream = "broken")
  /\ \A h \in Host : (h \in reporting) ~> ~Alive

(* When the tasks map says that all containers are started and healthy,     *)
(* WaitForReady does not wait for ever, host services (which never leave    *)
(* "pending") notwithstanding.                                              *)
ReadinessIsNoticed ==
  (main = "poll" /\ \A s \in Docker : status[s] = "started" /\ (s \in Checked => ready[s]))
    ~> main \notin {"poll", "lock"}

=============================================================================
