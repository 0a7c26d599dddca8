---------------------------- MODULE RunnerProofs ----------------------------
(***************************************************************************)
(* For every set of services, dependency relation, channel capacity and    *)
(* order of host services: the safety properties of Runner.                *)
(*                                                                         *)
(* The inductive invariant Inv adds to the properties what they lean on:   *)
(* that events and tasks are truthful (ReadyCorrect), that a start comes   *)
(* before its die and nothing is seen before the subscription              *)
(* (DeathNoticed), that Stop's list covers what runs (StopCleans), and     *)
(* that handles, in launch order, cover the host services once Run has     *)
(* returned (NilIsClean).                                                  *)
(*                                                                         *)
(* With Inv every step is shown to be one of Session or none (Implements). *)
(* The display, which runs beside all this, has an invariant of its own.   *)
(***************************************************************************)
EXTENDS Display, SequenceTheorems, TLAPS

\* Names in HostOrder are services of the manifest.
LEMMA HostFacts == /\ Host \subseteq Services
                   /\ Docker \subseteq Services
                   /\ Len(HostOrder) \in Nat
                   /\ \A i \in 1 .. Len(HostOrder) : HostOrder[i] \in Host
BY RunnerAssumption DEF Host, Docker

\* What Append does to the length and the elements of a sequence.
LEMMA AppendFacts ==
  ASSUME NEW Values, NEW q \in Seq(Values), NEW e \in Values
  PROVE  /\ Append(q, e) \in Seq(Values)
         /\ Len(q) \in Nat
         /\ Len(Append(q, e)) = Len(q) + 1
         /\ \A i \in 1 .. Len(q) : Append(q, e)[i] = q[i]
         /\ Append(q, e)[Len(q) + 1] = e
BY AppendProperties, LenProperties

\* The launcher is at a service of HostOrder while it appends or reports.
LauncherInRange == launcher \in {"append", "report"} => next \in 1 .. Len(HostOrder)


\* The daemon's queue after one more event: the old ones keep their places.
LEMMA EventFacts ==
  ASSUME TypeOK, NEW s \in Docker, NEW a \in {"start", "healthy", "die"}
  PROVE  /\ <<s, a>> \in Docker \X {"start", "healthy", "die"}
         /\ DOMAIN events = 1 .. Len(events)
         /\ Len(events) \in Nat
         /\ Append(events, <<s, a>>) \in Seq(Docker \X {"start", "healthy", "die"})
         /\ DOMAIN Append(events, <<s, a>>) = 1 .. Len(events) + 1
         /\ \A i \in DOMAIN events : Append(events, <<s, a>>)[i] = events[i]
         /\ Append(events, <<s, a>>)[Len(events) + 1] = <<s, a>>
<1>1. <<s, a>> \in Docker \X {"start", "healthy", "die"}
  OBVIOUS
<1>2. events \in Seq(Docker \X {"start", "healthy", "die"})
  BY DEF TypeOK
<1>3. DOMAIN events = 1 .. Len(events) /\ Len(events) \in Nat
  BY <1>2, LenProperties
<1>4. DOMAIN Append(events, <<s, a>>) = 1 .. Len(events) + 1
  BY <1>1, <1>2, AppendProperties
<1> QED
  BY <1>1, <1>2, <1>3, <1>4, AppendFacts

\* Taking an event off the queue shifts the others by one.
LEMMA HeadTail ==
  ASSUME TypeOK, events # <<>>
  PROVE  /\ Head(events) = events[1]
         /\ 1 \in DOMAIN events
         /\ events[1] \in Docker \X {"start", "healthy", "die"}
         /\ DOMAIN events = 1 .. Len(events)
         /\ DOMAIN Tail(events) = 1 .. Len(events) - 1
         /\ Len(events) \in Nat \ {0}
         /\ \A i \in DOMAIN Tail(events) : i + 1 \in DOMAIN events /\ Tail(events)[i] = events[i + 1]
<1>1. events \in Seq(Docker \X {"start", "healthy", "die"})
  BY DEF TypeOK
<1>2. Len(events) \in Nat \ {0} /\ DOMAIN events = 1 .. Len(events)
  BY <1>1, EmptySeq, LenProperties
<1> QED
  BY <1>1, <1>2, HeadTailProperties

\* exitErr stays a sequence within its capacity when it is sent to or received from.
LEMMA FailureSeq ==
  ASSUME TypeOK
  PROVE  /\ exitErr # <<>> => Tail(exitErr) \in Seq(Services) /\ Len(Tail(exitErr)) <= ExitCap
         /\ \A s \in Services : ~ChannelFull =>
              Append(exitErr, s) \in Seq(Services) /\ Len(Append(exitErr, s)) <= ExitCap
<1>1. exitErr \in Seq(Services) /\ Len(exitErr) <= ExitCap /\ ExitCap \in Nat
  BY RunnerAssumption DEF TypeOK
<1>2. exitErr # <<>> => Tail(exitErr) \in Seq(Services) /\ Len(Tail(exitErr)) <= ExitCap
  BY <1>1, HeadTailProperties, LenProperties
<1>3. \A s \in Services :
        /\ Append(exitErr, s) \in Seq(Services)
        /\ Len(Append(exitErr, s)) = Len(exitErr) + 1
        /\ Len(exitErr) \in Nat
  BY <1>1, AppendFacts
<1> QED
  BY <1>1, <1>2, <1>3 DEF ChannelFull

\* No step breaks a type; one case per action of Next.
LEMMA TypeStep ==
  ASSUME TypeOK, LauncherInRange, [Next]_vars
  PROVE  TypeOK'
<1> USE HostFacts DEF TypeOK, ctlVars, dockerVars, taskVars, hostVars, stopVars, mainKeeps, MainPC
<1>1. ASSUME NEW s \in Docker, ContainerStarts(s) PROVE TypeOK'
  BY <1>1 DEF ContainerStarts, Publish
<1>2. ASSUME NEW s \in Docker, ContainerDies(s) PROVE TypeOK'
  BY <1>2 DEF ContainerDies, Publish
<1>3. ASSUME NEW s \in Docker, ContainerHealthy(s) PROVE TypeOK'
  BY <1>3 DEF ContainerHealthy, Publish
<1>4. ASSUME NEW s \in Docker, ContainerUnhealthy(s) PROVE TypeOK'
  BY <1>4 DEF ContainerUnhealthy
<1>5. CASE StreamBreaks
  BY <1>5 DEF StreamBreaks
<1>6. CASE Interrupt
  BY <1>6 DEF Interrupt
<1>7. CASE ServeExtraStop
  BY <1>7, RunnerAssumption DEF ServeExtraStop, Stopping
<1>8. CASE ComposeUp
  BY <1>8 DEF ComposeUp
<1>9. CASE ComposeFails
  BY <1>9 DEF ComposeFails, Stopping
<1>10. CASE RunReturns
  BY <1>10 DEF RunReturns
<1>11. CASE PollTimer
  BY <1>11 DEF PollTimer
<1>12. CASE CheckReady
  BY <1>12 DEF CheckReady
<1>13. CASE PollCancelled
  BY <1>13 DEF PollCancelled, Stopping
<1>14. CASE PollFailure
  BY <1>14, FailureSeq DEF PollFailure, Stopping
<1>15. CASE CompleteReady
  BY <1>15 DEF CompleteReady
<1>16. CASE CompleteReadyFails
  BY <1>16 DEF CompleteReadyFails, Stopping
<1>17. CASE ServeCancelled
  BY <1>17 DEF ServeCancelled, Stopping
<1>18. CASE ServeFailure
  BY <1>18, FailureSeq DEF ServeFailure, Stopping
<1>19. CASE ListFails
  BY <1>19 DEF ListFails, Return
<1>20. CASE ListContainers
  BY <1>20 DEF ListContainers
<1>21. ASSUME NEW s \in Docker, RemoveContainer(s) PROVE TypeOK'
  <2>1. events' = events \/ events' = Append(events, <<s, "die">>)
    BY <1>21 DEF RemoveContainer, Publish
  <2>2. container' \in [Docker -> {"absent", "running", "exited", "removed"}]
    BY <1>21 DEF RemoveContainer
  <2>3. events' \in Seq(Docker \X {"start", "healthy", "die"})
    BY <2>1, EventFacts
  <2> QED
    BY <1>21, <2>2, <2>3 DEF RemoveContainer
<1>22. ASSUME NEW s \in Docker, RemoveFails(s) PROVE TypeOK'
  BY <1>22 DEF RemoveFails
<1>23. CASE RemovalsDone
  BY <1>23 DEF RemovalsDone
<1>24. CASE KillHandle
  <2>1. Head(toKill) \in Host /\ toKill' \in Seq(Host)
    BY <1>24 DEF KillHandle
  <2>2. proc' \in [Host -> {"none", "spawned", "running", "failed", "crashed", "exited"}]
    BY <1>24, <2>1 DEF KillHandle
  <2>3. reporting' \subseteq Host
    BY <1>24, <2>1 DEF KillHandle
  <2> QED
    BY <1>24, <2>1, <2>2, <2>3 DEF KillHandle
<1>25. CASE KillPanics
  BY <1>25 DEF KillPanics
<1>26. CASE StopReturns
  BY <1>26 DEF StopReturns, Return
<1>27. CASE Subscribe
  BY <1>27 DEF Subscribe
<1>28. CASE TrackerTakes
  <2>1. /\ Head(events) \in Docker \X {"start", "healthy", "die"}
        /\ events' \in Seq(Docker \X {"start", "healthy", "die"})
    BY <1>28 DEF TrackerTakes
  <2> DEFINE s == Head(events)[1]
             a == Head(events)[2]
  <2>2. s \in Services /\ a \in {"start", "healthy", "die"}
    BY <2>1
  <2>3. updateTaskStatus(s, a)
    BY <1>28 DEF TrackerTakes
  <2> HIDE DEF s, a
  <2>4. status' \in [Services -> {"pending", "started", "die"}] /\ ready' \in [Services -> BOOLEAN]
    BY <2>2, <2>3 DEF updateTaskStatus
  <2>5. unsent' \subseteq Services
    BY <2>2, <2>3 DEF updateTaskStatus
  <2>6. exitErr' = exitErr \/ (~ChannelFull /\ exitErr' = Append(exitErr, s))
    BY <2>2, <2>3 DEF updateTaskStatus
  <2>7. exitErr' \in Seq(Services) /\ Len(exitErr') <= ExitCap
    BY <2>2, <2>6, FailureSeq
  <2> QED
    BY <1>28, <2>1, <2>4, <2>5, <2>7 DEF TrackerTakes
<1>29. CASE TrackerSends
  BY <1>29, FailureSeq DEF TrackerSends
<1>30. CASE Spawn
  BY <1>30 DEF Spawn
<1>31. CASE AppendHandle
  BY <1>31 DEF AppendHandle, LauncherInRange
<1>32. CASE SpawnFails
  BY <1>32 DEF SpawnFails
<1>33. CASE LaunchError
  BY <1>33 DEF LaunchError, Stopping, LauncherInRange
<1>34. CASE CloseErrCh
  BY <1>34 DEF CloseErrCh
<1>35. ASSUME NEW h \in Host, HostStarts(h) PROVE TypeOK'
  <2>1. proc' \in [Host -> {"none", "spawned", "running", "failed", "crashed", "exited"}]
    BY <1>35 DEF HostStarts
  <2>2. reporting' \subseteq Host
    BY <1>35 DEF HostStarts
  <2> QED
    BY <1>35, <2>1, <2>2 DEF HostStarts
<1>36. ASSUME NEW h \in Host, HostExits(h) PROVE TypeOK'
  <2>1. proc' \in [Host -> {"none", "spawned", "running", "failed", "crashed", "exited"}]
    BY <1>36 DEF HostExits
  <2>2. reporting' \subseteq Host
    BY <1>36 DEF HostExits
  <2> QED
    BY <1>36, <2>1, <2>2 DEF HostExits
<1>37. ASSUME NEW h \in Host, HostReports(h) PROVE TypeOK'
  BY <1>37, FailureSeq DEF HostReports
<1>38. CASE Ended \/ UNCHANGED vars
  BY <1>38 DEF Ended, vars
<1> QED
  BY <1>1, <1>2, <1>3, <1>4, <1>5, <1>6, <1>7, <1>8, <1>9, <1>10, <1>11, <1>12, <1>13, <1>14, <1>15, <1>16, <1>17, <1>18, <1>19, <1>20, <1>21, <1>22, <1>23, <1>24, <1>25, <1>26, <1>27, <1>28, <1>29, <1>30, <1>31, <1>32, <1>33, <1>34, <1>35, <1>36, <1>37, <1>38
     DEF Next, Environment, Compose, Select, StopSteps, Tracker, Launcher, HostGoroutine

\* Only docker's containers, Stop's removals and the tracker touch the containers,
\* the event queue and the tasks map.
LEMMA TrackSteps ==
  ASSUME [Next]_vars
  PROVE  \/ UNCHANGED <<container, health, stream, events, status, ready>>
         \/ \E s \in Docker : \/ ContainerStarts(s) \/ ContainerDies(s)
                              \/ ContainerHealthy(s) \/ ContainerUnhealthy(s)
                              \/ RemoveContainer(s)
         \/ Subscribe \/ StreamBreaks \/ TrackerTakes
BY DEF Next, Environment, Compose, Select, StopSteps, Tracker, Launcher, HostGoroutine,
       vars, ctlVars, dockerVars, taskVars, hostVars, stopVars, mainKeeps,
       Interrupt, ServeExtraStop, ComposeUp, ComposeFails, RunReturns, PollTimer, CheckReady,
       PollCancelled, PollFailure, CompleteReady, CompleteReadyFails, ServeCancelled,
       ServeFailure, ListFails, ListContainers, RemoveFails, RemovalsDone, KillHandle,
       KillPanics, StopReturns, TrackerSends, Spawn, AppendHandle, SpawnFails, LaunchError,
       CloseErrCh, HostStarts, HostExits, HostReports, Ended

\* A container that has been started or healthy has been so for good, and a dead
\* one is not started again.
LEMMA Monotone ==
  ASSUME TypeOK, [Next]_vars, NEW s \in Docker
  PROVE  /\ container[s] # "absent" => container'[s] # "absent"
         /\ WasHealthy(s) => WasHealthy(s)'
         /\ Gone(s) => Gone(s)'
<1> USE DEF TypeOK, Gone, WasHealthy
<1>1. CASE UNCHANGED <<container, health, stream, events, status, ready>>
  BY <1>1
<1>2. ASSUME NEW d \in Docker,
             \/ ContainerStarts(d) \/ ContainerDies(d) \/ ContainerHealthy(d)
             \/ ContainerUnhealthy(d) \/ RemoveContainer(d)
      PROVE  /\ container[s] # "absent" => container'[s] # "absent"
             /\ WasHealthy(s) => WasHealthy(s)'
             /\ Gone(s) => Gone(s)'
  BY <1>2 DEF ContainerStarts, ContainerDies, ContainerHealthy, ContainerUnhealthy,
              RemoveContainer
<1>3. CASE Subscribe \/ StreamBreaks \/ TrackerTakes
  BY <1>3 DEF Subscribe, StreamBreaks, TrackerTakes, dockerVars
<1> QED
  BY <1>1, <1>2, <1>3, TrackSteps

-----------------------------------------------------------------------------
(* What the tracker has been told, and what it wrote down, is true. *)

\* Every event in the queue tells of something that has happened.
EventsTruthful ==
  \A i \in DOMAIN events :
    /\ container[events[i][1]] # "absent"
    /\ events[i][2] = "healthy" => WasHealthy(events[i][1])
    /\ events[i][2] = "die" => Gone(events[i][1])

\* So does the tasks map.
TasksTruthful ==
  \A s \in Docker : /\ status[s] # "pending" => container[s] # "absent"
                    /\ ready[s] => WasHealthy(s)

\* Queued events tell of something that has happened.
LEMMA EventsStep ==
  ASSUME TypeOK, EventsTruthful, [Next]_vars
  PROVE  EventsTruthful'
<1>1. \A i \in DOMAIN events :
         /\ container'[events[i][1]] # "absent"
         /\ events[i][2] = "healthy" => health'[events[i][1]] \in {"healthy", "relapsed"}
         /\ events[i][2] = "die" => container'[events[i][1]] \in {"exited", "removed"}
  <2> SUFFICES ASSUME NEW i \in DOMAIN events
               PROVE  /\ container'[events[i][1]] # "absent"
                      /\ events[i][2] = "healthy" => health'[events[i][1]] \in {"healthy", "relapsed"}
                      /\ events[i][2] = "die" =>
                           container'[events[i][1]] \in {"exited", "removed"}
    OBVIOUS
  <2>1. PICK s \in Docker : s = events[i][1]
    BY DEF TypeOK
  <2> QED
    BY <2>1, Monotone DEF EventsTruthful, Gone, WasHealthy
<1>2. CASE events' = events
  BY <1>1, <1>2 DEF EventsTruthful, Gone, WasHealthy
<1>3. ASSUME NEW s \in Docker, NEW a \in {"start", "healthy", "die"},
             events' = Append(events, <<s, a>>),
             container'[s] # "absent",
             a = "healthy" => WasHealthy(s)',
             a = "die" => Gone(s)'
      PROVE  EventsTruthful'
  BY <1>1, <1>3, EventFacts DEF EventsTruthful, Gone, WasHealthy
<1>4. ASSUME NEW s \in Docker,
             \/ ContainerStarts(s) \/ ContainerDies(s) \/ ContainerHealthy(s)
             \/ ContainerUnhealthy(s) \/ RemoveContainer(s)
      PROVE  EventsTruthful'
  <2> USE DEF TypeOK, Publish, Gone, WasHealthy
  <2>1. CASE ContainerStarts(s)
    BY <1>2, <1>3, <2>1 DEF ContainerStarts
  <2>2. CASE ContainerDies(s)
    BY <1>2, <1>3, <2>2 DEF ContainerDies
  <2>3. CASE ContainerHealthy(s)
    BY <1>2, <1>3, <2>3 DEF ContainerHealthy
  <2>4. CASE ContainerUnhealthy(s)
    BY <1>2, <2>4 DEF ContainerUnhealthy
  <2>5. CASE RemoveContainer(s)
    BY <1>2, <1>3, <2>5 DEF RemoveContainer
  <2> QED
    BY <1>4, <2>1, <2>2, <2>3, <2>4, <2>5
<1>5. CASE Subscribe
  BY <1>2, <1>5 DEF Subscribe
<1>6. CASE StreamBreaks
  <2>1. PICK n \in 0 .. Len(events) : events' = SubSeq(events, 1, n)
    BY <1>6 DEF StreamBreaks
  <2>2. DOMAIN events' \subseteq DOMAIN events /\ \A i \in DOMAIN events' : events'[i] = events[i]
    BY <2>1 DEF TypeOK
  <2> QED
    BY <1>1, <2>2 DEF EventsTruthful, Gone, WasHealthy
<1>7. CASE TrackerTakes
  <2>1. events # <<>> /\ events' = Tail(events)
    BY <1>7 DEF TrackerTakes
  <2>2. \A i \in DOMAIN events' : i + 1 \in DOMAIN events /\ events'[i] = events[i + 1]
    BY <2>1, HeadTail
  <2> QED
    BY <1>1, <2>2 DEF EventsTruthful, Gone, WasHealthy
<1> QED
  BY <1>2, <1>4, <1>5, <1>6, <1>7, TrackSteps

\* What the tracker writes into the tasks map has happened.
LEMMA TasksStep ==
  ASSUME TypeOK, EventsTruthful, TasksTruthful, [Next]_vars
  PROVE  TasksTruthful'
<1>1. CASE UNCHANGED <<status, ready>>
  BY <1>1, Monotone DEF TasksTruthful, WasHealthy
<1>2. CASE TrackerTakes
  <2> DEFINE d == Head(events)[1]
             a == Head(events)[2]
  <2>1. /\ d \in Docker
        /\ container[d] # "absent"
        /\ a = "healthy" => WasHealthy(d)
    BY <1>2, HeadTail DEF TrackerTakes, EventsTruthful
  <2>2. UNCHANGED <<container, health>>
    BY <1>2 DEF TrackerTakes, dockerVars
  <2>3. \A s \in Docker : /\ status'[s] # "pending" => (status[s] # "pending" \/ s = d)
                          /\ ready'[s] => (ready[s] \/ (s = d /\ a = "healthy"))
    BY <1>2 DEF TrackerTakes, updateTaskStatus, TypeOK, Docker
  <2> QED
    BY <2>1, <2>2, <2>3 DEF TasksTruthful, WasHealthy
<1>3. ASSUME NEW s \in Docker,
             \/ ContainerStarts(s) \/ ContainerDies(s) \/ ContainerHealthy(s)
             \/ ContainerUnhealthy(s) \/ RemoveContainer(s)
      PROVE  UNCHANGED <<status, ready>>
  BY <1>3 DEF ContainerStarts, ContainerDies, ContainerHealthy, ContainerUnhealthy,
              RemoveContainer, taskVars
<1>4. CASE Subscribe \/ StreamBreaks
  BY <1>1, <1>4 DEF Subscribe, StreamBreaks, taskVars
<1> QED
  BY <1>1, <1>2, <1>3, <1>4, TrackSteps

\* runIt gets past WaitForReady only through a successful AreReady.
LEMMA PassedSteps ==
  ASSUME TypeOK, [Next]_vars
  PROVE  PassedReady' => PassedReady \/ AreReady
BY DEF PassedReady, TypeOK, MainPC, Stopping, Return,
       Next, Environment, Compose, Select, StopSteps, Tracker, Launcher, HostGoroutine,
       vars, ctlVars, dockerVars, taskVars, hostVars, stopVars, mainKeeps,
       ContainerStarts, ContainerDies, ContainerHealthy, ContainerUnhealthy, StreamBreaks,
       Interrupt, ServeExtraStop, ComposeUp, ComposeFails, RunReturns, PollTimer, CheckReady,
       PollCancelled, PollFailure, CompleteReady, CompleteReadyFails, ServeCancelled,
       ServeFailure, ListFails, ListContainers, RemoveContainer, RemoveFails, RemovalsDone,
       KillHandle, KillPanics, StopReturns, Subscribe, TrackerTakes, TrackerSends, Spawn,
       AppendHandle, SpawnFails, LaunchError, CloseErrCh, HostStarts, HostExits, HostReports,
       Ended

\* ServingWasReady is kept: AreReady reads a truthful tasks map, and what it vouches
\* for stays true.
LEMMA ReadyStep ==
  ASSUME TypeOK, TasksTruthful, ServingWasReady, [Next]_vars
  PROVE  ServingWasReady'
<1> SUFFICES ASSUME PassedReady', NEW s \in Docker
             PROVE  container'[s] # "absent" /\ (s \in Checked => WasHealthy(s)')
  BY DEF ServingWasReady
<1>1. CASE PassedReady
  BY <1>1, Monotone DEF ServingWasReady
<1>2. CASE AreReady
  <2>1. container[s] # "absent" /\ (s \in Checked => WasHealthy(s))
    BY <1>2 DEF AreReady, TasksTruthful
  <2> QED
    BY <2>1, Monotone
<1> QED
  BY <1>1, <1>2, PassedSteps

-----------------------------------------------------------------------------
(* No order of events hides a death. *)

\* A container starts once, so its start event is never behind its die event.
StartBeforeDie ==
  \A i, j \in DOMAIN events :
    (events[i][1] = events[j][1] /\ events[i][2] = "start" /\ events[j][2] = "die") => i < j

\* As DeathIsNoticed, counting a start the tracker has still to take.
DeathPending ==
  stream = "open" =>
    \A s \in Docker :
      (Gone(s) /\ (status[s] = "started" \/ Queued(s, "start"))) => Queued(s, "die")

\* docker sends the die of a container after its start, and the queue keeps the order.
LEMMA OrderStep ==
  ASSUME TypeOK, EventsTruthful, StartBeforeDie, [Next]_vars
  PROVE  StartBeforeDie'
<1>1. CASE events' = events
  BY <1>1 DEF StartBeforeDie
<1>2. ASSUME NEW s \in Docker, NEW a \in {"start", "healthy", "die"},
             events' = Append(events, <<s, a>>),
             a = "start" => container[s] = "absent"
      PROVE  StartBeforeDie'
  <2>1. a = "start" => \A j \in DOMAIN events : ~(events[j][1] = s /\ events[j][2] = "die")
    BY <1>2 DEF EventsTruthful
  <2>2. /\ DOMAIN events' = 1 .. Len(events) + 1
        /\ DOMAIN events = 1 .. Len(events)
        /\ Len(events) \in Nat
        /\ \A i \in DOMAIN events : events'[i] = events[i]
        /\ events'[Len(events) + 1] = <<s, a>>
    BY <1>2, EventFacts
  <2> SUFFICES ASSUME NEW i \in DOMAIN events', NEW j \in DOMAIN events',
                      events'[i][1] = events'[j][1],
                      events'[i][2] = "start", events'[j][2] = "die"
               PROVE  i < j
    BY DEF StartBeforeDie
  <2>3. CASE i \in DOMAIN events /\ j \in DOMAIN events
    BY <2>2, <2>3 DEF StartBeforeDie
  <2>4. CASE i \in DOMAIN events /\ j = Len(events) + 1
    BY <2>2, <2>4
  <2>5. CASE i = Len(events) + 1
    BY <2>1, <2>2, <2>5
  <2> QED
    BY <2>2, <2>3, <2>4, <2>5
<1>3. ASSUME NEW s \in Docker,
             \/ ContainerStarts(s) \/ ContainerDies(s) \/ ContainerHealthy(s)
             \/ ContainerUnhealthy(s) \/ RemoveContainer(s)
      PROVE  StartBeforeDie'
  BY <1>1, <1>2, <1>3 DEF ContainerStarts, ContainerDies, ContainerHealthy,
     ContainerUnhealthy, RemoveContainer, Publish
<1>4. CASE Subscribe
  BY <1>1, <1>4 DEF Subscribe
<1>5. CASE StreamBreaks
  <2>1. PICK n \in 0 .. Len(events) : events' = SubSeq(events, 1, n)
    BY <1>5 DEF StreamBreaks
  <2>2. DOMAIN events' \subseteq DOMAIN events /\ \A i \in DOMAIN events' : events'[i] = events[i]
    BY <2>1 DEF TypeOK
  <2> QED
    BY <2>2 DEF StartBeforeDie
<1>6. CASE TrackerTakes
  <2>1. events # <<>> /\ events' = Tail(events)
    BY <1>6 DEF TrackerTakes
  <2>2. \A i \in DOMAIN events' :
           i \in Int /\ i + 1 \in DOMAIN events /\ events'[i] = events[i + 1]
    BY <2>1, HeadTail
  <2> SUFFICES ASSUME NEW i \in DOMAIN events', NEW j \in DOMAIN events',
                      events'[i][1] = events'[j][1],
                      events'[i][2] = "start", events'[j][2] = "die"
               PROVE  i < j
    BY DEF StartBeforeDie
  <2>3. i + 1 < j + 1
    BY <2>2 DEF StartBeforeDie
  <2> QED
    BY <2>2, <2>3
<1> QED
  BY <1>1, <1>3, <1>4, <1>5, <1>6, TrackSteps

\* Before the subscription nothing has been seen.
NothingSeen ==
  stream = "connecting" => events = <<>> /\ \A s \in Docker : status[s] = "pending"

\* Before the subscription is open no event reaches the tracker.
LEMMA NothingSeenStep ==
  ASSUME TypeOK, NothingSeen, [Next]_vars
  PROVE  NothingSeen'
<1>1. CASE UNCHANGED <<container, health, stream, events, status, ready>>
  BY <1>1 DEF NothingSeen
<1>2. ASSUME NEW s \in Docker,
             \/ ContainerStarts(s) \/ ContainerDies(s) \/ ContainerHealthy(s)
             \/ ContainerUnhealthy(s) \/ RemoveContainer(s)
      PROVE  NothingSeen'
  BY <1>2 DEF NothingSeen, ContainerStarts, ContainerDies, ContainerHealthy,
     ContainerUnhealthy, RemoveContainer, Publish, taskVars
<1>3. CASE Subscribe \/ StreamBreaks \/ TrackerTakes
  BY <1>3 DEF NothingSeen, Subscribe, StreamBreaks, TrackerTakes, taskVars
<1> QED
  BY <1>1, <1>2, <1>3, TrackSteps

\* An event is queued after an Append if it was before or is the one appended.
LEMMA QueuedAppend ==
  ASSUME TypeOK, NEW s \in Docker, NEW a \in {"start", "healthy", "die"},
         events' = Append(events, <<s, a>>)
  PROVE  \A d \in Docker, b \in {"start", "healthy", "die"} :
           Queued(d, b)' <=> (Queued(d, b) \/ (d = s /\ b = a))
<1>1. /\ DOMAIN events' = 1 .. Len(events) + 1
      /\ DOMAIN events = 1 .. Len(events)
      /\ Len(events) \in Nat
      /\ \A i \in DOMAIN events : events'[i] = events[i]
      /\ events'[Len(events) + 1] = <<s, a>>
  BY EventFacts
<1> SUFFICES ASSUME NEW d \in Docker, NEW b \in {"start", "healthy", "die"}
             PROVE  Queued(d, b)' <=> (Queued(d, b) \/ (d = s /\ b = a))
  OBVIOUS
<1>2. Queued(d, b)' => Queued(d, b) \/ (d = s /\ b = a)
  <2> SUFFICES ASSUME NEW i \in DOMAIN events', events'[i] = <<d, b>>
               PROVE  Queued(d, b) \/ (d = s /\ b = a)
    BY DEF Queued
  <2>1. CASE i \in DOMAIN events
    BY <1>1, <2>1 DEF Queued
  <2>2. CASE i = Len(events) + 1
    BY <1>1, <2>2
  <2> QED
    BY <1>1, <2>1, <2>2
<1>3. Queued(d, b) => Queued(d, b)'
  BY <1>1 DEF Queued
<1>4. d = s /\ b = a => Queued(d, b)'
  BY <1>1 DEF Queued
<1> QED
  BY <1>2, <1>3, <1>4

\* DeathPending is kept: the only step that makes a queued die disappear while the
\* stream is open also records it.
LEMMA DeathStep ==
  ASSUME TypeOK, EventsTruthful, TasksTruthful, StartBeforeDie, NothingSeen, DeathPending,
         [Next]_vars
  PROVE  DeathPending'
<1> SUFFICES ASSUME stream' = "open", NEW s \in Docker, Gone(s)',
                    status'[s] = "started" \/ Queued(s, "start")'
             PROVE  Queued(s, "die")'
  BY DEF DeathPending
<1>1. CASE UNCHANGED <<container, health, stream, events, status, ready>>
  BY <1>1 DEF DeathPending, Gone, Queued
<1>2. ASSUME NEW d \in Docker,
             \/ ContainerStarts(d) \/ ContainerDies(d) \/ ContainerHealthy(d)
             \/ ContainerUnhealthy(d) \/ RemoveContainer(d)
      PROVE  Queued(s, "die")'
  <2>1. stream = "open" /\ UNCHANGED <<status, ready>>
    BY <1>2 DEF ContainerStarts, ContainerDies, ContainerHealthy, ContainerUnhealthy,
                RemoveContainer, taskVars
  <2>2. Queued(s, "start") => container[s] # "absent"
    BY DEF Queued, EventsTruthful
  <2>3. CASE ContainerStarts(d)
    <3>1. events' = Append(events, <<d, "start">>)
      BY <2>1, <2>3 DEF ContainerStarts, Publish
    <3>2. container' = [container EXCEPT ![d] = "running"]
      BY <2>3 DEF ContainerStarts
    <3>3. s # d /\ Gone(s)
      BY <3>2 DEF Gone, TypeOK
    <3> QED
      BY <2>1, <3>1, <3>3, QueuedAppend DEF DeathPending
  <2>4. CASE ContainerDies(d)
    <3>1. events' = Append(events, <<d, "die">>)
      BY <2>1, <2>4 DEF ContainerDies, Publish
    <3>2. container' = [container EXCEPT ![d] = "exited"]
      BY <2>4 DEF ContainerDies
    <3>3. s # d => Gone(s)
      BY <3>2 DEF Gone, TypeOK
    <3> QED
      BY <2>1, <3>1, <3>3, QueuedAppend DEF DeathPending
  <2>5. CASE ContainerHealthy(d)
    <3>1. events' = Append(events, <<d, "healthy">>) /\ Gone(s)
      BY <2>1, <2>5 DEF ContainerHealthy, Publish, Gone
    <3> QED
      BY <2>1, <3>1, QueuedAppend DEF DeathPending
  <2>6. CASE ContainerUnhealthy(d)
    BY <2>1, <2>6 DEF ContainerUnhealthy, DeathPending, Gone, Queued
  <2>7. CASE RemoveContainer(d)
    <3>1. container' = [container EXCEPT ![d] = "removed"]
      BY <2>7 DEF RemoveContainer
    <3>2. CASE container[d] = "running"
      <4>1. events' = Append(events, <<d, "die">>)
        BY <2>1, <2>7, <3>2 DEF RemoveContainer, Publish
      <4>2. s # d => Gone(s)
        BY <3>1 DEF Gone, TypeOK
      <4> QED
        BY <2>1, <4>1, <4>2, QueuedAppend DEF DeathPending
    <3>3. CASE container[d] # "running"
      <4>1. events' = events
        BY <2>7, <3>3 DEF RemoveContainer
      <4>2. Queued(s, "start")' <=> Queued(s, "start")
        BY <4>1 DEF Queued
      <4>3. Queued(s, "die")' <=> Queued(s, "die")
        BY <4>1 DEF Queued
      <4>4. container[s] # "absent"
        BY <2>1, <2>2, <4>2 DEF TasksTruthful
      <4>5. Gone(s)
        BY <3>1, <3>3, <4>4 DEF Gone, TypeOK
      <4> QED
        BY <2>1, <4>2, <4>3, <4>5 DEF DeathPending
    <3> QED
      BY <3>2, <3>3
  <2> QED
    BY <1>2, <2>3, <2>4, <2>5, <2>6, <2>7
<1>3. CASE Subscribe
  <2>1. events' = <<>> /\ status'[s] = "pending"
    BY <1>3 DEF Subscribe, NothingSeen, taskVars
  <2> QED
    BY <2>1 DEF Queued
<1>4. CASE StreamBreaks
  BY <1>4 DEF StreamBreaks
<1>5. CASE TrackerTakes
  <2> DEFINE d == Head(events)[1]
             a == Head(events)[2]
  <2>1. /\ events # <<>> /\ events' = Tail(events)
        /\ UNCHANGED <<container, stream>>
    BY <1>5 DEF TrackerTakes, dockerVars
  <2>2. /\ d = events[1][1] /\ a = events[1][2]
        /\ 1 \in DOMAIN events
        /\ d \in Docker /\ a \in {"start", "healthy", "die"}
        /\ events[1] = <<d, a>>
        /\ \A i \in DOMAIN events' : i + 1 \in DOMAIN events /\ events'[i] = events[i + 1]
        /\ \A i \in DOMAIN events \ {1} : i - 1 \in DOMAIN events' /\ events'[i - 1] = events[i]
        /\ \A i \in DOMAIN events' : i \in Nat \ {0}
    BY <2>1, HeadTail
  <2>3. status' = [status EXCEPT ![d] = IF a = "healthy" THEN status[d]
                                        ELSE IF a = "die" THEN "die" ELSE "started"]
    BY <1>5, <2>2 DEF TrackerTakes, updateTaskStatus, TypeOK, Docker
  <2> HIDE DEF d, a
  <2>4. Queued(s, "start")' => Queued(s, "start")
    BY <2>2 DEF Queued
  <2>5. status[s] = "started" \/ Queued(s, "start")
    <3>1. status'[s] = "started" => status[s] = "started" \/ (s = d /\ a = "start")
      BY <2>2, <2>3 DEF TypeOK, Docker
    <3>2. s = d /\ a = "start" => Queued(s, "start")
      BY <2>2 DEF Queued
    <3> QED
      BY <2>4, <3>1, <3>2
  <2>6. PICK i \in DOMAIN events : events[i] = <<s, "die">>
    BY <2>1, <2>5 DEF DeathPending, Gone, Queued
  <2>7. CASE i # 1
    BY <2>2, <2>6, <2>7 DEF Queued
  <2>8. CASE i = 1
    <3>1. s = d /\ a = "die"
      BY <2>2, <2>6, <2>8
    <3>2. status'[s] = "die"
      BY <2>2, <2>3, <3>1 DEF TypeOK, Docker
    <3>3. ~Queued(s, "start")'
      <4> SUFFICES ASSUME NEW j \in DOMAIN events', events'[j] = <<s, "start">>
                   PROVE  FALSE
        BY DEF Queued
      <4>1. j + 1 < 1
        BY <2>2, <2>6, <2>8 DEF StartBeforeDie
      <4> QED
        BY <2>2, <4>1
    <3> QED
      BY <3>2, <3>3
  <2> QED
    BY <2>7, <2>8
<1> QED
  BY <1>1, <1>2, <1>3, <1>4, <1>5, TrackSteps

-----------------------------------------------------------------------------
(* A recorded death stays pending until runIt stops. *)

\* Which steps touch a recorded death, the channel or the blocked send.
LEMMA FailureSteps ==
  ASSUME TypeOK, [Next]_vars
  PROVE  \/ UNCHANGED <<status, exitErr, unsent>> /\ (Running' => Running)
         \/ TrackerTakes \/ TrackerSends
         \/ \E h \in Host : HostReports(h)
         \/ ~Running'
BY DEF TypeOK, Running, MainPC, Stopping, Return,
       Next, Environment, Compose, Select, StopSteps, Tracker, Launcher, HostGoroutine,
       vars, ctlVars, dockerVars, taskVars, hostVars, stopVars, mainKeeps,
       ContainerStarts, ContainerDies, ContainerHealthy, ContainerUnhealthy, StreamBreaks,
       Interrupt, ServeExtraStop, ComposeUp, ComposeFails, RunReturns, PollTimer, CheckReady,
       PollCancelled, PollFailure, CompleteReady, CompleteReadyFails, ServeCancelled,
       ServeFailure, ListFails, ListContainers, RemoveContainer, RemoveFails, RemovalsDone,
       KillHandle, KillPanics, StopReturns, Subscribe, Spawn, AppendHandle, SpawnFails,
       LaunchError, CloseErrCh, HostStarts, HostExits, Ended

\* A sequence that has been appended to is not empty.
LEMMA AppendNotEmpty ==
  ASSUME NEW Values, NEW q \in Seq(Values), NEW e \in Values
  PROVE  Append(q, e) # <<>>
<1>1. Len(Append(q, e)) = Len(q) + 1 /\ Len(q) \in Nat
  BY AppendFacts
<1>2. Len(<<>>) = 0
  BY EmptySeq
<1> QED
  BY <1>1, <1>2

\* FailurePending is kept: a failure leaves the channel only when runIt stops.
LEMMA FailureStep ==
  ASSUME TypeOK, FailurePending, [Next]_vars
  PROVE  FailurePending'
<1>1. CASE UNCHANGED <<status, exitErr, unsent>> /\ (Running' => Running)
  BY <1>1 DEF FailurePending
<1>2. CASE ~Running'
  BY <1>2 DEF FailurePending
<1>3. CASE TrackerSends
  <2>1. PICK s \in Services : exitErr' = Append(exitErr, s)
    BY <1>3 DEF TrackerSends, TypeOK
  <2>2. exitErr' # <<>>
    BY <2>1, AppendNotEmpty DEF TypeOK
  <2> QED
    BY <2>2 DEF FailurePending
<1>4. ASSUME NEW h \in Host, HostReports(h) PROVE FailurePending'
  <2>1. exitErr' # <<>>
    BY <1>4, AppendNotEmpty, HostFacts DEF HostReports, TypeOK
  <2> QED
    BY <2>1 DEF FailurePending
<1>5. CASE TrackerTakes
  <2> DEFINE d == Head(events)[1]
             a == Head(events)[2]
  <2>1. d \in Services
    BY <1>5, HeadTail, HostFacts DEF TrackerTakes
  <2>2. updateTaskStatus(d, a) /\ UNCHANGED main
    BY <1>5 DEF TrackerTakes, ctlVars
  <2> HIDE DEF d, a
  <2>3. CASE a = "die"
    <3>1. exitErr' = Append(exitErr, d) \/ unsent' # {}
      BY <2>2, <2>3 DEF updateTaskStatus
    <3>2. exitErr' # <<>> \/ unsent' # {}
      BY <2>1, <3>1, AppendNotEmpty DEF TypeOK
    <3> QED
      BY <3>2 DEF FailurePending
  <2>4. CASE a # "die"
    <3>1. UNCHANGED <<exitErr, unsent>>
      BY <2>2, <2>4 DEF updateTaskStatus
    <3>2. \A s \in Services : status'[s] = "die" => status[s] = "die"
      BY <2>1, <2>2, <2>4 DEF updateTaskStatus, TypeOK
    <3> QED
      BY <2>2, <3>1, <3>2, HostFacts DEF FailurePending, Running
  <2> QED
    BY <2>3, <2>4
<1> QED
  BY <1>1, <1>2, <1>3, <1>4, <1>5, FailureSteps

-----------------------------------------------------------------------------
(* Stop's snapshot covers whatever runs. *)

\* Whatever runs is on the list of Stop, unless a removal has failed.
SnapshotCovers ==
  (main = "remove" /\ stopErr = "none") =>
    \A s \in Docker : container[s] = "running" => s \in targets

\* Which steps make a container run, list it or remove it.
LEMMA StopContainerSteps ==
  ASSUME TypeOK, [Next]_vars
  PROVE  \/ /\ UNCHANGED <<targets, stopErr>>
            /\ \A s \in Docker : container'[s] = "running" => container[s] = "running"
            /\ main' = main \/ main' \notin {"remove", "kill", "exited", "panicked"}
         \/ main = "compose" /\ main' = "compose"
         \/ ListFails \/ ListContainers \/ RemovalsDone
         \/ \E s \in Docker : RemoveContainer(s) \/ RemoveFails(s)
         \/ /\ main = "kill" /\ main' \in {"exited", "panicked"}
            /\ UNCHANGED <<container, stopErr>>
BY DEF TypeOK, MainPC, Stopping, Return,
       Next, Environment, Compose, Select, StopSteps, Tracker, Launcher, HostGoroutine,
       vars, ctlVars, dockerVars, taskVars, hostVars, stopVars, mainKeeps,
       ContainerStarts, ContainerDies, ContainerHealthy, ContainerUnhealthy, StreamBreaks,
       Interrupt, ServeExtraStop, ComposeUp, ComposeFails, RunReturns, PollTimer, CheckReady,
       PollCancelled, PollFailure, CompleteReady, CompleteReadyFails, ServeCancelled,
       ServeFailure, KillHandle, KillPanics, StopReturns, Subscribe, TrackerTakes,
       TrackerSends, Spawn, AppendHandle, SpawnFails, LaunchError, CloseErrCh, HostStarts,
       HostExits, HostReports, Ended

\* Stop's snapshot covers the running containers until all of them are removed.
LEMMA StopStep ==
  ASSUME TypeOK, SnapshotCovers, NoContainerOutlivesStop, [Next]_vars
  PROVE  SnapshotCovers' /\ NoContainerOutlivesStop'
<1> USE DEF SnapshotCovers, NoContainerOutlivesStop
<1>1. CASE /\ UNCHANGED <<targets, stopErr>>
           /\ \A s \in Docker : container'[s] = "running" => container[s] = "running"
           /\ main' = main \/ main' \notin {"remove", "kill", "exited", "panicked"}
  BY <1>1
<1>2. CASE main = "compose" /\ main' = "compose"
  BY <1>2
<1>3. CASE ListFails
  BY <1>3 DEF ListFails, Return
<1>4. CASE ListContainers
  BY <1>4 DEF ListContainers, dockerVars
<1>5. CASE RemovalsDone
  BY <1>5 DEF RemovalsDone, dockerVars
<1>6. ASSUME NEW s \in Docker, RemoveContainer(s)
      PROVE  SnapshotCovers' /\ NoContainerOutlivesStop'
  BY <1>6 DEF RemoveContainer, ctlVars, TypeOK
<1>7. ASSUME NEW s \in Docker, RemoveFails(s)
      PROVE  SnapshotCovers' /\ NoContainerOutlivesStop'
  BY <1>7 DEF RemoveFails, ctlVars
<1>8. CASE /\ main = "kill" /\ main' \in {"exited", "panicked"}
           /\ UNCHANGED <<container, stopErr>>
  BY <1>8
<1> QED
  BY <1>1, <1>2, <1>3, <1>4, <1>5, <1>6, <1>7, <1>8, StopContainerSteps

-----------------------------------------------------------------------------
(* Every host service is registered when Run returns, and the kill loop of  *)
(* Stop accounts for every registered one.                                  *)

\* Run has returned nil.
Late ==
  \/ main \in {"poll", "lock", "complete", "serve"}
  \/ why \in {"wait", "ready", "cancel", "service", "watchdog", "timer"}

HandlesInOrder ==
  main \in {"compose", "hosts"} =>
    /\ Len(handles) = next - 1
    /\ \A i \in 1 .. Len(handles) : handles[i] = HostOrder[i]

LauncherDone == launcher = "closed" => next = Len(HostOrder) + 1

AllRegistered ==
  Late => launcher = "closed" /\ \A h \in Host : \E i \in DOMAIN handles : handles[i] = h

HandlesLaunched ==
  /\ \A i \in DOMAIN handles : proc[handles[i]] # "none"
  /\ \A i \in DOMAIN toKill : proc[toKill[i]] # "none"
  /\ launcher = "append" => proc[HostOrder[next]] # "none"

KillCovers ==
  (main = "kill" /\ Late) => \A h \in Host : HostDead(h) \/ \E i \in DOMAIN toKill : toKill[i] = h

\* Once Stop is through the kill loop every host process is dead.
KilledAll ==
  (main = "exited" /\ stopErr # "list" /\ Late) => \A h \in Host : HostDead(h)

\* why is set exactly when runIt has called Stop.
StoppedForAReason == Running <=> why = "none"

\* What a nil result tells about how the session ended.
NilResult ==
  result = "nil" =>
    main = "exited" /\ stopErr = "none" /\ why \notin {"none", "run", "wait", "ready"}

\* A host process that has ended is not started again, unless the launcher is at it.
LEMMA ProcSteps ==
  ASSUME TypeOK, [Next]_vars
  PROVE  \A h \in Host : /\ proc[h] # "none" => proc'[h] # "none"
                         /\ HostDead(h) => HostDead(h)' \/ (launcher = "launch" /\ HostOrder[next] = h)
<1> SUFFICES ASSUME NEW h \in Host
             PROVE  /\ proc[h] # "none" => proc'[h] # "none"
                    /\ HostDead(h) => HostDead(h)' \/ (launcher = "launch" /\ HostOrder[next] = h)
  OBVIOUS
<1> USE DEF HostDead, TypeOK
<1>1. CASE UNCHANGED proc
  BY <1>1
<1>2. CASE Spawn
  BY <1>2, HostFacts DEF Spawn
<1>3. ASSUME NEW g \in Host, HostStarts(g) \/ HostExits(g)
      PROVE  /\ proc[h] # "none" => proc'[h] # "none"
             /\ HostDead(h) => HostDead(h)'
  BY <1>3 DEF HostStarts, HostExits
<1>4. CASE KillHandle
  BY <1>4 DEF KillHandle
<1>5. UNCHANGED proc \/ Spawn \/ KillHandle \/ \E g \in Host : HostStarts(g) \/ HostExits(g)
  BY DEF Stopping, Return,
       Next, Environment, Compose, Select, StopSteps, Tracker, Launcher, HostGoroutine,
       vars, ctlVars, dockerVars, taskVars, hostVars, stopVars, mainKeeps,
       ContainerStarts, ContainerDies, ContainerHealthy, ContainerUnhealthy, StreamBreaks,
       Interrupt, ServeExtraStop, ComposeUp, ComposeFails, RunReturns, PollTimer, CheckReady,
       PollCancelled, PollFailure, CompleteReady, CompleteReadyFails, ServeCancelled,
       ServeFailure, ListFails, ListContainers, RemoveContainer, RemoveFails, RemovalsDone,
       KillPanics, StopReturns, Subscribe, TrackerTakes, TrackerSends,
       AppendHandle, SpawnFails, LaunchError, CloseErrCh, HostReports, Ended
<1> QED
  BY <1>1, <1>2, <1>3, <1>4, <1>5

\* Which steps touch the launcher and the handles.
LEMMA LauncherSteps ==
  ASSUME TypeOK, [Next]_vars
  PROVE  \/ UNCHANGED <<launcher, next, handles>> /\ (main' \in {"compose", "hosts"} => main \in {"compose", "hosts"})
            /\ (Late' => Late)
         \/ UNCHANGED <<launcher, next, handles>> /\ RunReturns
         \/ Spawn \/ AppendHandle \/ SpawnFails \/ LaunchError \/ CloseErrCh
         \/ ComposeUp
BY DEF TypeOK, MainPC, Late, Stopping, Return,
       Next, Environment, Compose, Select, StopSteps, Tracker, Launcher, HostGoroutine,
       vars, ctlVars, dockerVars, taskVars, hostVars, stopVars, mainKeeps,
       ContainerStarts, ContainerDies, ContainerHealthy, ContainerUnhealthy, StreamBreaks,
       Interrupt, ServeExtraStop, ComposeFails, RunReturns, PollTimer, CheckReady,
       PollCancelled, PollFailure, CompleteReady, CompleteReadyFails, ServeCancelled,
       ServeFailure, ListFails, ListContainers, RemoveContainer, RemoveFails, RemovalsDone,
       KillHandle, KillPanics, StopReturns, Subscribe, TrackerTakes, TrackerSends, HostStarts,
       HostExits, HostReports, Ended

\* runIt records a cause exactly when it starts to stop.
LEMMA ReasonStep ==
  ASSUME TypeOK, StoppedForAReason, [Next]_vars
  PROVE  StoppedForAReason'
BY RunnerAssumption DEF TypeOK, MainPC, StoppedForAReason, Running, Stopping, Return,
       Next, Environment, Compose, Select, StopSteps, Tracker, Launcher, HostGoroutine,
       vars, ctlVars, dockerVars, taskVars, hostVars, stopVars, mainKeeps,
       ContainerStarts, ContainerDies, ContainerHealthy, ContainerUnhealthy, StreamBreaks,
       Interrupt, ServeExtraStop, ComposeUp, ComposeFails, RunReturns, PollTimer, CheckReady,
       PollCancelled, PollFailure, CompleteReady, CompleteReadyFails, ServeCancelled,
       ServeFailure, ListFails, ListContainers, RemoveContainer, RemoveFails, RemovalsDone,
       KillHandle, KillPanics, StopReturns, Subscribe, TrackerTakes, TrackerSends, Spawn,
       AppendHandle, SpawnFails, LaunchError, CloseErrCh, HostStarts, HostExits, HostReports,
       Ended

\* Once Run has returned without error, every host service has a handle, in order.
LEMMA LauncherStep ==
  ASSUME TypeOK, LauncherInRange, LauncherDone, HandlesInOrder, AllRegistered,
         StoppedForAReason, [Next]_vars
  PROVE  LauncherInRange' /\ LauncherDone' /\ HandlesInOrder' /\ AllRegistered'
<1> USE HostFacts DEF TypeOK, LauncherInRange, LauncherDone, HandlesInOrder, AllRegistered
<1>1. CASE /\ UNCHANGED <<launcher, next, handles>>
           /\ main' \in {"compose", "hosts"} => main \in {"compose", "hosts"}
           /\ Late' => Late
  BY <1>1
<1>2. CASE UNCHANGED <<launcher, next, handles>> /\ RunReturns
  <2>1. next = Len(HostOrder) + 1 /\ Len(handles) = Len(HostOrder) /\ main' = "poll"
    BY <1>2 DEF RunReturns
  <2>2. \A h \in Host : \E i \in DOMAIN handles : handles[i] = h
    BY <1>2, <2>1, RunnerAssumption DEF RunReturns, Host
  <2> QED
    BY <1>2, <2>1, <2>2 DEF RunReturns
<1>3. CASE Spawn
  BY <1>3 DEF Spawn, Late, ctlVars
<1>4. CASE AppendHandle
  <2>1. /\ ~Late /\ ~Late'
        /\ next \in 1 .. Len(HostOrder)
        /\ next' = next + 1 /\ launcher' = "launch" /\ main' = main
        /\ handles' = Append(handles, HostOrder[next])
    BY <1>4 DEF AppendHandle, Late, ctlVars
  <2>2. /\ Len(handles') = Len(handles) + 1
        /\ \A i \in 1 .. Len(handles) : handles'[i] = handles[i]
        /\ handles'[Len(handles) + 1] = HostOrder[next]
        /\ Len(handles) \in Nat
    BY <2>1, AppendFacts
  <2> QED
    BY <2>1, <2>2
<1>5. CASE SpawnFails
  BY <1>5 DEF SpawnFails, Late, ctlVars
<1>6. CASE LaunchError
  BY <1>6 DEF LaunchError, Late, Stopping
<1>7. CASE CloseErrCh
  BY <1>7 DEF CloseErrCh, Late, ctlVars
<1>8. CASE ComposeUp
  BY <1>8 DEF ComposeUp, Late, StoppedForAReason, Running
<1> QED
  BY <1>1, <1>2, <1>3, <1>4, <1>5, <1>6, <1>7, <1>8, LauncherSteps

\* Which steps touch the kill loop and the result.
LEMMA KillSteps ==
  ASSUME TypeOK, [Next]_vars
  PROVE  \/ /\ UNCHANGED <<toKill, result>>
            /\ main' = "kill" => main = "kill"
            /\ main' = "exited" => main = "exited" /\ UNCHANGED stopErr
            /\ main = "exited" => UNCHANGED <<main, why, stopErr>>
            /\ main' \in {"kill", "exited"} => UNCHANGED why
         \/ ListFails \/ RemovalsDone \/ KillHandle \/ KillPanics \/ StopReturns
BY DEF TypeOK, MainPC, Stopping, Alive,
       Next, Environment, Compose, Select, StopSteps, Tracker, Launcher, HostGoroutine,
       vars, ctlVars, dockerVars, taskVars, hostVars, stopVars, mainKeeps,
       ContainerStarts, ContainerDies, ContainerHealthy, ContainerUnhealthy, StreamBreaks,
       Interrupt, ServeExtraStop, ComposeUp, ComposeFails, RunReturns, PollTimer, CheckReady,
       PollCancelled, PollFailure, CompleteReady, CompleteReadyFails, ServeCancelled,
       ServeFailure, ListContainers, RemoveContainer, RemoveFails,
       Subscribe, TrackerTakes, TrackerSends, Spawn, AppendHandle, SpawnFails, LaunchError,
       CloseErrCh, HostStarts, HostExits, HostReports, Ended

\* Every handle belongs to a process that has been spawned.
LEMMA LaunchedStep ==
  ASSUME TypeOK, LauncherInRange, HandlesLaunched, [Next]_vars
  PROVE  HandlesLaunched'
<1>1. /\ \A i \in DOMAIN handles : handles[i] \in Host /\ proc'[handles[i]] # "none"
      /\ \A i \in DOMAIN toKill : toKill[i] \in Host /\ proc'[toKill[i]] # "none"
      /\ launcher = "append" => proc'[HostOrder[next]] # "none"
  BY ProcSteps, HostFacts DEF TypeOK, HandlesLaunched, LauncherInRange
<1>2. /\ \A i \in DOMAIN toKill' : proc'[toKill'[i]] # "none"
  <2>1. CASE toKill' = toKill
    BY <1>1, <2>1
  <2>2. CASE RemovalsDone
    BY <1>1, <2>2 DEF RemovalsDone
  <2>3. CASE KillHandle
    <3>1. \A i \in DOMAIN toKill' : i + 1 \in DOMAIN toKill /\ toKill'[i] = toKill[i + 1]
      BY <2>3, HeadTailProperties, LenProperties DEF KillHandle, TypeOK
    <3> QED
      BY <1>1, <3>1
  <2>4. CASE ListFails \/ KillPanics \/ StopReturns
    BY <1>1, <2>4 DEF ListFails, KillPanics, StopReturns, stopVars
  <2> QED
    BY <2>1, <2>2, <2>3, <2>4, KillSteps
<1>3. /\ \A i \in DOMAIN handles' : proc'[handles'[i]] # "none"
      /\ launcher' = "append" => proc'[HostOrder[next']] # "none"
  <2>1. CASE UNCHANGED <<launcher, next, handles>>
    BY <1>1, <2>1
  <2>2. CASE Spawn
    BY <1>1, <2>2, HostFacts DEF Spawn, TypeOK
  <2>3. CASE AppendHandle
    <3>1. handles' = Append(handles, HostOrder[next]) /\ HostOrder[next] \in Host /\ launcher' = "launch"
      BY <2>3, HostFacts DEF AppendHandle, LauncherInRange
    <3>2. /\ DOMAIN handles' = 1 .. Len(handles) + 1
          /\ DOMAIN handles = 1 .. Len(handles)
          /\ \A i \in 1 .. Len(handles) : handles'[i] = handles[i]
          /\ handles'[Len(handles) + 1] = HostOrder[next]
          /\ Len(handles) \in Nat
      BY <3>1, AppendFacts, LenProperties, AppendProperties DEF TypeOK
    <3> QED
      BY <1>1, <2>3, <3>1, <3>2 DEF AppendHandle
  <2>4. CASE SpawnFails \/ LaunchError \/ CloseErrCh \/ ComposeUp
    BY <1>1, <2>4 DEF SpawnFails, LaunchError, CloseErrCh, ComposeUp
  <2> QED
    BY <2>1, <2>2, <2>3, <2>4, LauncherSteps
<1> QED
  BY <1>2, <1>3 DEF HandlesLaunched

\* The kill loop still has every living host process ahead of it.
LEMMA KillStep ==
  ASSUME TypeOK, AllRegistered, HandlesLaunched, KillCovers, KilledAll, [Next]_vars
  PROVE  KillCovers' /\ KilledAll'
<1> SUFFICES ASSUME Late', main' \in {"kill", "exited"}, main' = "exited" => stopErr' # "list",
                    NEW h \in Host
             PROVE  \/ HostDead(h)'
                    \/ main' = "kill" /\ \E i \in DOMAIN toKill' : toKill'[i] = h
  BY DEF KillCovers, KilledAll
<1>1. Late => (HostDead(h) => HostDead(h)')
  BY ProcSteps DEF AllRegistered
<1>2. CASE /\ UNCHANGED <<toKill, result>>
           /\ main' = "kill" => main = "kill"
           /\ main' = "exited" => main = "exited" /\ UNCHANGED stopErr
           /\ main' \in {"kill", "exited"} => UNCHANGED why
  BY <1>1, <1>2 DEF Late, KillCovers, KilledAll
<1>3. CASE ListFails
  BY <1>3 DEF ListFails, Return
<1>4. CASE RemovalsDone
  BY <1>4 DEF RemovalsDone, Late, AllRegistered
<1>5. CASE KillHandle
  <2>1. /\ main = "kill" /\ main' = "kill" /\ Late
        /\ Head(toKill) = toKill[1] /\ toKill' = Tail(toKill) /\ toKill # <<>>
    BY <1>5, HeadTailProperties DEF KillHandle, ctlVars, Late, TypeOK
  <2>2. CASE HostDead(h)
    BY <1>1, <2>1, <2>2
  <2>3. CASE \E i \in DOMAIN toKill : toKill[i] = h
    <3>1. PICK i \in DOMAIN toKill : toKill[i] = h
      BY <2>3
    <3>2. i # 1 => i - 1 \in DOMAIN toKill' /\ toKill'[i - 1] = h
      BY <2>1, <3>1, HeadTailProperties, LenProperties DEF TypeOK
    <3>3. i = 1 => HostDead(h)'
      BY <1>5, <2>1, <3>1 DEF KillHandle, HostDead, HandlesLaunched, TypeOK
    <3> QED
      BY <2>1, <3>2, <3>3
  <2> QED
    BY <2>1, <2>2, <2>3 DEF KillCovers
<1>6. CASE KillPanics
  BY <1>6 DEF KillPanics
<1>7. CASE StopReturns
  <2>1. main = "kill" /\ Late /\ toKill = <<>>
    BY <1>7 DEF StopReturns, Late
  <2>2. HostDead(h)
    BY <2>1 DEF KillCovers
  <2> QED
    BY <1>1, <2>1, <2>2
<1> QED
  BY <1>2, <1>3, <1>4, <1>5, <1>6, <1>7, KillSteps

\* A nil result means that Stop met no error after the final select.
LEMMA NilStep ==
  ASSUME TypeOK, StoppedForAReason, NilResult, [Next]_vars
  PROVE  NilResult'
<1>1. CASE /\ UNCHANGED <<toKill, result>>
           /\ main = "exited" => UNCHANGED <<main, why, stopErr>>
  BY <1>1 DEF NilResult
<1>2. CASE ListFails
  BY <1>2 DEF ListFails, Return, NilResult
<1>3. CASE StopReturns
  BY <1>3 DEF StopReturns, Return, NilResult, StoppedForAReason, Running, stopVars
<1>4. CASE RemovalsDone \/ KillHandle \/ KillPanics
  BY <1>4 DEF RemovalsDone, KillHandle, KillPanics, NilResult, ctlVars
<1> QED
  BY <1>1, <1>2, <1>3, <1>4, KillSteps

-----------------------------------------------------------------------------
(* The inductive invariant, and the theorems. *)

\* Stop lists containers that run; none of them has never been up.
TargetsSeen == \A s \in targets : container[s] # "absent"

\* The list of Stop only shrinks once it has been taken.
LEMMA TargetsStep ==
  ASSUME TypeOK, TargetsSeen, [Next]_vars
  PROVE  TargetsSeen'
<1>1. \A s \in targets' : s \in targets \/ (s \in Docker /\ container[s] = "running")
  BY DEF Next, Environment, Compose, Select, StopSteps, Tracker, Launcher, HostGoroutine,
       vars, ctlVars, dockerVars, taskVars, hostVars, stopVars, mainKeeps,
       ContainerStarts, ContainerDies, ContainerHealthy, ContainerUnhealthy, StreamBreaks,
       Interrupt, ServeExtraStop, ComposeUp, ComposeFails, RunReturns, PollTimer, CheckReady,
       PollCancelled, PollFailure, CompleteReady, CompleteReadyFails, ServeCancelled,
       ServeFailure, ListFails, ListContainers, RemoveContainer, RemoveFails, RemovalsDone,
       KillHandle, KillPanics, StopReturns, Subscribe, TrackerTakes, TrackerSends, Spawn,
       AppendHandle, SpawnFails, LaunchError, CloseErrCh, HostStarts, HostExits, HostReports,
       Ended
<1> QED
  BY <1>1, Monotone DEF TargetsSeen, TypeOK

\* The inductive invariant: what each part of it is for is said at its definition.
Inv ==
  /\ TypeOK
  /\ LauncherInRange /\ LauncherDone /\ HandlesInOrder /\ AllRegistered /\ HandlesLaunched
  /\ EventsTruthful /\ TasksTruthful /\ ServingWasReady
  /\ StartBeforeDie /\ NothingSeen /\ DeathPending
  /\ FailurePending
  /\ SnapshotCovers /\ NoContainerOutlivesStop /\ TargetsSeen
  /\ KillCovers /\ KilledAll /\ StoppedForAReason /\ NilResult

\* The invariant holds initially.
LEMMA InvInit == Init => Inv
<1> SUFFICES ASSUME Init PROVE Inv
  OBVIOUS
<1>1. TypeOK
  <2>1. /\ exitErr \in Seq(Services) /\ Len(exitErr) <= ExitCap
        /\ events \in Seq(Docker \X {"start", "healthy", "die"})
        /\ handles \in Seq(Host) /\ toKill \in Seq(Host)
    BY RunnerAssumption, EmptySeq DEF Init
  <2>2. /\ container \in [Docker -> {"absent", "running", "exited", "removed"}]
        /\ health \in [Docker -> {"starting", "healthy", "unhealthy"}]
        /\ status \in [Services -> {"pending", "started", "die"}]
        /\ ready \in [Services -> BOOLEAN]
        /\ proc \in [Host -> {"none", "spawned", "running", "failed", "crashed", "exited"}]
    BY DEF Init
  <2>3. next \in 1 .. Len(HostOrder) + 1
    BY HostFacts DEF Init
  <2> QED
    BY <2>1, <2>2, <2>3 DEF Init, TypeOK, MainPC
<1>2. LauncherInRange /\ LauncherDone /\ HandlesInOrder /\ AllRegistered /\ HandlesLaunched
  BY DEF Init, LauncherInRange, LauncherDone, HandlesInOrder, AllRegistered, HandlesLaunched, Late
<1>3. EventsTruthful /\ TasksTruthful /\ ServingWasReady
  BY HostFacts DEF Init, EventsTruthful, TasksTruthful, ServingWasReady, PassedReady
<1>4. StartBeforeDie /\ NothingSeen /\ DeathPending
  BY HostFacts DEF Init, StartBeforeDie, NothingSeen, DeathPending
<1>5. FailurePending /\ SnapshotCovers /\ NoContainerOutlivesStop /\ TargetsSeen
  BY HostFacts DEF Init, FailurePending, SnapshotCovers, NoContainerOutlivesStop, TargetsSeen
<1>6. KillCovers /\ KilledAll /\ StoppedForAReason /\ NilResult
  BY DEF Init, KillCovers, KilledAll, StoppedForAReason, NilResult, Running
<1> QED
  BY <1>1, <1>2, <1>3, <1>4, <1>5, <1>6 DEF Inv

\* Every step preserves the invariant.
LEMMA InvNext == Inv /\ [Next]_vars => Inv'
BY TypeStep, LauncherStep, LaunchedStep, EventsStep, TasksStep, ReadyStep, OrderStep,
   NothingSeenStep, DeathStep, FailureStep, StopStep, TargetsStep, KillStep, ReasonStep, NilStep
   DEF Inv

(* The inductive invariant holds in every reachable state.                  *)
THEOREM Invariance == Spec => []Inv
<1> QED
  BY InvInit, InvNext, PTL DEF Spec

(* Every variable keeps its type; exitErr never exceeds its capacity        *)
(* (local_runner.go:228), whatever the number of services.                  *)
THEOREM TypeCorrect == Spec => []TypeOK
<1>1. Inv => TypeOK
  BY DEF Inv
<1> QED
  BY <1>1, Invariance, PTL

(* WaitForReady vouches only for containers that were really started and,   *)
(* if checked, really healthy.                                              *)
THEOREM ReadyCorrect == Spec => []ServingWasReady
<1>1. Inv => ServingWasReady
  BY DEF Inv
<1> QED
  BY <1>1, Invariance, PTL

(* While the subscription is open no dead container stays "started" without *)
(* its die event on the way.                                                *)
THEOREM DeathNoticed == Spec => []DeathIsNoticed
<1>1. Inv => DeathIsNoticed
  BY DEF Inv, DeathPending, DeathIsNoticed
<1> QED
  BY <1>1, Invariance, PTL

(* A readiness check that passes is not based on stale news.                *)
THEOREM VerdictCurrent == Spec => VerdictIsCurrent
<1>1. ASSUME Inv, [Next]_vars
      PROVE  [(main = "lock" /\ main' = "complete" /\ stream = "open") =>
                \A s \in Docker : container[s] = "running" \/ Queued(s, "die")]_vars
  <2> SUFFICES ASSUME main = "lock", main' = "complete", stream = "open", NEW s \in Docker
               PROVE  container[s] = "running" \/ Queued(s, "die")
    OBVIOUS
  <2>1. AreReady
    BY <1>1, PassedSteps DEF Inv, PassedReady, StoppedForAReason, Running
  <2> QED
    BY <1>1, <2>1 DEF Inv, AreReady, TasksTruthful, DeathPending, Gone, TypeOK
<1> QED
  BY <1>1, Invariance, PTL DEF Spec, VerdictIsCurrent

(* A recorded failure stays pending until runIt takes one and stops.        *)
THEOREM FailureKept == Spec => []FailurePending
<1>1. Inv => FailurePending
  BY DEF Inv
<1> QED
  BY <1>1, Invariance, PTL

(* After a Stop without errors no container of the session runs.            *)
THEOREM StopCleans == Spec => []NoContainerOutlivesStop
<1>1. Inv => NoContainerOutlivesStop
  BY DEF Inv
<1> QED
  BY <1>1, Invariance, PTL

(* runIt returns nil only when neither a container nor a host process of    *)
(* the session is left.                                                     *)
THEOREM NilIsClean == Spec => []CleanExit
<1>1. Inv => CleanExit
  BY DEF Inv, CleanExit, NilResult, NoContainerOutlivesStop, KilledAll, Late, TypeOK
<1> QED
  BY <1>1, Invariance, PTL
-----------------------------------------------------------------------------
(* Runner implements the safety part of Session: the initial states map to  *)
(* initial states, and every step of the goroutines to a step of the        *)
(* session or to none.                                                      *)

\* Containers of the session that run, that have ever been up, and that have ever
\* been healthy, and whether it has served: the state of Session, as it is mapped.
Up     == {s \in Docker : container[s] = "running"}
Seen   == {s \in Docker : container[s] # "absent"}
Fit    == {s \in Docker : s \in Checked /\ WasHealthy(s)}
Served == main = "serve" \/ why \in {"cancel", "service", "watchdog", "timer"}

\* Session sees nothing of a step that changes neither containers nor the phase.
Unseen == UNCHANGED <<Phase, Up, Seen, Fit, Served, result>>

\* Phase is defined for every value of the program counter.
LEMMA PhaseFacts ==
  ASSUME main \in MainPC
  PROVE  /\ Phase = "starting" <=> main \in {"compose", "hosts", "poll", "lock", "complete"}
         /\ Phase = "serving" <=> main = "serve"
         /\ Phase = "stopping" <=> main \in {"list", "remove", "kill"}
         /\ Phase = "ended" <=> ~Alive
BY DEF Phase, MainPC, Alive

\* The initial states map to initial states of Session.
LEMMA InitMaps == Init => S!Init
<1> SUFFICES ASSUME Init PROVE S!Init
  OBVIOUS
<1>1. Phase = "starting"
  BY DEF Init, Phase
<1>2. Up = {} /\ Seen = {} /\ Fit = {}
  BY DEF Init, Up, Seen, Fit, WasHealthy
<1> QED
  BY <1>1, <1>2 DEF Init, S!Init, Up, Seen, Fit, WasHealthy

\* A container that comes up.
LEMMA StartMaps ==
  ASSUME TypeOK, NEW s \in Docker, ContainerStarts(s)
  PROVE  S!Up(s)
<1>1. Phase = "starting" /\ Phase' = Phase
  BY DEF ContainerStarts, ctlVars, Phase
<1>2. s \notin Seen /\ Up' = Up \cup {s} /\ Seen' = Seen \cup {s}
  BY DEF ContainerStarts, Up, Seen, TypeOK
<1>3. UNCHANGED <<Fit, Served, result>>
  BY DEF ContainerStarts, Fit, WasHealthy, Served, ctlVars
<1> QED
  BY <1>1, <1>2, <1>3 DEF S!Up, Up, Seen, Fit, Served

\* A container that runs no more, because it died or because Stop removed it; the
\* removal of one that is dead already is not seen.
LEMMA DownMaps ==
  ASSUME TypeOK, TargetsSeen, NEW s \in Docker, ContainerDies(s) \/ RemoveContainer(s)
  PROVE  S!Down(s) \/ Unseen
<1>1. main \in MainPC /\ Alive /\ UNCHANGED <<main, why, result, health>>
  BY DEF ContainerDies, RemoveContainer, TypeOK, ctlVars, Alive
<1>2. Phase # "ended" /\ Phase' = Phase
  BY <1>1, PhaseFacts DEF Phase
<1>3. container[s] # "absent" /\ \E c \in {"exited", "removed"} :
        container' = [container EXCEPT ![s] = c]
  BY DEF ContainerDies, RemoveContainer, TargetsSeen, TypeOK
<1>4. Up' = Up \ {s} /\ Seen' = Seen
  BY <1>3 DEF Up, Seen, TypeOK
<1>5. UNCHANGED <<Fit, Served, result>>
  BY <1>1 DEF Fit, WasHealthy, Served
<1>6. CASE s \in Up
  BY <1>2, <1>4, <1>5, <1>6 DEF S!Down, Up, Seen, Fit, Served
<1>7. CASE s \notin Up
  BY <1>2, <1>4, <1>5, <1>7 DEF Unseen
<1> QED
  BY <1>6, <1>7

\* A health check that passes, for the first time or again.
LEMMA HealthMaps ==
  ASSUME TypeOK, NEW s \in Docker, ContainerHealthy(s)
  PROVE  S!Healthy(s)
<1>1. /\ main \in MainPC /\ Alive /\ s \in Checked /\ container[s] = "running"
      /\ UNCHANGED <<main, why, result, container>>
  BY DEF ContainerHealthy, TypeOK, ctlVars
<1>2. Phase # "ended" /\ Phase' = Phase
  BY <1>1, PhaseFacts DEF Phase
<1>3. health' = [health EXCEPT ![s] = "healthy"]
  BY DEF ContainerHealthy
<1>4. Fit' = Fit \cup {s}
  BY <1>1, <1>3 DEF Fit, WasHealthy, TypeOK
<1>5. UNCHANGED <<Up, Seen, Served, result>>
  BY <1>1 DEF Up, Seen, Served
<1> QED
  BY <1>1, <1>2, <1>4, <1>5 DEF S!Healthy, Up, Seen, Fit, Served

\* The Ready hooks are through: AreReady has vouched for every container.
LEMMA ServeMaps ==
  ASSUME TypeOK, ServingWasReady, StoppedForAReason, CompleteReady
  PROVE  S!Serve
<1>1. /\ main = "complete" /\ main' = "serve"
      /\ UNCHANGED <<why, result, container, health>>
  BY DEF CompleteReady, mainKeeps, dockerVars
<1>2. Phase = "starting" /\ Phase' = "serving" /\ Served'
  BY <1>1 DEF Phase, Served
<1>3. Seen = Docker /\ Docker \cap Checked \subseteq Fit
  BY <1>1 DEF ServingWasReady, PassedReady, Seen, Fit
<1>4. UNCHANGED <<Up, Seen, Fit, result>>
  BY <1>1 DEF Up, Seen, Fit, WasHealthy
<1> QED
  BY <1>2, <1>3, <1>4 DEF S!Serve, Up, Seen, Fit, Served

\* The ways out of Run, WaitForReady and CompleteReady, which have not served ...
EarlyStop ==
  \/ ComposeFails \/ LaunchError \/ PollCancelled \/ PollFailure \/ CompleteReadyFails

\* ... and those of the final select, which have.
ServedStop == ServeCancelled \/ ServeFailure \/ ServeExtraStop

\* runIt calls Stop, and what it has served does not change with that.
LEMMA StopMaps ==
  ASSUME TypeOK, StoppedForAReason, EarlyStop \/ ServedStop
  PROVE  S!Stop
<1> USE DEF ComposeFails, LaunchError, PollCancelled, PollFailure, CompleteReadyFails,
            ServeCancelled, ServeFailure, ServeExtraStop, Stopping, mainKeeps, dockerVars
<1>1. main' = "list" /\ UNCHANGED <<result, container, health>>
  BY DEF EarlyStop, ServedStop
<1>2. Running
  BY DEF EarlyStop, ServedStop, Running
<1>3. Phase \in {"starting", "serving"} /\ Phase' = "stopping"
  BY <1>1, <1>2 DEF Phase, Running
<1>4. Served' = Served
  <2>1. CASE EarlyStop
    <3>1. ~Served
      BY <1>2, <2>1 DEF EarlyStop, Served, StoppedForAReason
    <3>2. ~Served'
      BY <1>1, <2>1 DEF EarlyStop, Served
    <3> QED
      BY <3>1, <3>2 DEF Served
  <2>2. CASE ServedStop
    <3>1. Served
      BY <2>2 DEF ServedStop, Served
    <3>2. Served'
      BY <2>2, RunnerAssumption DEF ServedStop, Served
    <3> QED
      BY <3>1, <3>2 DEF Served
  <2> QED
    BY <2>1, <2>2
<1>5. UNCHANGED <<Up, Seen, Fit>>
  BY <1>1 DEF Up, Seen, Fit, WasHealthy
<1> QED
  BY <1>1, <1>3, <1>4, <1>5 DEF S!Stop, Up, Seen, Fit, Served

\* runIt returns or panics: nil only if it has served and left no container running.
LEMMA EndMaps ==
  ASSUME TypeOK, NoContainerOutlivesStop, StoppedForAReason,
         ListFails \/ KillPanics \/ StopReturns
  PROVE  S!End
<1>1. /\ main \in {"list", "kill"} /\ main' \in {"exited", "panicked"}
      /\ UNCHANGED <<why, container, health>>
  BY DEF ListFails, KillPanics, StopReturns, Return, dockerVars
<1>2. Phase = "stopping" /\ Phase' = "ended"
  BY <1>1 DEF Phase
<1>3. UNCHANGED <<Up, Seen, Fit, Served>>
  BY <1>1 DEF Up, Seen, Fit, WasHealthy, Served
<1>4. result' \in {"nil", "error"}
  BY DEF ListFails, KillPanics, StopReturns, Return
<1>5. ASSUME result' = "nil"
      PROVE  Served /\ Up = {}
  <2>1. StopReturns /\ main = "kill" /\ stopErr = "none" /\ why \notin {"run", "wait", "ready"}
    BY <1>5 DEF ListFails, KillPanics, StopReturns, Return
  <2>2. why # "none"
    BY <2>1 DEF StoppedForAReason, Running
  <2>3. Served
    BY <2>1, <2>2 DEF Served, TypeOK
  <2>4. Up = {}
    BY <2>1 DEF NoContainerOutlivesStop, Up
  <2> QED
    BY <2>3, <2>4
<1> QED
  BY <1>2, <1>3, <1>4, <1>5 DEF S!End, Up, Seen, Fit, Served

\* All other steps: the tracker, the launcher, the host processes, the polls and the
\* inside of Stop.
LEMMA OtherSteps ==
  ASSUME TypeOK, StoppedForAReason, [Next]_vars
  PROVE  \/ \E s \in Docker : \/ ContainerStarts(s) \/ ContainerDies(s)
                              \/ ContainerHealthy(s) \/ RemoveContainer(s)
         \/ CompleteReady \/ EarlyStop \/ ServedStop
         \/ ListFails \/ KillPanics \/ StopReturns
         \/ Unseen
<1>1. \/ \E s \in Docker : \/ ContainerStarts(s) \/ ContainerDies(s)
                          \/ ContainerHealthy(s) \/ RemoveContainer(s)
      \/ CompleteReady \/ EarlyStop \/ ServedStop
      \/ ListFails \/ KillPanics \/ StopReturns
      \/ /\ UNCHANGED <<why, result, container>>
         /\ UNCHANGED health \/ \E s \in Docker : ContainerUnhealthy(s)
         /\ \/ main' = main
            \/ {main, main'} \subseteq {"compose", "hosts", "poll", "lock", "complete"}
            \/ {main, main'} \subseteq {"list", "remove", "kill"}
  BY DEF EarlyStop, ServedStop,
       Next, Environment, Compose, Select, StopSteps, Tracker, Launcher, HostGoroutine,
       vars, ctlVars, dockerVars, taskVars, hostVars, stopVars, mainKeeps,
       ContainerUnhealthy, StreamBreaks, Interrupt, ComposeUp, RunReturns, PollTimer,
       CheckReady, ListContainers, RemoveFails, RemovalsDone, KillHandle, Subscribe,
       TrackerTakes, TrackerSends, Spawn, AppendHandle, SpawnFails, CloseErrCh, HostStarts,
       HostExits, HostReports, Ended
<1>2. ASSUME UNCHANGED <<why, result, container>>,
             UNCHANGED health \/ \E s \in Docker : ContainerUnhealthy(s),
             \/ main' = main
             \/ {main, main'} \subseteq {"compose", "hosts", "poll", "lock", "complete"}
             \/ {main, main'} \subseteq {"list", "remove", "kill"}
      PROVE  Unseen
  <2>1. UNCHANGED <<Up, Seen>>
    BY <1>2 DEF Up, Seen
  <2>2. UNCHANGED <<Phase, Served>>
    BY <1>2 DEF Phase, Served
  <2>3. \A s \in Docker : WasHealthy(s)' <=> WasHealthy(s)
    BY <1>2 DEF ContainerUnhealthy, WasHealthy, TypeOK
  <2>4. UNCHANGED Fit
    BY <2>3 DEF Fit
  <2> QED
    BY <1>2, <2>1, <2>2, <2>4 DEF Unseen
<1> QED
  BY <1>1, <1>2

\* Every step of Runner maps to a step of Session or to none.
LEMMA StepMaps == Inv /\ [Next]_vars => [S!Next]_S!vars
<1> SUFFICES ASSUME Inv, [Next]_vars
             PROVE  S!Next \/ Unseen
  BY DEF Unseen, S!vars, Up, Seen, Fit, Served
<1> USE DEF Inv, S!Next
<1>1. ASSUME NEW s \in Docker,
             \/ ContainerStarts(s) \/ ContainerDies(s)
             \/ ContainerHealthy(s) \/ RemoveContainer(s)
      PROVE  S!Next \/ Unseen
  BY <1>1, StartMaps, DownMaps, HealthMaps
<1>2. CASE CompleteReady
  BY <1>2, ServeMaps
<1>3. CASE EarlyStop \/ ServedStop
  BY <1>3, StopMaps
<1>4. CASE ListFails \/ KillPanics \/ StopReturns
  BY <1>4, EndMaps
<1> QED
  BY <1>1, <1>2, <1>3, <1>4, OtherSteps

(* The goroutines implement the session they promise, as far as safety      *)
(* goes: containers come up only while it starts, it serves only after all  *)
(* have been up and the checked ones healthy, it is torn down once, and it  *)
(* returns nil only after it has served and left no container running.      *)
THEOREM Implements == Spec => S!Safety
<1> QED
  BY InitMaps, StepMaps, Invariance, PTL DEF Spec, S!Safety

-----------------------------------------------------------------------------
(* The display. *)

\* The goroutine runs as long as the program.  Unless a draw is on its way or the tracker
\* is in the middle of an update, the screen is up to date or "lost" tells.
DisplayInv ==
  Alive =>
    /\ display \in {"starting", "select", "told", "drawn"}
    /\ drawn = status \/ lost \/ display = "told" \/ ~MutexFree

\* Whoever does not end an update leaves the tasks map alone or keeps its mutex.
LEMMA UpdateSteps ==
  ASSUME Next, ~UpdateEnds
  PROVE  UNCHANGED <<status, unsent>> \/ ~MutexFree'
<1>1. CASE TrackerTakes
  BY <1>1 DEF UpdateEnds, MutexFree
<1>2. CASE ~TrackerTakes /\ ~TrackerSends
  BY <1>2 DEF Next, Environment, Compose, Select, StopSteps, Tracker, Launcher, HostGoroutine,
       vars, ctlVars, dockerVars, taskVars, hostVars, stopVars, mainKeeps,
       ContainerStarts, ContainerDies, ContainerHealthy,
       ContainerUnhealthy, StreamBreaks, Interrupt, ServeExtraStop, ComposeUp, ComposeFails,
       RunReturns, PollTimer, CheckReady, PollCancelled, PollFailure, CompleteReady,
       CompleteReadyFails, ServeCancelled, ServeFailure, ListFails, ListContainers,
       RemoveContainer, RemoveFails, RemovalsDone, KillHandle, KillPanics, StopReturns,
       Subscribe, Spawn, AppendHandle, SpawnFails, LaunchError, CloseErrCh, HostStarts,
       HostExits, HostReports, Ended
<1> QED
  BY <1>1, <1>2 DEF UpdateEnds

LEMMA AliveBefore ==
  ASSUME Next, Alive'
  PROVE  Alive
BY DEF Next, Environment, Compose, Select, StopSteps, Tracker, Launcher, HostGoroutine,
       vars, ctlVars, dockerVars, taskVars, hostVars, stopVars, mainKeeps, Alive,
       ContainerStarts, ContainerDies, ContainerHealthy,
       ContainerUnhealthy, StreamBreaks, Interrupt, ServeExtraStop, ComposeUp, ComposeFails,
       RunReturns, PollTimer, CheckReady, PollCancelled, PollFailure, CompleteReady,
       CompleteReadyFails, ServeCancelled, ServeFailure, ListFails, ListContainers,
       RemoveContainer, RemoveFails, RemovalsDone, KillHandle, KillPanics, StopReturns,
       TrackerTakes, TrackerSends,
       Subscribe, Spawn, AppendHandle, SpawnFails, LaunchError, CloseErrCh, HostStarts,
       HostExits, HostReports, Ended

LEMMA DisplayStep == DisplayInv /\ [DisplayNext]_<<vars, displayVars>> => DisplayInv'
<1> SUFFICES ASSUME DisplayInv, [DisplayNext]_<<vars, displayVars>>, Alive'
             PROVE  DisplayInv'
  BY DEF DisplayInv
<1>1. CASE SessionStep
  <2>1. Next /\ Alive /\ IF UpdateEnds THEN Tell ELSE UNCHANGED displayVars
    BY <1>1, AliveBefore DEF SessionStep
  <2>2. CASE UpdateEnds
    BY <2>1, <2>2 DEF DisplayInv, Tell
  <2>3. CASE ~UpdateEnds
    BY <2>1, <2>3, UpdateSteps DEF DisplayInv, MutexFree, displayVars
  <2> QED
    BY <2>2, <2>3
<1>2. ASSUME UNCHANGED vars
      PROVE  Alive /\ UNCHANGED status /\ UNCHANGED unsent
  BY <1>2 DEF vars, ctlVars, taskVars, Alive
<1>3. CASE EnterSelect
  BY <1>2, <1>3 DEF EnterSelect, DisplayInv, MutexFree
<1>4. CASE Draw
  BY <1>2, <1>4 DEF Draw, DisplayInv
<1>5. CASE UNCHANGED <<vars, displayVars>>
  BY <1>2, <1>5 DEF DisplayInv, displayVars, MutexFree
<1> QED
  BY <1>1, <1>3, <1>4, <1>5 DEF DisplayNext

\* A display that waits shows what the tasks map says.
WaitsUpToDate == Alive /\ display = "select" /\ MutexFree => drawn = status \/ lost

(* No wakeup is lost: whatever else goes on in the session, printStatus waits in its  *)
(* select with an old screen only while an update is being made or after one that came *)
(* between its unlock and its select (local_runner.go:277 to 314).                     *)
THEOREM NoWakeupLost == DisplaySpec => []WaitsUpToDate
<1>1. DisplayInit => DisplayInv
  BY DEF DisplayInit, DisplayInv
<1>2. DisplayInv => WaitsUpToDate
  BY DEF DisplayInv, WaitsUpToDate
<1> QED
  BY <1>1, <1>2, DisplayStep, PTL DEF DisplaySpec
=============================================================================
