------------------------------- MODULE Ports -------------------------------
(***************************************************************************)
(* The ports of a session: how components declare them (Service.WithPort,  *)
(* manifest.go), how the runner reserves a host port for each of them      *)
(* before anything runs (generateDockerCompose and reservePort,            *)
(* local_runner.go) and what the {{Port}} and {{Service}} templates are    *)
(* turned into (LocalRunner.applyTemplate) for services in docker and      *)
(* services overridden with a host executable.                             *)
(*                                                                         *)
(* reservePort probes a port by binding and closing it, so other programs  *)
(* take and free ports between a probe and the moment docker publishes, or *)
(* a host service, which starts after that, begins to listen.              *)
(***************************************************************************)
EXTENDS Integers, Sequences, FiniteSets

CONSTANTS
  NumServices,  \* services are numbered in manifest order
  Names,        \* port labels
  Numbers,      \* container port numbers
  Window,       \* how many ports reservePort tries (1000 in the code)
  MaxPorts,     \* model bound on the declared ports
  MaxTaken      \* model bound on what other programs hold at a time

ASSUME PortsAssumption ==
  /\ NumServices \in Nat /\ Window \in Nat /\ MaxPorts \in Nat /\ MaxTaken \in Nat
  /\ Numbers \subseteq Nat \ {0}

Services  == 1 .. NumServices
Protocols == {"tcp", "udp"}

\* A host port of 0 is one that is not assigned yet.
Port == [owner : Services, name : Names, number : Numbers, protocol : Protocols, host : Nat]

\* A {{Port name number}} or {{PortUDP name number}} template of a service.
Mention == [owner : Services, name : Names, number : Numbers, protocol : Protocols]

VARIABLES
  pc,         \* "declare", "reserve", "up", "published", "failed" or "panicked"
  onHost,     \* services in the runner's overrides
  args,       \* the {{Port}} and {{PortUDP}} templates in the arguments of services
  ports,      \* all declared ports, in the order generateDockerCompose visits them
  next,       \* the port being reserved
  candidate,  \* the host port reservePort tries for it
  reserved,   \* reservedPorts
  taken,      \* <<protocol, number>> other programs have bound
  bound       \* the templates of host services on whose ports they listen

vars == <<pc, onHost, args, ports, next, candidate, reserved, taken, bound>>

\* Host ports reservePort can hand out.
HostRange == UNION {n .. n + Window - 1 : n \in Numbers}

\* Types; every host port handed out lies in the window of some port.  (Code:
\* reservePort's loop bounds, Service.Ports, reservedPorts.)
TypeOK ==
  /\ pc \in {"declare", "reserve", "up", "published", "failed", "panicked"}
  /\ onHost \subseteq Services
  /\ args \subseteq Mention
  /\ ports \in Seq(Port)
  /\ next \in 1 .. Len(ports) + 1
  /\ candidate \in Nat
  /\ reserved \subseteq HostRange
  /\ taken \subseteq Protocols \X HostRange
  /\ bound \subseteq args

Init ==
  /\ pc = "declare"
  /\ onHost \in SUBSET Services
  /\ args = {}
  /\ ports = <<>>
  /\ next = 1
  /\ candidate = 0
  /\ reserved = {}
  /\ taken = {}
  /\ bound = {}

-----------------------------------------------------------------------------
(* Declaring ports.                                                        *)

Labelled(s, name) == {i \in DOMAIN ports : ports[i].owner = s /\ ports[i].name = name}

Declared(m) == {i \in Labelled(m.owner, m.name) : ports[i].protocol = m.protocol}

NewPort(m) == [owner |-> m.owner, name |-> m.name, number |-> m.number,
               protocol |-> m.protocol, host |-> 0]

\* Mutant: a port counts as present when its name does, whatever its protocol.
WithPortByName(m) ==
  /\ pc = "declare"
  /\ Len(ports) < MaxPorts
  /\ ports # <<>> => ports[Len(ports)].owner <= m.owner
  /\ IF \E i \in Labelled(m.owner, m.name) : ports[i].number # m.number
     THEN pc' = "panicked" /\ UNCHANGED <<args, ports>>
     ELSE /\ ports' = IF Labelled(m.owner, m.name) # {} THEN ports ELSE Append(ports, NewPort(m))
          /\ args' = args \cup {m}
          /\ UNCHANGED pc
  /\ UNCHANGED <<onHost, next, candidate, reserved, taken, bound>>

\* WithArgs and WithEnv scan an argument for templates, declare the port each of
\* them mentions and keep the argument.  Services are built one after the other.
WithPort(m) ==
  /\ pc = "declare"
  /\ Len(ports) < MaxPorts
  /\ ports # <<>> => ports[Len(ports)].owner <= m.owner
  /\ IF \E i \in Labelled(m.owner, m.name) : ports[i].number # m.number
     THEN pc' = "panicked" /\ UNCHANGED <<args, ports>>
     ELSE /\ ports' = IF Declared(m) # {} THEN ports ELSE Append(ports, NewPort(m))
          /\ args' = args \cup {m}
          /\ UNCHANGED pc
  /\ UNCHANGED <<onHost, next, candidate, reserved, taken, bound>>

-----------------------------------------------------------------------------
(* Reserving host ports.                                                   *)

\* reservePort's loop starts at the container port number.
StartOf(i) == IF i \in DOMAIN ports THEN ports[i].number ELSE 0

Generate ==
  /\ pc = "declare"
  /\ pc' = "reserve"
  /\ candidate' = StartOf(1)
  /\ UNCHANGED <<onHost, args, ports, next, reserved, taken, bound>>

\* Mutant: the loop runs once too often.
InWindowInclusive == next \in DOMAIN ports /\ candidate <= ports[next].number + Window

InWindow == next \in DOMAIN ports /\ candidate < ports[next].number + Window

Skip ==
  /\ pc = "reserve"
  /\ InWindow
  /\ candidate \in reserved \/ <<ports[next].protocol, candidate>> \in taken
  /\ candidate' = candidate + 1
  /\ UNCHANGED <<pc, onHost, args, ports, next, reserved, taken, bound>>

\* Mutant: only the probe is trusted, the reservation is not remembered.
ReserveUnrecorded ==
  /\ pc = "reserve"
  /\ InWindow
  /\ candidate \notin reserved
  /\ <<ports[next].protocol, candidate>> \notin taken
  /\ ports' = [ports EXCEPT ![next].host = candidate]
  /\ next' = next + 1
  /\ candidate' = StartOf(next + 1)
  /\ UNCHANGED <<pc, onHost, args, reserved, taken, bound>>

Reserve ==
  /\ pc = "reserve"
  /\ InWindow
  /\ candidate \notin reserved
  /\ <<ports[next].protocol, candidate>> \notin taken
  /\ reserved' = reserved \cup {candidate}
  /\ ports' = [ports EXCEPT ![next].host = candidate]
  /\ next' = next + 1
  /\ candidate' = StartOf(next + 1)
  /\ UNCHANGED <<pc, onHost, args, taken, bound>>

\* "BUG: could not reserve a port".
Exhausted ==
  /\ pc = "reserve"
  /\ next \in DOMAIN ports /\ ~InWindow
  /\ pc' = "panicked"
  /\ UNCHANGED <<onHost, args, ports, next, candidate, reserved, taken, bound>>

AllReserved ==
  /\ pc = "reserve"
  /\ next = Len(ports) + 1
  /\ pc' = "up"
  /\ UNCHANGED <<onHost, args, ports, next, candidate, reserved, taken, bound>>

\* docker compose binds the host ports of the containers, or fails on the first
\* that another program has bound meanwhile.
Clash == \E i \in DOMAIN ports :
           ports[i].owner \notin onHost /\ <<ports[i].protocol, ports[i].host>> \in taken

Publish ==
  /\ pc = "up"
  /\ pc' = IF Clash THEN "failed" ELSE "published"
  /\ UNCHANGED <<onHost, args, ports, next, candidate, reserved, taken, bound>>

-----------------------------------------------------------------------------
(* Resolving templates.                                                    *)

\* MustGetPort: the first port with that label, whatever its protocol.
MustGetPort(s, name) ==
  ports[CHOOSE i \in Labelled(s, name) : \A j \in Labelled(s, name) : i <= j]

\* {{Port}} and {{PortUDP}}: the number m.owner is told to listen on.
OwnPort(m) == IF m.owner \in onHost THEN MustGetPort(m.owner, m.name).host ELSE m.number

\* Mutant: a container uses the container port of a service on the host.
ServiceAddressContainerPort(s, t, label) ==
  LET p == MustGetPort(t, label)
  IN IF s \in onHost THEN [via |-> "localhost", number |-> p.host]
     ELSE IF t \in onHost THEN [via |-> "host.docker.internal", number |-> p.number]
     ELSE [via |-> "dns", number |-> p.number]

\* {{Service t label}} in an argument of s, cases A to D of the code.  "dns" is
\* the compose network's name for container t.
ServiceAddress(s, t, label) ==
  LET p == MustGetPort(t, label)
  IN IF s \in onHost THEN [via |-> "localhost", number |-> p.host]
     ELSE IF t \in onHost THEN [via |-> "host.docker.internal", number |-> p.host]
     ELSE [via |-> "dns", number |-> p.number]

-----------------------------------------------------------------------------
(* Host services, which are started when compose is up, and other programs. *)

\* What a template of a host service makes it listen on.
Socket(m) == <<m.protocol, OwnPort(m)>>

\* Its port is free: it listens there.
HostBinds(m) ==
  /\ pc = "published"
  /\ m.owner \in onHost
  /\ m \notin bound
  /\ Socket(m) \notin taken
  /\ bound' = bound \cup {m}
  /\ UNCHANGED <<pc, onHost, args, ports, next, candidate, reserved, taken>>

\* It is not: the executable exits with an error, which ends the session, or goes on
\* without that port and may try again.
HostExits(m) ==
  /\ pc = "published"
  /\ m.owner \in onHost
  /\ m \notin bound
  /\ Socket(m) \in taken
  /\ pc' = "failed"
  /\ UNCHANGED <<onHost, args, ports, next, candidate, reserved, taken, bound>>

\* The host's ports that docker or a host service has bound.
InUse ==
  {<<ports[i].protocol, ports[i].host>> :
     i \in {j \in DOMAIN ports : pc = "published" /\ ports[j].owner \notin onHost}} \cup
  {Socket(m) : m \in bound}

\* Other programs take what nobody has bound, reserved or not.
OthersBind(protocol, n) ==
  /\ pc \in {"declare", "reserve", "up", "published"}
  /\ Cardinality(taken) < MaxTaken
  /\ <<protocol, n>> \notin InUse
  /\ taken' = taken \cup {<<protocol, n>>}
  /\ UNCHANGED <<pc, onHost, args, ports, next, candidate, reserved, bound>>

OthersFree(protocol, n) ==
  /\ pc \in {"declare", "reserve", "up", "published"}
  /\ <<protocol, n>> \in taken
  /\ taken' = taken \ {<<protocol, n>>}
  /\ UNCHANGED <<pc, onHost, args, ports, next, candidate, reserved, bound>>

Ended == pc \in {"published", "failed", "panicked"} /\ UNCHANGED vars

Next ==
  \/ \E m \in Mention : WithPort(m)
  \/ Generate \/ Skip \/ Reserve \/ Exhausted \/ AllReserved \/ Publish
  \/ \E m \in args : HostBinds(m) \/ HostExits(m)
  \/ \E p \in Protocols, n \in HostRange : OthersBind(p, n) \/ OthersFree(p, n)
  \/ Ended

Spec == Init /\ [][Next]_vars

-----------------------------------------------------------------------------
(* Who answers at an address.                                              *)

\* The templates whose service listens on the host machine: a host service that has
\* bound its port, or a container whose port is published there.
AtHost(protocol, n) ==
  {m \in args : IF m.owner \in onHost THEN m \in bound /\ Socket(m) = <<protocol, n>>
                ELSE \E i \in Declared(m) :
                       ports[i].protocol = protocol /\ ports[i].host = n}

\* Those that listen in the container of t.
InContainer(t, protocol, n) ==
  {m \in args : m.owner = t /\ m.protocol = protocol /\ OwnPort(m) = n}

\* "localhost" is the machine only for services that run on it.
OnMachine(s, address) ==
  address.via = "host.docker.internal" \/ (address.via = "localhost" /\ s \in onHost)

\* The transport a reference to t is for: that of the port it is resolved to.
Transport(t, label) == MustGetPort(t, label).protocol

\* Which services of the session answer s when it calls t.
Answering(s, t, label) ==
  LET address == ServiceAddress(s, t, label) IN
  IF OnMachine(s, address) THEN AtHost(Transport(t, label), address.number)
  ELSE InContainer(IF address.via = "dns" THEN t ELSE s, Transport(t, label), address.number)

\* Another program does.
StrangerAnswers(s, t, label) ==
  LET address == ServiceAddress(s, t, label) IN
  OnMachine(s, address) /\ <<Transport(t, label), address.number>> \in taken

\* t listens on the port of that label: a container does once it has started.
Listens(t, label) ==
  t \in onHost =>
    \E m \in bound : m.owner = t /\ m.name = label /\ m.protocol = Transport(t, label)

-----------------------------------------------------------------------------
(* Properties.                                                             *)

\* No two ports of the session, of whatever services and protocols, are given
\* the same host port, and the session does not come up with a port left out:
\* reservePort never consults the port again, so a second grant would only show
\* when docker or a host process fails to bind it.
HostPortsDistinct ==
  /\ \A i, j \in 1 .. next - 1 : ports[i].host = ports[j].host => i = j
  /\ pc \in {"up", "published"} => \A i \in DOMAIN ports : ports[i].host \in HostRange

\* When compose is up, every port a container was told to listen on is published
\* once, for its own protocol: of two templates with one label and two protocols
\* (p2p of the beacon node) neither is lost.
MentionsPublished ==
  pc = "published" =>
    \A m \in args : m.owner \notin onHost =>
      \E i \in DOMAIN ports :
        /\ Declared(m) = {i}
        /\ ports[i].number = OwnPort(m)
        /\ ports[i].host \in reserved

\* Whichever services run on the host, a {{Service t label}} reference from any service
\* is answered by t under that label and by nobody else, from the moment t listens; a
\* host service does so some time after compose is up.  Until then a program that has
\* taken its port answers in its place (local_runner.go:461 closes the probe, runOnHost
\* starts the service much later), but never another service of the session.
ReferencesReach ==
  pc = "published" =>
    \A s \in Services : \A r \in args :
      LET answer == Answering(s, r.owner, r.name) IN
      /\ \A m \in answer : m.owner = r.owner
      /\ Listens(r.owner, r.name) =>
           /\ \E m \in answer : m.name = r.name
           /\ ~StrangerAnswers(s, r.owner, r.name)
=============================================================================
