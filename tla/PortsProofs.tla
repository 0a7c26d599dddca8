---------------------------- MODULE PortsProofs ----------------------------
(***************************************************************************)
(* For any number of services, labels, container ports and any behaviour   *)
(* of other programs: the host ports of a session are distinct, every port *)
(* a container was told to listen on is published, no other program holds  *)
(* a port a service listens on, and a {{Service}} reference reaches the    *)
(* service it names from the moment that service listens.                  *)
(***************************************************************************)
EXTENDS Ports, SequenceTheorems, TLAPS

\* What is known of the ports that already have a host port, and of the one
\* reservePort is working on.
Granted ==
  /\ \A i \in 1 .. next - 1 : ports[i].host \in reserved
  /\ \A i, j \in 1 .. next - 1 : ports[i].host = ports[j].host => i = j
  /\ pc = "declare" => next = 1
  /\ pc \in {"up", "published"} => next = Len(ports) + 1
  /\ pc = "reserve" /\ next \in DOMAIN ports => candidate >= ports[next].number

\* A template's port is declared, and no label is declared twice for a protocol.
Unique ==
  /\ \A m \in args : \E i \in Declared(m) : ports[i].number = m.number
  /\ \A i, j \in DOMAIN ports :
       /\ ports[i].owner = ports[j].owner
       /\ ports[i].name = ports[j].name
       /\ ports[i].protocol = ports[j].protocol
       => i = j

\* Every declared port comes from a template, and the ports of one label, whatever
\* their protocols, have one number.
Mentioned ==
  /\ \A i \in DOMAIN ports : \E m \in args :
       m.owner = ports[i].owner /\ m.name = ports[i].name /\ m.protocol = ports[i].protocol
  /\ \A i, j \in DOMAIN ports :
       ports[i].owner = ports[j].owner /\ ports[i].name = ports[j].name
       => ports[i].number = ports[j].number

Inv == TypeOK /\ Granted /\ Unique /\ Mentioned

\* Host services listen only once compose is up, and other programs hold no port that
\* somebody of the session has bound.
NoneTaken ==
  /\ pc \in {"declare", "reserve", "up", "panicked"} => bound = {}
  /\ InUse \cap taken = {}

-----------------------------------------------------------------------------

\* WithPort keeps a port it finds and otherwise appends one at the end, so what
\* was declared stays where it was.
LEMMA WithPortGrows ==
  ASSUME TypeOK, NEW m \in Mention, WithPort(m)
  PROVE  /\ ports' \in Seq(Port)
         /\ Len(ports') >= Len(ports)
         /\ \A i \in 1 .. Len(ports) : ports'[i] = ports[i]
         /\ ports' = ports \/ (/\ Declared(m) = {}
                               /\ Len(ports') = Len(ports) + 1
                               /\ ports'[Len(ports) + 1] = NewPort(m))
<1>1. NewPort(m) \in Port
  BY DEF NewPort, Port, Mention
<1>2. CASE ports' = ports
  BY <1>2 DEF TypeOK
<1>3. CASE ports' = Append(ports, NewPort(m)) /\ Declared(m) = {}
  BY <1>1, <1>3 DEF TypeOK
<1> QED
  BY <1>2, <1>3 DEF WithPort

\* The types are kept by a declaration.
LEMMA WithPortTypes ==
  ASSUME TypeOK, NEW m \in Mention, WithPort(m)
  PROVE  TypeOK'
<1>1. ports' \in Seq(Port) /\ Len(ports') >= Len(ports)
  BY WithPortGrows
<1>2. next' \in 1 .. Len(ports') + 1
  BY <1>1 DEF TypeOK, WithPort
<1> QED
  BY <1>1, <1>2 DEF TypeOK, WithPort

\* A declaration keeps labels unique and leaves its own template declared.
LEMMA WithPortUnique ==
  ASSUME TypeOK, Unique, NEW m \in Mention, WithPort(m)
  PROVE  Unique'
<1>1. /\ ports' \in Seq(Port) /\ Len(ports') >= Len(ports)
      /\ \A i \in 1 .. Len(ports) : ports'[i] = ports[i]
      /\ ports' = ports \/ (/\ Declared(m) = {}
                            /\ Len(ports') = Len(ports) + 1
                            /\ ports'[Len(ports) + 1] = NewPort(m))
  BY WithPortGrows
<1>2. /\ DOMAIN ports = 1 .. Len(ports)
      /\ DOMAIN ports' = 1 .. Len(ports')
      /\ Len(ports) \in Nat /\ Len(ports') \in Nat
      /\ ports' # ports => Len(ports') = Len(ports) + 1 /\ ports'[Len(ports) + 1] = NewPort(m)
  BY <1>1 DEF TypeOK
<1>2a. Len(ports) \in Nat /\ Len(ports') \in Nat
  BY <1>2
<1>3. ASSUME NEW q \in args
      PROVE  \E i \in Declared(q)' : ports'[i].number = q.number
  <2>1. PICK i \in Declared(q) : ports[i].number = q.number
    BY DEF Unique
  <2>2. i \in 1 .. Len(ports)
    BY <1>2, <2>1 DEF Declared, Labelled
  <2>3. i \in 1 .. Len(ports') /\ ports'[i] = ports[i]
    <3>1. Len(ports') >= Len(ports) /\ ports'[i] = ports[i]
      BY <1>1, <2>2
    <3> QED
      BY <1>2a, <2>2, <3>1
  <2> QED
    BY <1>2, <2>1, <2>2, <2>3 DEF Declared, Labelled
<1>4. ASSUME args' = args \cup {m}, m \notin args
      PROVE  \E i \in Declared(m)' : ports'[i].number = m.number
  <2>1. CASE ports' = ports
    <3>1. pc # "panicked" /\ pc' = pc
      BY <1>4 DEF WithPort
    <3>2. \A i \in Labelled(m.owner, m.name) : ports[i].number = m.number
      BY <1>4, <3>1 DEF WithPort
    <3>3. Declared(m) # {}
      <4>1. NewPort(m) \in Port
        BY DEF NewPort, Port, Mention
      <4>2. Len(Append(ports, NewPort(m))) = Len(ports) + 1
        BY <4>1 DEF TypeOK
      <4>3. ports' # Append(ports, NewPort(m))
        BY <1>2a, <2>1, <4>2
      <4> QED
        BY <3>1, <4>3 DEF WithPort
    <3> QED
      BY <2>1, <3>2, <3>3, <1>2 DEF Declared, Labelled
  <2>2. CASE ports' # ports
    <3>1. Len(ports') = Len(ports) + 1 /\ ports'[Len(ports) + 1] = NewPort(m)
      BY <1>2, <2>2
    <3>2. Len(ports) + 1 \in DOMAIN ports'
      BY <1>2, <1>2a, <3>1
    <3>3. Len(ports) + 1 \in Declared(m)'
      BY <3>1, <3>2 DEF Declared, Labelled, NewPort
    <3>4. ports'[Len(ports) + 1].number = m.number
      BY <3>1 DEF NewPort
    <3> QED
      BY <3>3, <3>4
  <2> QED
    BY <2>1, <2>2
<1>5. \A q \in args' : \E i \in Declared(q)' : ports'[i].number = q.number
  <2>1. args' = args \/ args' = args \cup {m}
    BY DEF WithPort
  <2> QED
    BY <1>3, <1>4, <2>1
<1>6. ASSUME NEW i \in DOMAIN ports', NEW j \in DOMAIN ports',
             ports'[i].owner = ports'[j].owner, ports'[i].name = ports'[j].name,
             ports'[i].protocol = ports'[j].protocol
      PROVE  i = j
  <2>1. CASE i \in DOMAIN ports /\ j \in DOMAIN ports
    <3>1. ports'[i] = ports[i] /\ ports'[j] = ports[j]
      BY <1>1, <1>2, <2>1
    <3> QED
      BY <1>6, <2>1, <3>1 DEF Unique
  <2>2. ASSUME NEW k \in DOMAIN ports, ports' # ports,
               ports'[k].owner = ports'[Len(ports) + 1].owner,
               ports'[k].name = ports'[Len(ports) + 1].name,
               ports'[k].protocol = ports'[Len(ports) + 1].protocol
        PROVE  FALSE
    <3>1. ports'[k] = ports[k] /\ ports'[Len(ports) + 1] = NewPort(m) /\ Declared(m) = {}
      BY <1>1, <1>2, <2>2
    <3>2. k \in Declared(m)
      BY <3>1, <2>2 DEF Declared, Labelled, NewPort
    <3> QED
      BY <3>1, <3>2
  <2>3. CASE ports' = ports
    BY <2>1, <2>3, <1>2
  <2>4. CASE ports' # ports
    <3>1. \A k \in DOMAIN ports' : k \in DOMAIN ports \/ k = Len(ports) + 1
      BY <1>2, <2>4
    <3> QED
      BY <1>6, <2>1, <2>2, <2>4, <3>1
  <2> QED
    BY <2>3, <2>4
<1> QED
  BY <1>5, <1>6 DEF Unique

\* WithPort panics before it gives a label a second number.
LEMMA WithPortMentioned ==
  ASSUME TypeOK, Mentioned, NEW m \in Mention, WithPort(m)
  PROVE  Mentioned'
<1>1. CASE ports' = ports
  <2>1. args \subseteq args'
    BY DEF WithPort
  <2> QED
    BY <1>1, <2>1 DEF Mentioned
<1>2. CASE ports' # ports
  <2>1. /\ Len(ports) \in Nat /\ DOMAIN ports = 1 .. Len(ports)
        /\ DOMAIN ports' = 1 .. Len(ports) + 1
        /\ \A i \in DOMAIN ports : ports'[i] = ports[i]
        /\ ports'[Len(ports) + 1] = NewPort(m)
    BY <1>2, WithPortGrows DEF TypeOK
  <2>2. /\ args' = args \cup {m}
        /\ \A i \in Labelled(m.owner, m.name) : ports[i].number = m.number
    BY <1>2 DEF WithPort
  <2>3. \A i \in DOMAIN ports' : i \in DOMAIN ports \/ i = Len(ports) + 1
    BY <2>1
  <2>4. \A i \in DOMAIN ports' : \E q \in args' :
          /\ q.owner = ports'[i].owner /\ q.name = ports'[i].name
          /\ q.protocol = ports'[i].protocol
    BY <2>1, <2>2, <2>3 DEF Mentioned, NewPort
  <2>5. \A i \in DOMAIN ports :
          ports[i].owner = m.owner /\ ports[i].name = m.name => ports[i].number = m.number
    BY <2>2 DEF Labelled
  <2>6. ASSUME NEW i \in DOMAIN ports', NEW j \in DOMAIN ports',
               ports'[i].owner = ports'[j].owner, ports'[i].name = ports'[j].name
        PROVE  ports'[i].number = ports'[j].number
    BY <2>1, <2>3, <2>5, <2>6 DEF Mentioned, NewPort
  <2> QED
    BY <2>4, <2>6 DEF Mentioned
<1> QED
  BY <1>1, <1>2

\* The port under the loop gets a number no earlier port has.
LEMMA ReserveKeeps ==
  ASSUME Inv, Reserve
  PROVE  Inv'
<1> USE PortsAssumption
<1>1. /\ next \in DOMAIN ports /\ next \in 1 .. Len(ports)
      /\ next' = next + 1
      /\ DOMAIN ports = 1 .. Len(ports) /\ Len(ports) \in Nat
      /\ ports[next] \in Port
      /\ candidate \in Nat /\ candidate >= ports[next].number
      /\ candidate < ports[next].number + Window
      /\ candidate \notin reserved
      /\ reserved' = reserved \cup {candidate}
  BY DEF Inv, TypeOK, Granted, Reserve, InWindow
<1>2. ports' = [ports EXCEPT ![next].host = candidate]
  BY DEF Reserve
<1>3. [ports[next] EXCEPT !.host = candidate] \in Port
  BY <1>1 DEF Port
<1>4. /\ ports' \in Seq(Port) /\ Len(ports') = Len(ports) /\ DOMAIN ports' = DOMAIN ports
      /\ ports'[next] = [ports[next] EXCEPT !.host = candidate]
      /\ \A i \in DOMAIN ports : i # next => ports'[i] = ports[i]
  <2>1. ports \in Seq(Port)
    BY DEF Inv, TypeOK
  <2>2. ports' = [ports EXCEPT ![next] = [ports[next] EXCEPT !.host = candidate]]
    BY <1>2
  <2>3. ports' \in Seq(Port) /\ Len(ports') = Len(ports)
    BY <1>1, <1>3, <2>1, <2>2, ExceptSeq
  <2> QED
    BY <1>1, <2>1, <2>2, <2>3
<1>5. /\ ports'[next].host = candidate
      /\ \A i \in DOMAIN ports :
           /\ ports'[i].owner = ports[i].owner /\ ports'[i].name = ports[i].name
           /\ ports'[i].protocol = ports[i].protocol /\ ports'[i].number = ports[i].number
  <2>1. /\ ports'[next].host = candidate
        /\ ports'[next].owner = ports[next].owner /\ ports'[next].name = ports[next].name
        /\ ports'[next].protocol = ports[next].protocol
        /\ ports'[next].number = ports[next].number
    BY <1>1, <1>4 DEF Port
  <2> QED
    BY <1>4, <2>1
<1>6. candidate \in HostRange
  <2>1. ports[next].number \in Numbers /\ ports[next].number \in Nat
    BY <1>1 DEF Port
  <2>2. candidate \in ports[next].number .. ports[next].number + Window - 1
    BY <1>1, <2>1
  <2> QED
    BY <2>1, <2>2 DEF HostRange
<1>7. StartOf(next + 1) \in Nat /\ (next + 1 \in DOMAIN ports =>
                                     StartOf(next + 1) = ports'[next + 1].number)
  <2>1. CASE next + 1 \in DOMAIN ports
    <3>1. ports[next + 1] \in Port
      BY <2>1 DEF Inv, TypeOK
    <3> QED
      BY <1>5, <2>1, <3>1 DEF StartOf, Port
  <2>2. CASE next + 1 \notin DOMAIN ports
    BY <2>2 DEF StartOf
  <2> QED
    BY <2>1, <2>2
<1>8. TypeOK'
  <2>1. next' \in 1 .. Len(ports') + 1
    BY <1>1, <1>4
  <2> QED
    BY <1>4, <1>6, <1>7, <2>1 DEF Inv, TypeOK, Reserve
<1>9. Granted'
  <2>1. \A i \in 1 .. next - 1 : ports'[i].host = ports[i].host /\ ports[i].host \in reserved
    BY <1>1, <1>4 DEF Inv, Granted
  <2>2. \A i \in 1 .. next' - 1 : i = next \/ i \in 1 .. next - 1
    BY <1>1
  <2>3. \A i \in 1 .. next' - 1 : ports'[i].host \in reserved'
    BY <1>1, <1>5, <2>1, <2>2
  <2>4. \A i, j \in 1 .. next' - 1 : ports'[i].host = ports'[j].host => i = j
    BY <1>1, <1>5, <2>1, <2>2 DEF Inv, Granted
  <2>5. pc' = "reserve"
    BY DEF Reserve
  <2>6. next' \in DOMAIN ports' => candidate' >= ports'[next'].number
    <3>1. SUFFICES ASSUME next + 1 \in DOMAIN ports
                   PROVE  candidate' >= ports'[next + 1].number
      BY <1>1, <1>4
    <3> QED
      BY <1>7, <3>1 DEF Reserve
  <2> QED
    BY <2>3, <2>4, <2>5, <2>6 DEF Granted
<1>10. Unique'
  <2>1. \A m \in args : Declared(m)' = Declared(m)
    BY <1>4, <1>5 DEF Declared, Labelled
  <2>2. args' = args
    BY DEF Reserve
  <2>3. \A m \in args' : \E i \in Declared(m)' : ports'[i].number = m.number
    BY <1>5, <2>1, <2>2 DEF Inv, Unique, Declared, Labelled
  <2> QED
    BY <1>4, <1>5, <2>3 DEF Inv, Unique
<1>11. Mentioned'
  <2>1. args' = args
    BY DEF Reserve
  <2> QED
    BY <1>4, <1>5, <2>1 DEF Inv, Mentioned
<1> QED
  BY <1>8, <1>9, <1>10, <1>11 DEF Inv

\* Steps that leave ports and args alone do not disturb the labels.
LEMMA UniqueStable ==
  ASSUME Unique, Mentioned, UNCHANGED <<args, ports>>
  PROVE  Unique' /\ Mentioned'
BY DEF Unique, Mentioned, Declared, Labelled

\* The inductive step.
LEMMA Step ==
  ASSUME Inv, [Next]_vars
  PROVE  Inv'
<1> USE PortsAssumption
<1>0. TypeOK /\ Granted /\ Unique /\ Mentioned
  BY DEF Inv
<1>1. ASSUME NEW m \in Mention, WithPort(m)
      PROVE  Inv'
  <2>1. Granted'
    <3>1. next = 1 /\ next' = 1
      BY <1>0, <1>1 DEF Granted, WithPort
    <3>2. pc' \in {"declare", "panicked"}
      BY <1>1 DEF WithPort
    <3> QED
      BY <3>1, <3>2 DEF Granted
  <2> QED
    BY <1>0, <1>1, <2>1, WithPortTypes, WithPortUnique, WithPortMentioned DEF Inv
<1>2. CASE Generate
  <2>1. next = 1 /\ next' = 1
    BY <1>0, <1>2 DEF Granted, Generate
  <2>2. StartOf(1) \in Nat /\ (1 \in DOMAIN ports => StartOf(1) >= ports[1].number)
    <3>1. CASE 1 \in DOMAIN ports
      <4>1. ports[1] \in Port
        BY <1>0, <3>1 DEF TypeOK
      <4> QED
        <5>1. ports[1].number \in Nat
          BY <4>1 DEF Port
        <5> QED
          BY <3>1, <5>1 DEF StartOf
    <3>2. CASE 1 \notin DOMAIN ports
      BY <3>2 DEF StartOf
    <3> QED
      BY <3>1, <3>2
  <2>3. TypeOK'
    BY <1>0, <1>2, <2>2 DEF TypeOK, Generate
  <2>4. Granted'
    BY <1>0, <1>2, <2>1, <2>2 DEF Granted, Generate
  <2> QED
    BY <1>0, <1>2, <2>3, <2>4, UniqueStable DEF Inv, Generate
<1>3. CASE Skip
  <2>1. ports[next] \in Port /\ candidate \in Nat
    BY <1>0, <1>3 DEF TypeOK, Skip, InWindow
  <2>2. TypeOK'
    BY <1>0, <1>3, <2>1 DEF TypeOK, Skip
  <2>3. ports[next].number \in Nat /\ next \in DOMAIN ports
    BY <1>3, <2>1 DEF Port, Skip, InWindow
  <2>4. candidate' >= ports'[next'].number
    BY <1>0, <1>3, <2>1, <2>3 DEF Granted, Skip
  <2>5. Granted'
    BY <1>0, <1>3, <2>4 DEF Granted, Skip
  <2> QED
    BY <1>0, <1>3, <2>2, <2>5, UniqueStable DEF Inv, Skip
<1>4. CASE Reserve
  BY <1>4, ReserveKeeps
<1>5. CASE Exhausted
  BY <1>0, <1>5, UniqueStable DEF Inv, TypeOK, Granted, Exhausted
<1>6. CASE AllReserved
  <2>1. TypeOK' /\ Unique' /\ Mentioned'
    BY <1>0, <1>6, UniqueStable DEF TypeOK, AllReserved
  <2>2. Granted'
    BY <1>0, <1>6 DEF Granted, AllReserved
  <2> QED
    BY <2>1, <2>2 DEF Inv
<1>7. CASE Publish
  <2>1. TypeOK' /\ Unique' /\ Mentioned'
    BY <1>0, <1>7, UniqueStable DEF TypeOK, Publish
  <2>2. Granted'
    BY <1>0, <1>7 DEF Granted, Publish
  <2> QED
    BY <2>1, <2>2 DEF Inv
<1>8. ASSUME NEW p \in Protocols, NEW n \in HostRange, OthersBind(p, n) \/ OthersFree(p, n)
      PROVE  Inv'
  <2>1. TypeOK'
    BY <1>0, <1>8 DEF TypeOK, OthersBind, OthersFree
  <2>2. Granted' /\ Unique' /\ Mentioned'
    BY <1>0, <1>8, UniqueStable DEF Granted, OthersBind, OthersFree
  <2> QED
    BY <2>1, <2>2 DEF Inv
<1>9. ASSUME NEW m \in args, HostBinds(m) \/ HostExits(m)
      PROVE  Inv'
  <2>1. TypeOK'
    BY <1>0, <1>9 DEF TypeOK, HostBinds, HostExits
  <2>2. Granted' /\ Unique' /\ Mentioned'
    BY <1>0, <1>9, UniqueStable DEF Granted, HostBinds, HostExits
  <2> QED
    BY <2>1, <2>2 DEF Inv
<1>10. CASE UNCHANGED vars
  BY <1>0, <1>10, UniqueStable DEF Inv, TypeOK, Granted, vars
<1> QED
  BY <1>1, <1>2, <1>3, <1>4, <1>5, <1>6, <1>7, <1>8, <1>9, <1>10 DEF Next, Ended

\* The invariant holds throughout.
THEOREM Invariance == Spec => []Inv
<1>1. Init => Inv
  <2>1. SUFFICES ASSUME Init PROVE Inv
    OBVIOUS
  <2>2. TypeOK
    BY <2>1 DEF Init, TypeOK
  <2>3. Granted /\ Unique /\ Mentioned
    BY <2>1 DEF Init, Granted, Unique, Mentioned
  <2> QED
    BY <2>2, <2>3 DEF Inv
<1>2. Inv /\ [Next]_vars => Inv'
  BY Step
<1> QED
  BY <1>1, <1>2, PTL DEF Spec

\* Types and windows: every host port handed out is one reservePort may try.
THEOREM TypeCorrect == Spec => []TypeOK
<1>1. Inv => TypeOK
  BY DEF Inv
<1> QED
  BY <1>1, Invariance, PTL

\* No two ports of a session get the same host port, and none is left without.
THEOREM Distinct == Spec => []HostPortsDistinct
<1>1. Inv => HostPortsDistinct
  <2>1. SUFFICES ASSUME Inv PROVE HostPortsDistinct
    OBVIOUS
  <2>2. \A i, j \in 1 .. next - 1 : ports[i].host = ports[j].host => i = j
    BY <2>1 DEF Inv, Granted
  <2>3. ASSUME pc \in {"up", "published"}, NEW i \in DOMAIN ports
        PROVE  ports[i].host \in HostRange
    <3>1. i \in 1 .. next - 1
      BY <2>1, <2>3 DEF Inv, TypeOK, Granted
    <3> QED
      BY <2>1, <3>1 DEF Inv, TypeOK, Granted
  <2> QED
    BY <2>2, <2>3 DEF HostPortsDistinct
<1> QED
  BY <1>1, Invariance, PTL

\* When compose is up, every template of a container has exactly one published
\* port, of its own protocol and number.
THEOREM Published == Spec => []MentionsPublished
<1>1. Inv => MentionsPublished
  <2>1. SUFFICES ASSUME Inv, pc = "published", NEW m \in args, m.owner \notin onHost
                 PROVE  \E i \in DOMAIN ports : /\ Declared(m) = {i}
                                                /\ ports[i].number = OwnPort(m)
                                                /\ ports[i].host \in reserved
    BY DEF MentionsPublished
  <2>2. PICK i \in Declared(m) : ports[i].number = m.number
    BY <2>1 DEF Inv, Unique
  <2>3. i \in DOMAIN ports /\ Declared(m) = {i}
    BY <2>1 DEF Inv, Unique, Declared, Labelled
  <2>4. i \in 1 .. next - 1
    BY <2>1, <2>3 DEF Inv, TypeOK, Granted
  <2>5. ports[i].host \in reserved
    BY <2>1, <2>4 DEF Inv, Granted
  <2> QED
    BY <2>1, <2>2, <2>3, <2>5 DEF OwnPort
<1> QED
  BY <1>1, Invariance, PTL

-----------------------------------------------------------------------------
(* Other programs and the ports in use.                                    *)

\* Before compose is up nothing of the session is bound.
LEMMA NothingBound ==
  ASSUME pc # "published", bound = {}
  PROVE  InUse = {}
<1> QED
  BY DEF InUse

\* A host service's socket depends on the declared ports and on where it runs.
LEMMA SocketStable ==
  ASSUME UNCHANGED <<onHost, ports>>
  PROVE  \A m : Socket(m)' = Socket(m)
<1> QED
  BY DEF Socket, OwnPort, MustGetPort, Labelled

\* The inductive step: docker and host services bind only what is free, and the other
\* programs only what nobody has bound.
LEMMA StrangersStep ==
  ASSUME NoneTaken, [Next]_vars
  PROVE  NoneTaken'
<1>1. ASSUME NEW m \in Mention, WithPort(m)
      PROVE  NoneTaken'
  <2>1. pc' \in {"declare", "panicked"} /\ bound' = {}
    BY <1>1 DEF WithPort, NoneTaken
  <2>2. InUse' = {}
    BY <2>1 DEF InUse
  <2> QED
    BY <2>1, <2>2 DEF NoneTaken
<1>2. CASE Generate \/ Skip \/ Reserve \/ Exhausted \/ AllReserved
  <2>1. pc' \in {"reserve", "up", "panicked"} /\ bound' = {}
    BY <1>2 DEF Generate, Skip, Reserve, Exhausted, AllReserved, NoneTaken
  <2>2. InUse' = {}
    BY <2>1 DEF InUse
  <2> QED
    BY <2>1, <2>2 DEF NoneTaken
<1>3. CASE Publish
  <2>1. bound = {} /\ bound' = {} /\ UNCHANGED <<onHost, ports, taken>>
    BY <1>3 DEF Publish, NoneTaken
  <2>2. CASE Clash
    <3>1. pc' = "failed"
      BY <1>3, <2>2 DEF Publish
    <3>2. InUse' = {}
      BY <2>1, <3>1 DEF InUse
    <3> QED
      BY <2>1, <3>2 DEF NoneTaken
  <2>3. CASE ~Clash
    <3>1. ASSUME NEW x \in InUse', x \in taken
          PROVE  FALSE
      <4>1. PICK i \in DOMAIN ports :
              ports[i].owner \notin onHost /\ x = <<ports[i].protocol, ports[i].host>>
        BY <2>1, <3>1 DEF InUse
      <4> QED
        BY <2>3, <3>1, <4>1 DEF Clash
    <3> QED
      BY <2>1, <3>1 DEF NoneTaken
  <2> QED
    BY <2>2, <2>3
<1>4. ASSUME NEW m \in args, HostBinds(m)
      PROVE  NoneTaken'
  <2>1. /\ UNCHANGED <<pc, onHost, ports, taken>> /\ bound' = bound \cup {m}
        /\ pc = "published" /\ Socket(m) \notin taken
    BY <1>4 DEF HostBinds
  <2>2. \A q : Socket(q)' = Socket(q)
    BY <2>1, SocketStable
  <2>3. InUse' = InUse \cup {Socket(m)}
    BY <2>1, <2>2 DEF InUse
  <2> QED
    BY <2>1, <2>3 DEF NoneTaken
<1>5. ASSUME NEW m \in args, HostExits(m)
      PROVE  NoneTaken'
  <2>1. UNCHANGED <<onHost, ports, taken, bound>> /\ pc' = "failed" /\ pc = "published"
    BY <1>5 DEF HostExits
  <2>2. \A q : Socket(q)' = Socket(q)
    BY <2>1, SocketStable
  <2>3. InUse' \subseteq InUse
    BY <2>1, <2>2 DEF InUse
  <2> QED
    BY <2>1, <2>3 DEF NoneTaken
<1>6. ASSUME NEW p \in Protocols, NEW n \in HostRange, OthersBind(p, n) \/ OthersFree(p, n)
      PROVE  NoneTaken'
  <2>1. UNCHANGED <<pc, onHost, ports, bound>>
    BY <1>6 DEF OthersBind, OthersFree
  <2>2. \A q : Socket(q)' = Socket(q)
    BY <2>1, SocketStable
  <2>3. InUse' = InUse
    BY <2>1, <2>2 DEF InUse
  <2>4. taken' \subseteq taken \/ (taken' = taken \cup {<<p, n>>} /\ <<p, n>> \notin InUse)
    BY <1>6 DEF OthersBind, OthersFree
  <2> QED
    BY <2>1, <2>3, <2>4 DEF NoneTaken
<1>7. CASE UNCHANGED vars
  <2>1. UNCHANGED <<pc, onHost, ports, taken, bound>>
    BY <1>7 DEF vars
  <2>2. InUse' = InUse
    BY <2>1, SocketStable DEF InUse
  <2> QED
    BY <2>1, <2>2 DEF NoneTaken
<1> QED
  BY <1>1, <1>2, <1>3, <1>4, <1>5, <1>6, <1>7 DEF Next, Ended

\* No other program ever holds a port that a service of the session has bound.
THEOREM StrangersKeptOut == Spec => []NoneTaken
<1>1. Init => NoneTaken
  BY NothingBound DEF Init, NoneTaken
<1>2. NoneTaken /\ [Next]_vars => NoneTaken'
  BY StrangersStep
<1> QED
  BY <1>1, <1>2, PTL DEF Spec

-----------------------------------------------------------------------------
(* Templates reach the service they name.                                   *)

\* MustGetPort's first port exists: a declared label has at most one port for each of
\* the two protocols.  It has the owner, the label and the number of the template.
LEMMA MustGetPortFacts ==
  ASSUME Inv, NEW r \in args
  PROVE  \E k \in DOMAIN ports :
           /\ MustGetPort(r.owner, r.name) = ports[k]
           /\ ports[k].owner = r.owner /\ ports[k].name = r.name
           /\ ports[k].number = r.number
<1> DEFINE L == Labelled(r.owner, r.name)
<1>1. PICK i \in L : ports[i].number = r.number
  BY DEF Inv, Unique, Declared
<1>2. /\ \A j \in L : j \in Nat /\ ports[j].protocol \in {"tcp", "udp"}
      /\ \A j, l \in L : ports[j].protocol = ports[l].protocol => j = l
  <2>1. \A j \in L : /\ j \in DOMAIN ports /\ j \in Nat /\ ports[j] \in Port
                    /\ ports[j].owner = r.owner /\ ports[j].name = r.name
    BY DEF Inv, TypeOK, Labelled
  <2>2. \A j \in L : ports[j].protocol \in {"tcp", "udp"}
    BY <2>1 DEF Port, Protocols
  <2>3. \A j, l \in L : ports[j].protocol = ports[l].protocol => j = l
    BY <2>1 DEF Inv, Unique
  <2> QED
    BY <2>1, <2>2, <2>3
<1>3. \E k \in L : \A j \in L : k <= j
  <2>1. CASE \A j \in L : i <= j
    BY <1>1, <2>1
  <2>2. ASSUME NEW j \in L, ~(i <= j)
        PROVE  \E k \in L : \A l \in L : k <= l
    <3>1. \A l \in L : l = i \/ l = j
      BY <1>1, <1>2, <2>2
    <3> QED
      BY <1>1, <1>2, <2>2, <3>1
  <2> QED
    BY <2>1, <2>2
<1> DEFINE k == CHOOSE k \in L : \A j \in L : k <= j
<1>4. k \in L
  BY <1>3
<1>5. MustGetPort(r.owner, r.name) = ports[k]
  BY DEF MustGetPort
<1> HIDE DEF k
<1>6. ports[k].number = r.number
  BY <1>1, <1>4 DEF Inv, Mentioned, Labelled
<1> QED
  BY <1>4, <1>5, <1>6 DEF Labelled

\* The port has a template of its own protocol and number.
LEMMA TemplateOf ==
  ASSUME Inv, NEW k \in DOMAIN ports
  PROVE  \E m \in args : /\ m.owner = ports[k].owner /\ m.name = ports[k].name
                         /\ m.protocol = ports[k].protocol /\ m.number = ports[k].number
<1>1. PICK m \in args : /\ m.owner = ports[k].owner /\ m.name = ports[k].name
                        /\ m.protocol = ports[k].protocol
  BY DEF Inv, Mentioned
<1>2. PICK i \in Declared(m) : ports[i].number = m.number
  BY DEF Inv, Unique
<1>3. ports[i].number = ports[k].number
  BY <1>1, <1>2 DEF Inv, Mentioned, Declared, Labelled
<1> QED
  BY <1>1, <1>2, <1>3

\* Whichever service of the session listens on the host port of t's port is t: no other
\* port has it, whatever the protocol.
LEMMA OnlyOwnerAtHost ==
  ASSUME Inv, pc = "published", NEW k \in DOMAIN ports, NEW p,
         NEW m \in AtHost(p, ports[k].host)
  PROVE  m.owner = ports[k].owner
<1>1. m \in args
  BY DEF AtHost
<1>2. \A i \in DOMAIN ports : ports[i].host = ports[k].host => i = k
  BY DEF Inv, TypeOK, Granted
<1>3. CASE m.owner \in onHost
  <2>1. MustGetPort(m.owner, m.name).host = ports[k].host
    BY <1>3 DEF AtHost, Socket, OwnPort
  <2>2. PICK i \in DOMAIN ports :
          MustGetPort(m.owner, m.name) = ports[i] /\ ports[i].owner = m.owner
    BY <1>1, MustGetPortFacts
  <2> QED
    BY <1>2, <2>1, <2>2
<1>4. CASE m.owner \notin onHost
  <2>1. PICK i \in Declared(m) : ports[i].host = ports[k].host
    BY <1>4 DEF AtHost
  <2> QED
    BY <1>2, <2>1 DEF Declared, Labelled
<1> QED
  BY <1>3, <1>4

\* Once t listens, it answers at its host port under the label of the reference, and
\* no other program has bound that port.
LEMMA ListenerAtHost ==
  ASSUME Inv, NoneTaken, pc = "published", NEW r \in args, NEW k \in DOMAIN ports,
         MustGetPort(r.owner, r.name) = ports[k],
         ports[k].owner = r.owner, ports[k].name = r.name,
         Listens(r.owner, r.name)
  PROVE  /\ \E m \in AtHost(ports[k].protocol, ports[k].host) : m.name = r.name
         /\ <<ports[k].protocol, ports[k].host>> \notin taken
<1>1. CASE r.owner \in onHost
  <2>1. PICK m \in bound : /\ m.owner = r.owner /\ m.name = r.name
                           /\ m.protocol = ports[k].protocol
    BY <1>1 DEF Listens, Transport
  <2>2. m \in args /\ Socket(m) = <<ports[k].protocol, ports[k].host>>
    BY <1>1, <2>1 DEF Socket, OwnPort, Inv, TypeOK
  <2>3. m \in AtHost(ports[k].protocol, ports[k].host)
    BY <1>1, <2>1, <2>2 DEF AtHost
  <2>4. Socket(m) \in InUse
    BY <2>1 DEF InUse
  <2> QED
    BY <2>1, <2>2, <2>3, <2>4 DEF NoneTaken
<1>2. CASE r.owner \notin onHost
  <2>1. PICK m \in args : /\ m.owner = ports[k].owner /\ m.name = ports[k].name
                          /\ m.protocol = ports[k].protocol
    BY TemplateOf
  <2>2. k \in Declared(m)
    BY <2>1 DEF Declared, Labelled
  <2>3. m \in AtHost(ports[k].protocol, ports[k].host)
    BY <1>2, <2>1, <2>2 DEF AtHost
  <2>4. <<ports[k].protocol, ports[k].host>> \in InUse
    BY <1>2 DEF InUse
  <2> QED
    BY <2>1, <2>3, <2>4 DEF NoneTaken
<1> QED
  BY <1>1, <1>2

\* A {{Service}} reference from any service to any other is never answered by a third
\* service of the session, and from the moment the named service listens it is
\* answered by that service, under the label, and by no other program.
THEOREM ReferencesReached == Spec => []ReferencesReach
<1>1. Inv /\ NoneTaken => ReferencesReach
  <2> SUFFICES ASSUME Inv, NoneTaken, pc = "published", NEW s \in Services, NEW r \in args
               PROVE  LET answer == Answering(s, r.owner, r.name) IN
                      /\ \A m \in answer : m.owner = r.owner
                      /\ Listens(r.owner, r.name) =>
                           /\ \E m \in answer : m.name = r.name
                           /\ ~StrangerAnswers(s, r.owner, r.name)
    BY DEF ReferencesReach
  <2>1. PICK k \in DOMAIN ports : /\ MustGetPort(r.owner, r.name) = ports[k]
                                  /\ ports[k].owner = r.owner /\ ports[k].name = r.name
                                  /\ ports[k].number = r.number
    BY MustGetPortFacts
  <2>2. Transport(r.owner, r.name) = ports[k].protocol
    BY <2>1 DEF Transport
  <2>3. CASE s \in onHost \/ r.owner \in onHost
    <3> DEFINE address == ServiceAddress(s, r.owner, r.name)
    <3>1. OnMachine(s, address) /\ address.number = ports[k].host
      BY <2>1, <2>3 DEF ServiceAddress, OnMachine
    <3>2. /\ Answering(s, r.owner, r.name) = AtHost(ports[k].protocol, ports[k].host)
          /\ StrangerAnswers(s, r.owner, r.name) =>
               <<ports[k].protocol, ports[k].host>> \in taken
      BY <2>2, <3>1 DEF Answering, StrangerAnswers
    <3> QED
      BY <2>1, <3>2, OnlyOwnerAtHost, ListenerAtHost
  <2>4. CASE s \notin onHost /\ r.owner \notin onHost
    <3>1. ServiceAddress(s, r.owner, r.name) = [via |-> "dns", number |-> ports[k].number]
      BY <2>1, <2>4 DEF ServiceAddress
    <3>2. /\ Answering(s, r.owner, r.name) =
               InContainer(r.owner, ports[k].protocol, ports[k].number)
          /\ ~StrangerAnswers(s, r.owner, r.name)
      BY <2>2, <3>1 DEF Answering, StrangerAnswers, OnMachine
    <3>3. PICK m \in args : /\ m.owner = ports[k].owner /\ m.name = ports[k].name
                            /\ m.protocol = ports[k].protocol /\ m.number = ports[k].number
      BY TemplateOf
    <3>4. m \in InContainer(r.owner, ports[k].protocol, ports[k].number)
      BY <2>1, <2>4, <3>3 DEF InContainer, OwnPort
    <3> QED
      BY <2>1, <3>2, <3>3, <3>4 DEF InContainer
  <2> QED
    BY <2>3, <2>4
<1> QED
  BY <1>1, Invariance, StrangersKeptOut, PTL
=============================================================================
