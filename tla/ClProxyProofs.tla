--------------------------- MODULE ClProxyProofs ---------------------------
(***************************************************************************)
(* For any number of requests of any kinds: with a CL that waits for each   *)
(* answer both execution clients process requests in the same order, the   *)
(* secondary is never asked to build, and an answer of the primary is       *)
(* delivered.                                                              *)
(***************************************************************************)
EXTENDS ClProxy, FiniteSetTheorems, SequenceTheorems, TLAPS

\* What has not arrived has no handler, and a handler has returned exactly when
\* its request has a reply.
Handled ==
  /\ \A i \in Requests : i \notin Arrived => at[i] = "idle" /\ reply[i] = "none"
  /\ \A i \in Arrived : at[i] # "idle" /\ (at[i] = "returned" <=> reply[i] # "none")

\* The CL waits: only its last request can be without a reply.
OneAtATime == \A i \in Arrived : reply[i] = "none" => i = Len(sent)

\* Past the primary a request has been processed by it; the secondary has
\* processed only requests that are over.
PrimaryFirst ==
  /\ \A i \in Arrived : at[i] \in {"processed", "answered", "secondary"}
                          => \E m \in 1 .. Len(primary) : primary[m] = i
  /\ \A n \in 1 .. Len(secondary) : /\ secondary[n].request \in Arrived
                                    /\ at[secondary[n].request] = "returned"

\* What is with the primary has arrived, and not before it was sent on.
NoneEarly ==
  \A m \in 1 .. Len(primary) : /\ primary[m] \in Arrived
                               /\ at[primary[m]] \notin {"read", "primary"}

\* What is on its way to the secondary is something it is sent.
ForSecondary == \A i \in Arrived : at[i] = "secondary" => ~PrimaryOnly(i)

Inv == TypeOK /\ Handled /\ PrimaryFirst /\ NoneEarly /\ ForSecondary

-----------------------------------------------------------------------------

\* A sequence that stays or is appended to.
LEMMA GrowsByOne ==
  ASSUME NEW S, NEW s \in Seq(S), NEW e \in S, NEW t, t = s \/ t = Append(s, e)
  PROVE  /\ t \in Seq(S)
         /\ Len(t) \in {Len(s), Len(s) + 1}
         /\ \A n \in 1 .. Len(s) : t[n] = s[n]
         /\ \A n \in 1 .. Len(t) : n \in 1 .. Len(s) \/ (n = Len(s) + 1 /\ t[n] = e)
<1>1. CASE t = s
  BY <1>1
<1>2. CASE t = Append(s, e)
  BY <1>2, AppendProperties
<1> QED
  BY <1>1, <1>2

\* What an appended sequence holds, of whatever type.
LEMMA AppendedAt ==
  ASSUME NEW S, NEW s \in Seq(S), NEW e, NEW n \in 1 .. Len(Append(s, e))
  PROVE  (n \in 1 .. Len(s) /\ Append(s, e)[n] = s[n]) \/ (n = Len(s) + 1 /\ Append(s, e)[n] = e)
<1>1. s \in Seq(S \cup {e}) /\ e \in S \cup {e}
  OBVIOUS
<1> QED
  BY <1>1, AppendProperties

\* A handler that returns gives its request a reply.
LEMMA ReturnReplies ==
  ASSUME TypeOK, NEW i \in Requests, NEW r \in {"answer", "rejected", "failed"}, Return(i, r)
  PROVE  /\ sent' = sent /\ late' = late
         /\ at' = [at EXCEPT ![i] = "returned"]
         /\ \E x \in {"answer", "rejected", "failed", "lost"} : reply' = [reply EXCEPT ![i] = x]
BY DEF Return, Move, TypeOK

\* Every step of a handler or of an execution client either moves one request
\* on, without a reply, or ends it with one; what has been sent stays.
LEMMA RequestSteps ==
  ASSUME TypeOK, NEW i \in Arrived, Handler(i) \/ Primary(i) \/ Secondary(i)
  PROVE  /\ sent' = sent /\ late' = late
         /\ at[i] \notin {"idle", "returned"}
         /\ \/ /\ reply' = reply
               /\ secondary' = secondary
               /\ \E p \in Places \ {"idle", "returned"} : at' = [at EXCEPT ![i] = p]
            \/ /\ at' = [at EXCEPT ![i] = "returned"]
               /\ \E x \in {"answer", "rejected", "failed", "lost"} : reply' = [reply EXCEPT ![i] = x]
<1>1. i \in Requests
  BY ClProxyAssumption DEF Arrived, TypeOK, Requests, ClProxyAssumption
<1>2. CASE Reject(i)
  BY <1>1, <1>2, ReturnReplies DEF Reject
<1>3. CASE ToPrimary(i) \/ PrimaryAnswers(i) \/ ToSecondary(i)
  BY <1>3 DEF ToPrimary, PrimaryAnswers, ToSecondary, Move, Places
<1>4. CASE ReturnWithout(i)
  BY <1>1, <1>4, ReturnReplies DEF ReturnWithout
<1>5. CASE Panic(i)
  BY <1>5 DEF Panic, Move
<1>6. CASE PrimaryProcesses(i)
  BY <1>6 DEF PrimaryProcesses, Move, Places
<1>7. CASE PrimaryFails(i)
  BY <1>1, <1>7, ReturnReplies DEF PrimaryFails
<1>8. CASE SecondaryProcesses(i)
  BY <1>1, <1>8, ReturnReplies DEF SecondaryProcesses
<1>9. CASE SecondaryFails(i)
  BY <1>1, <1>9, ReturnReplies DEF SecondaryFails
<1> QED
  BY <1>2, <1>3, <1>4, <1>5, <1>6, <1>7, <1>8, <1>9 DEF Handler, Primary, Secondary

\* What the two execution clients have processed only grows, at the end.
LEMMA ProcessedSteps ==
  ASSUME TypeOK, NEW i \in Arrived, Handler(i) \/ Primary(i) \/ Secondary(i)
  PROVE  /\ primary' = primary \/ (primary' = Append(primary, i) /\ PrimaryProcesses(i))
         /\ \/ secondary' = secondary
            \/ /\ SecondaryProcesses(i)
               /\ secondary' = Append(secondary, [request |-> i, kind |-> Forwarded(sent[i])])
BY DEF Handler, Primary, Secondary, Reject, ToPrimary, PrimaryAnswers, ReturnWithout, Panic,
       ToSecondary, PrimaryProcesses, PrimaryFails, SecondaryProcesses, SecondaryFails

\* The types are kept.
LEMMA TypeStep ==
  ASSUME TypeOK, [Next]_vars
  PROVE  TypeOK'
<1>1. CASE UNCHANGED vars
  BY <1>1 DEF vars, TypeOK
<1>2. ASSUME NEW k \in Kinds, Send(k)
      PROVE  TypeOK'
  <2>1. sent' \in Seq(Kinds) /\ Len(sent') = Len(sent) + 1
    BY <1>2 DEF Send, TypeOK
  <2>2. Len(sent') <= MaxRequests
    BY <1>2, <2>1, ClProxyAssumption DEF Send, TypeOK, ClProxyAssumption
  <2> QED
    BY <1>2, <2>1, <2>2 DEF Send, TypeOK, Places
<1>3. ASSUME NEW i \in Arrived, Handler(i) \/ Primary(i) \/ Secondary(i)
      PROVE  TypeOK'
  <2>1. i \in Requests
    BY ClProxyAssumption DEF Arrived, TypeOK, Requests, ClProxyAssumption
  <2>2. sent[i] \in Kinds
    BY DEF Arrived, TypeOK
  <2>3. at' \in [Requests -> Places] /\ sent' = sent /\ late' = late
    BY <1>3, RequestSteps DEF TypeOK, Places
  <2>4. reply' \in [Requests -> {"none", "answer", "rejected", "failed", "lost"}]
    BY <1>3, RequestSteps DEF TypeOK
  <2>5. primary' \in Seq(Requests)
    <3>1. primary' = primary \/ primary' = Append(primary, i)
      BY <1>3, ProcessedSteps
    <3> QED
      BY <2>1, <3>1, GrowsByOne DEF TypeOK
  <2>6. secondary' \in Seq(Received)
    <3> DEFINE e == [request |-> i, kind |-> Forwarded(sent[i])]
    <3>1. secondary' = secondary \/ secondary' = Append(secondary, e)
      BY <1>3, ProcessedSteps
    <3>2. e \in Received
      BY <2>1, <2>2 DEF Forwarded, Received
    <3>3. secondary \in Seq(Received)
      BY DEF TypeOK
    <3> HIDE DEF e
    <3> QED
      BY <3>1, <3>2, <3>3, GrowsByOne
  <2> QED
    BY <2>3, <2>4, <2>5, <2>6 DEF TypeOK
<1>4. ASSUME NEW i \in Arrived, Expire(i)
      PROVE  TypeOK'
  BY <1>4, ClProxyAssumption DEF Expire, TypeOK, Arrived, Requests, ClProxyAssumption
<1> QED
  BY <1>1, <1>2, <1>3, <1>4 DEF Next, Idle

\* Replies and handlers stay in step.
LEMMA HandledStep ==
  ASSUME Inv, [Next]_vars
  PROVE  Handled'
<1> USE DEF Inv
<1>1. CASE UNCHANGED vars
  BY <1>1 DEF vars, Handled, Arrived
<1>2. ASSUME NEW k \in Kinds, Send(k)
      PROVE  Handled'
  <2>1. /\ Len(sent') = Len(sent) + 1 /\ Len(sent) \in Nat
        /\ Len(sent) + 1 \in Requests /\ Len(sent) + 1 \notin Arrived
    BY <1>2, ClProxyAssumption DEF Send, TypeOK, Requests, Arrived, ClProxyAssumption
  <2>2. Arrived' = Arrived \cup {Len(sent) + 1}
    BY <2>1 DEF Arrived
  <2> QED
    BY <1>2, <2>1, <2>2 DEF Send, TypeOK, Handled, Requests, Arrived
<1>3. ASSUME NEW i \in Arrived, Handler(i) \/ Primary(i) \/ Secondary(i)
      PROVE  Handled'
  <2>1. i \in Requests /\ Arrived' = Arrived
    BY <1>3, RequestSteps, ClProxyAssumption DEF Arrived, TypeOK, Requests, ClProxyAssumption
  <2>2. CASE reply' = reply /\ \E p \in Places \ {"idle", "returned"} : at' = [at EXCEPT ![i] = p]
    <3>1. PICK p \in Places \ {"idle", "returned"} : at' = [at EXCEPT ![i] = p]
      BY <2>2
    <3>2. p # "idle" /\ p # "returned" /\ at[i] # "returned"
      BY <1>3, RequestSteps
    <3> QED
      BY <2>1, <2>2, <3>1, <3>2 DEF TypeOK, Handled
  <2>3. CASE /\ at' = [at EXCEPT ![i] = "returned"]
             /\ \E x \in {"answer", "rejected", "failed", "lost"} : reply' = [reply EXCEPT ![i] = x]
    BY <2>1, <2>3 DEF TypeOK, Handled
  <2> QED
    BY <1>3, <2>2, <2>3, RequestSteps
<1>4. ASSUME NEW i \in Arrived, Expire(i)
      PROVE  Handled'
  BY <1>4 DEF Expire, Handled, Arrived
<1> QED
  BY <1>1, <1>2, <1>3, <1>4 DEF Next, Idle

\* What the primary has processed it keeps, and a request is over for good.
LEMMA PrimaryFirstStep ==
  ASSUME Inv, [Next]_vars
  PROVE  PrimaryFirst'
<1> USE DEF Inv
<1>1. CASE UNCHANGED vars
  BY <1>1 DEF vars, PrimaryFirst, Arrived
<1>2. ASSUME NEW k \in Kinds, Send(k)
      PROVE  PrimaryFirst'
  <2>1. /\ Len(sent) + 1 \in Requests /\ Len(sent) + 1 \notin Arrived
        /\ Arrived' = Arrived \cup {Len(sent) + 1}
    BY <1>2, ClProxyAssumption DEF Send, TypeOK, Requests, Arrived, ClProxyAssumption
  <2> QED
    BY <1>2, <2>1 DEF Send, TypeOK, PrimaryFirst
<1>3. ASSUME NEW i \in Arrived, Handler(i) \/ Primary(i) \/ Secondary(i)
      PROVE  PrimaryFirst'
  <2>1. i \in Requests /\ Arrived' = Arrived /\ at[i] # "returned"
    BY <1>3, RequestSteps, ClProxyAssumption DEF Arrived, TypeOK, Requests, ClProxyAssumption
  <2>2. \A j \in Arrived : at'[j] = IF j = i THEN at'[i] ELSE at[j]
    <3>1. Arrived \subseteq Requests
      BY ClProxyAssumption DEF Arrived, TypeOK, Requests, ClProxyAssumption
    <3>2. at' = [at EXCEPT ![i] = at'[i]]
      BY <1>3, <2>1, RequestSteps DEF TypeOK
    <3> QED
      BY <2>1, <3>1, <3>2 DEF TypeOK
  <2>3. /\ Len(primary) \in Nat /\ Len(primary') >= Len(primary) /\ Len(primary') \in Nat
        /\ \A m \in 1 .. Len(primary) : primary'[m] = primary[m]
    <3>1. primary' = primary \/ primary' = Append(primary, i)
      BY <1>3, ProcessedSteps
    <3>2. primary \in Seq(Requests)
      BY DEF TypeOK
    <3> QED
      BY <2>1, <3>1, <3>2, GrowsByOne
  <2>4. ASSUME NEW j \in Arrived', at'[j] \in {"processed", "answered", "secondary"}
        PROVE  \E m \in 1 .. Len(primary') : primary'[m] = j
    <3>1. CASE at[j] \in {"processed", "answered", "secondary"}
      <4>1. PICK m \in 1 .. Len(primary) : primary[m] = j
        BY <2>1, <3>1 DEF PrimaryFirst
      <4>2. m \in 1 .. Len(primary') /\ primary'[m] = j
        BY <2>3, <4>1
      <4> QED
        BY <4>2
    <3>2. CASE at[j] \notin {"processed", "answered", "secondary"}
      <4>1. j = i
        BY <2>1, <2>2, <2>4, <3>2
      <4>2. PrimaryProcesses(i)
        BY <1>3, <2>1, <2>4, <3>2, <4>1
           DEF Handler, Primary, Secondary, Reject, ToPrimary, PrimaryAnswers, ReturnWithout,
               Panic, ToSecondary, PrimaryFails, SecondaryProcesses, SecondaryFails, Move,
               Return, TypeOK
      <4>3. Len(primary') = Len(primary) + 1 /\ primary'[Len(primary) + 1] = i
        BY <2>1, <4>2, AppendProperties DEF PrimaryProcesses, TypeOK
      <4> QED
        BY <2>3, <4>1, <4>3
    <3> QED
      BY <3>1, <3>2
  <2>5. ASSUME NEW n \in 1 .. Len(secondary')
        PROVE  /\ secondary'[n].request \in Arrived'
               /\ at'[secondary'[n].request] = "returned"
    <3> DEFINE e == [request |-> i, kind |-> Forwarded(sent[i])]
    <3>1. CASE secondary' = secondary
      BY <2>1, <2>2, <2>5, <3>1 DEF PrimaryFirst
    <3>2. CASE SecondaryProcesses(i) /\ secondary' = Append(secondary, e)
      <4>1. \/ n \in 1 .. Len(secondary) /\ secondary'[n] = secondary[n]
            \/ secondary'[n] = e
        BY <2>5, <3>2, AppendedAt DEF TypeOK
      <4>2. at'[i] = "returned"
        BY <2>1, <3>2, ReturnReplies DEF SecondaryProcesses, TypeOK
      <4>3. e.request = i
        OBVIOUS
      <4> HIDE DEF e
      <4> QED
        BY <2>1, <2>2, <4>1, <4>2, <4>3 DEF PrimaryFirst
    <3> QED
      BY <1>3, <3>1, <3>2, ProcessedSteps
  <2> QED
    BY <2>4, <2>5 DEF PrimaryFirst
<1>4. ASSUME NEW i \in Arrived, Expire(i)
      PROVE  PrimaryFirst'
  BY <1>4 DEF Expire, PrimaryFirst, Arrived
<1> QED
  BY <1>1, <1>2, <1>3, <1>4 DEF Next, Idle

\* The primary gets each request once.
LEMMA NoneEarlyStep ==
  ASSUME Inv, [Next]_vars
  PROVE  NoneEarly'
<1> USE DEF Inv
<1>1. CASE UNCHANGED vars
  BY <1>1 DEF vars, NoneEarly, Arrived
<1>2. ASSUME NEW k \in Kinds, Send(k)
      PROVE  NoneEarly'
  <2>1. /\ Len(sent) + 1 \in Requests /\ Len(sent) + 1 \notin Arrived
        /\ Arrived' = Arrived \cup {Len(sent) + 1}
    BY <1>2, ClProxyAssumption DEF Send, TypeOK, Requests, Arrived, ClProxyAssumption
  <2> QED
    BY <1>2, <2>1 DEF Send, TypeOK, NoneEarly
<1>3. ASSUME NEW i \in Arrived, Handler(i) \/ Primary(i) \/ Secondary(i),
             NEW m \in 1 .. Len(primary')
      PROVE  primary'[m] \in Arrived' /\ at'[primary'[m]] \notin {"read", "primary"}
  <2>1. i \in Requests /\ Arrived' = Arrived /\ Arrived \subseteq Requests
    BY <1>3, RequestSteps, ClProxyAssumption DEF Arrived, TypeOK, Requests, ClProxyAssumption
  <2>2. \/ m \in 1 .. Len(primary) /\ primary'[m] = primary[m]
        \/ PrimaryProcesses(i) /\ primary'[m] = i
    <3>1. primary \in Seq(Requests)
      BY DEF TypeOK
    <3>2. primary' = primary \/ (primary' = Append(primary, i) /\ PrimaryProcesses(i))
      BY <1>3, ProcessedSteps
    <3> QED
      BY <3>1, <3>2, AppendedAt
  <2>3. PrimaryProcesses(i) => at'[i] = "processed"
    BY <2>1 DEF PrimaryProcesses, Move, TypeOK
  <2>4. \A j \in Arrived : at'[j] = at[j] \/ j = i
    BY <1>3, <2>1, RequestSteps DEF TypeOK
  <2>5. at'[i] \in {"read", "primary"} => at[i] = "read"
    BY <1>3, <2>1
       DEF Handler, Primary, Secondary, Reject, ToPrimary, PrimaryAnswers, ReturnWithout, Panic,
           ToSecondary, PrimaryProcesses, PrimaryFails, SecondaryProcesses, SecondaryFails, Move,
           Return, TypeOK
  <2> QED
    BY <2>1, <2>2, <2>3, <2>4, <2>5 DEF NoneEarly
<1>4. ASSUME NEW i \in Arrived, Expire(i)
      PROVE  NoneEarly'
  BY <1>4 DEF Expire, NoneEarly, Arrived
<1> QED
  BY <1>1, <1>2, <1>3, <1>4 DEF Next, Idle, NoneEarly

\* What may not go to the secondary never starts on its way.
LEMMA ForSecondaryStep ==
  ASSUME Inv, [Next]_vars
  PROVE  ForSecondary'
<1> USE DEF Inv
<1>1. CASE UNCHANGED vars
  BY <1>1 DEF vars, ForSecondary, PrimaryOnly, Arrived
<1>2. ASSUME NEW k \in Kinds, Send(k)
      PROVE  ForSecondary'
  <2>1. /\ Len(sent) + 1 \in Requests /\ Len(sent) + 1 \notin Arrived
        /\ Arrived' = Arrived \cup {Len(sent) + 1}
        /\ \A j \in Arrived : sent'[j] = sent[j]
    BY <1>2, ClProxyAssumption DEF Send, TypeOK, Requests, Arrived, ClProxyAssumption
  <2> QED
    BY <1>2, <2>1, ClProxyAssumption DEF Send, TypeOK, ForSecondary, PrimaryOnly, Requests, Arrived, ClProxyAssumption
<1>3. ASSUME NEW i \in Arrived, Handler(i) \/ Primary(i) \/ Secondary(i), NEW j \in Arrived',
             at'[j] = "secondary"
      PROVE  ~PrimaryOnly(j)'
  <2>1. sent' = sent /\ i \in Requests /\ j \in Requests /\ j \in Arrived
    BY <1>3, RequestSteps, ClProxyAssumption DEF Arrived, TypeOK, Requests, ClProxyAssumption
  <2>2. CASE at[j] = "secondary"
    BY <2>1, <2>2 DEF ForSecondary, PrimaryOnly
  <2>3. CASE at[j] # "secondary"
    <3>1. j = i /\ ToSecondary(i)
      BY <1>3, <2>1, <2>3
         DEF Handler, Primary, Secondary, Reject, ToPrimary, PrimaryAnswers, ReturnWithout,
             Panic, PrimaryProcesses, PrimaryFails, SecondaryProcesses, SecondaryFails,
             ToSecondary, Move, Return, TypeOK
    <3> QED
      BY <2>1, <3>1 DEF ToSecondary, PrimaryOnly
  <2> QED
    BY <2>2, <2>3
<1>4. ASSUME NEW i \in Arrived, Expire(i)
      PROVE  ForSecondary'
  BY <1>4 DEF Expire, ForSecondary, PrimaryOnly, Arrived
<1> QED
  BY <1>1, <1>2, <1>3, <1>4 DEF Next, Idle, ForSecondary

LEMMA InitInv == Init => Inv
<1>1. Init => Arrived = {}
  BY DEF Init, Arrived
<1>2. Init => TypeOK
  <2>1. <<>> \in Seq(Kinds) /\ <<>> \in Seq(Requests) /\ <<>> \in Seq(Received)
        /\ Len(<<>>) = 0
    OBVIOUS
  <2> QED
    BY <2>1, ClProxyAssumption DEF Init, TypeOK, Places, ClProxyAssumption
<1>3. Init => Handled /\ PrimaryFirst /\ NoneEarly /\ ForSecondary
  BY <1>1 DEF Init, Handled, PrimaryFirst, NoneEarly, ForSecondary
<1> QED
  BY <1>2, <1>3 DEF Inv

(* The invariant holds in every behaviour. *)
THEOREM Invariant == Spec => []Inv
<1>1. Inv /\ [Next]_vars => Inv'
  BY TypeStep, HandledStep, PrimaryFirstStep, NoneEarlyStep, ForSecondaryStep DEF Inv
<1> QED
  BY InitInv, <1>1, PTL DEF Spec

(* The types are right (cl-proxy.go's handler places and the replies).      *)
THEOREM TypeCorrect == Spec => []TypeOK
<1>1. Inv => TypeOK
  BY DEF Inv
<1> QED
  BY Invariant, <1>1, PTL

-----------------------------------------------------------------------------

\* A CL that waits sends nothing while a request is unanswered.
LEMMA OneAtATimeStep ==
  ASSUME MaxOpen = 1, Inv, OneAtATime, [Next]_vars
  PROVE  OneAtATime'
<1> USE DEF Inv
<1>1. CASE UNCHANGED vars
  BY <1>1 DEF vars, OneAtATime, Arrived
<1>2. ASSUME NEW k \in Kinds, Send(k)
      PROVE  OneAtATime'
  <2>1. Unanswered = {}
    <3>1. IsFiniteSet(Arrived)
      BY FS_Interval DEF Arrived, TypeOK
    <3>2. IsFiniteSet(Unanswered)
      BY <3>1, FS_Subset DEF Unanswered
    <3>3. Cardinality(Unanswered) = 0
      BY <1>2, <3>2, FS_CardinalityType DEF Send
    <3> QED
      BY <3>2, <3>3, FS_EmptySet
  <2>2. Len(sent') = Len(sent) + 1 /\ Arrived' = Arrived \cup {Len(sent) + 1}
    BY <1>2 DEF Send, TypeOK, Arrived
  <2> QED
    BY <1>2, <2>1, <2>2 DEF Send, OneAtATime, Unanswered
<1>3. ASSUME NEW i \in Arrived, Handler(i) \/ Primary(i) \/ Secondary(i)
      PROVE  OneAtATime'
  <2>1. sent' = sent /\ Arrived' = Arrived /\ Arrived \subseteq Requests
    BY <1>3, RequestSteps, ClProxyAssumption DEF Arrived, TypeOK, Requests, ClProxyAssumption
  <2>2. \A j \in Arrived : reply'[j] = "none" => reply[j] = "none"
    BY <1>3, <2>1, RequestSteps DEF TypeOK
  <2> QED
    BY <2>1, <2>2 DEF OneAtATime
<1>4. ASSUME NEW i \in Arrived, Expire(i)
      PROVE  OneAtATime'
  BY <1>4 DEF Expire, OneAtATime, Arrived
<1> QED
  BY <1>1, <1>2, <1>3, <1>4 DEF Next, Idle

\* What the secondary has processed stays, and what comes next is the one
\* request that is still open, later than everything that is over.
LEMMA SecondaryFollowsStep ==
  ASSUME Inv, Inv', OneAtATime, SecondaryFollows, [Next]_vars
  PROVE  SecondaryFollows'
<1> USE DEF Inv
<1>1. CASE secondary' = secondary /\ primary' = primary
  BY <1>1 DEF SecondaryFollows
<1>2. ASSUME NEW i \in Arrived, Handler(i) \/ Primary(i) \/ Secondary(i)
      PROVE  SecondaryFollows'
  <2>1. i \in Requests
    BY ClProxyAssumption DEF Arrived, TypeOK, Requests, ClProxyAssumption
  <2>2. /\ Len(primary) \in Nat /\ Len(primary') >= Len(primary) /\ Len(primary') \in Nat
        /\ \A m \in 1 .. Len(primary) : primary'[m] = primary[m]
    <3>1. primary' = primary \/ primary' = Append(primary, i)
      BY <1>2, ProcessedSteps
    <3>2. primary \in Seq(Requests)
      BY DEF TypeOK
    <3> QED
      BY <2>1, <3>1, <3>2, GrowsByOne
  <2>3. ASSUME NEW m \in 1 .. Len(primary'), NEW n \in 1 .. Len(primary'), m < n
        PROVE  primary'[m] < primary'[n]
    <3>1. CASE primary' = primary
      BY <2>3, <3>1 DEF SecondaryFollows
    <3>2. CASE PrimaryProcesses(i) /\ primary' = Append(primary, i)
      <4>1. \A q \in 1 .. Len(primary') : \/ q \in 1 .. Len(primary) /\ primary'[q] = primary[q]
                                          \/ q = Len(primary) + 1 /\ primary'[q] = i
        <5>1. primary \in Seq(Requests)
          BY DEF TypeOK
        <5> QED
          BY <3>2, <5>1, AppendedAt
      <4>2. i = Len(sent) /\ at[i] = "primary" /\ Len(primary) \in Nat
        BY <2>1, <3>2 DEF PrimaryProcesses, OneAtATime, Handled, TypeOK
      <4>3. \A q \in 1 .. Len(primary) : primary[q] < i
        BY <4>2 DEF NoneEarly, Arrived, TypeOK
      <4> QED
        BY <2>2, <2>3, <4>1, <4>2, <4>3 DEF SecondaryFollows
    <3> QED
      BY <1>2, <3>1, <3>2, ProcessedSteps
  <2>3a. CASE secondary' = secondary
    BY <2>2, <2>3, <2>3a DEF SecondaryFollows
  <2>4. CASE /\ SecondaryProcesses(i)
             /\ secondary' = Append(secondary, [request |-> i, kind |-> Forwarded(sent[i])])
    <3> DEFINE e == [request |-> i, kind |-> Forwarded(sent[i])]
    <3>1. i = Len(sent) /\ at[i] = "secondary"
      BY <2>1, <2>4 DEF SecondaryProcesses, OneAtATime, Handled
    <3>2. \A n \in 1 .. Len(secondary) : secondary[n].request \in Nat /\ secondary[n].request < i
      BY <3>1 DEF PrimaryFirst, Arrived, TypeOK
    <3>3. PICK p \in 1 .. Len(primary) : primary[p] = i
      BY <3>1 DEF PrimaryFirst
    <3>4. \A n \in 1 .. Len(secondary') :
             \/ n \in 1 .. Len(secondary) /\ secondary'[n] = secondary[n]
             \/ n = Len(secondary) + 1 /\ secondary'[n] = e
      BY <2>4, AppendedAt DEF TypeOK
    <3>5. e.request = i /\ Len(secondary) \in Nat /\ primary' = primary
      BY <2>4 DEF SecondaryProcesses, TypeOK
    <3>6. Len(secondary') \in Nat
      BY DEF TypeOK
    <3> HIDE DEF e
    <3>7. ASSUME NEW m \in 1 .. Len(secondary'), NEW n \in 1 .. Len(secondary'), m < n
          PROVE  secondary'[m].request < secondary'[n].request
      <4>1. m \in 1 .. Len(secondary) /\ secondary'[m] = secondary[m]
        BY <3>4, <3>5, <3>6, <3>7
      <4>2. CASE n \in 1 .. Len(secondary) /\ secondary'[n] = secondary[n]
        BY <3>7, <4>1, <4>2 DEF SecondaryFollows
      <4>3. CASE secondary'[n] = e
        BY <3>2, <3>5, <4>1, <4>3
      <4> QED
        BY <3>4, <4>2, <4>3
    <3>8. ASSUME NEW n \in 1 .. Len(secondary')
          PROVE  \E m \in 1 .. Len(primary') : primary'[m] = secondary'[n].request
      BY <3>3, <3>4, <3>5, <3>8 DEF SecondaryFollows
    <3> QED
      BY <2>3, <3>7, <3>8 DEF SecondaryFollows
  <2> QED
    BY <1>2, <2>3a, <2>4, ProcessedSteps
<1> QED
  BY <1>1, <1>2 DEF Next, Idle, vars, Send, Expire

(* With a CL that waits for its answers, the secondary processes requests in *)
(* the order the primary did (cl-proxy.go:121-171).                         *)
THEOREM SecondaryInOrder == ASSUME MaxOpen = 1 PROVE Spec => []SecondaryFollows
<1>1. Init => OneAtATime /\ SecondaryFollows
  BY DEF Init, OneAtATime, SecondaryFollows, Arrived
<1>2. Inv /\ Inv' /\ OneAtATime /\ SecondaryFollows /\ [Next]_vars
        => (OneAtATime /\ SecondaryFollows)'
  BY OneAtATimeStep, SecondaryFollowsStep
<1> QED
  BY Invariant, <1>1, <1>2, PTL DEF Spec

-----------------------------------------------------------------------------

(* Neither payload attributes nor getPayload reach the secondary            *)
(* (cl-proxy.go:106-112, 145-165).                                          *)
THEOREM NeverBuilds == Spec => []SecondaryNeverBuilds
<1>1. Init => SecondaryNeverBuilds
  BY DEF Init, SecondaryNeverBuilds
<1>2. Inv /\ SecondaryNeverBuilds /\ [Next]_vars => SecondaryNeverBuilds'
  <2> SUFFICES ASSUME Inv, SecondaryNeverBuilds, [Next]_vars
               PROVE  SecondaryNeverBuilds'
    OBVIOUS
  <2>1. CASE secondary' = secondary
    BY <2>1 DEF SecondaryNeverBuilds
  <2>2. ASSUME NEW i \in Arrived, Handler(i) \/ Primary(i) \/ Secondary(i)
        PROVE  SecondaryNeverBuilds'
    <3> DEFINE e == [request |-> i, kind |-> Forwarded(sent[i])]
    <3>1. CASE SecondaryProcesses(i) /\ secondary' = Append(secondary, e)
      <4>1. \A n \in 1 .. Len(secondary') : \/ n \in 1 .. Len(secondary) /\ secondary'[n] = secondary[n]
                                            \/ secondary'[n] = e
        BY <3>1, AppendedAt DEF Inv, TypeOK
      <4>2. e.kind \notin {"fcuAttributes", "getPayload"}
        BY <3>1 DEF SecondaryProcesses, Forwarded, Inv, ForSecondary, PrimaryOnly
      <4> HIDE DEF e
      <4> QED
        BY <4>1, <4>2 DEF SecondaryNeverBuilds
    <3> QED
      BY <2>1, <2>2, <3>1, ProcessedSteps DEF Inv
  <2> QED
    BY <2>1, <2>2 DEF Next, Idle, vars, Send, Expire
<1> QED
  BY Invariant, <1>1, <1>2, PTL DEF Spec

(* A request answered by the primary ends with that answer, whatever the    *)
(* secondary does (cl-proxy.go:121-171).                                    *)
THEOREM AnswersArrive == Spec => AnswerDelivered
<1>1. ASSUME Inv, [Next]_vars, NEW i \in Arrived,
             at[i] \in {"answered", "secondary"}, at'[i] = "returned", i \notin late,
             sent[i] # "fcuNoParams"
      PROVE  reply'[i] = "answer"
  <2>1. i \in Requests /\ sent[i] \in Kinds
    BY <1>1, ClProxyAssumption DEF Inv, Arrived, TypeOK, Requests, ClProxyAssumption
  <2>2. /\ at' # at
        /\ \A k \in Kinds : ~Send(k)
    BY <1>1, <2>1 DEF Inv, TypeOK, Send, Handled, Arrived
  <2>3. PICK j \in Arrived : Handler(j) \/ Primary(j) \/ Secondary(j)
    BY <1>1, <2>2 DEF Next, Idle, vars, Expire
  <2>4. j = i
    BY <1>1, <2>1, <2>3, RequestSteps DEF Inv, TypeOK
  <2>5. ReturnWithout(i) \/ SecondaryProcesses(i) \/ SecondaryFails(i)
    BY <1>1, <2>1, <2>3, <2>4
       DEF Handler, Primary, Secondary, Reject, ToPrimary, PrimaryAnswers, Panic, ToSecondary,
           PrimaryProcesses, PrimaryFails, Move, Inv, TypeOK
  <2> QED
    BY <1>1, <2>1, <2>5
       DEF ReturnWithout, SecondaryProcesses, SecondaryFails, Return, Inv, TypeOK
<1>2. Inv /\ [Next]_vars
        => [\A i \in Arrived :
              (/\ at[i] \in {"answered", "secondary"} /\ at'[i] = "returned"
               /\ i \notin late
               /\ sent[i] # "fcuNoParams")
                => reply'[i] = "answer"]_vars
  BY <1>1
<1> QED
  BY Invariant, <1>2, PTL DEF Spec, AnswerDelivered
=============================================================================
