------------------------------ MODULE ClProxy ------------------------------
(***************************************************************************)
(* The consensus-layer proxy (cl-proxy/cl-proxy.go): each engine request   *)
(* of the beacon node (the CL) is sent to a primary execution client, whose *)
(* answer is the answer, and then, without its block building part, to a   *)
(* secondary one.                                                          *)
(*                                                                         *)
(* net/http runs one handler per request.  What a handler writes stays     *)
(* unfinished on the wire until it returns, so the CL has its answer only  *)
(* then; after WriteTimeout it never gets one.  The CL and both execution  *)
(* clients are not in src/.                                                *)
(***************************************************************************)
EXTENDS Integers, Sequences, FiniteSets

CONSTANTS
  Kinds,        \* the kinds of request the CL sends
  MaxRequests,  \* model bound on their number
  MaxOpen,      \* how many requests the CL leaves unanswered at a time
  HasSecondary  \* config.Secondary is set

\* fcu: forkchoiceUpdated, with payload attributes, with one parameter only or
\* without any; malformed: not a POST of a single JSON-RPC object.
AllKinds == {"newPayload", "fcu", "fcuAttributes", "fcuOneParam", "fcuNoParams",
             "getPayload", "other", "malformed"}

ASSUME ClProxyAssumption ==
  /\ Kinds \subseteq AllKinds
  /\ MaxRequests \in Nat
  /\ MaxOpen \in Nat
  /\ HasSecondary \in BOOLEAN

Requests == 1 .. MaxRequests

VARIABLES
  sent,       \* what the CL has sent: a sequence of kinds
  at,         \* where the handler of each request is
  late,       \* requests older than WriteTimeout
  reply,      \* what the CL got
  primary,    \* requests the primary has processed, in its order
  secondary   \* the same for the secondary, each with its kind as received

vars == <<sent, at, late, reply, primary, secondary>>

Places == {"idle", "read", "primary", "processed", "answered", "secondary", "returned"}

\* A request as the secondary gets it.
Received == [request : Requests, kind : Kinds \cup {"fcu"}]

\* The types of the variables.
TypeOK ==
  /\ sent \in Seq(Kinds)
  /\ Len(sent) <= MaxRequests
  /\ at \in [Requests -> Places]
  /\ late \subseteq Requests
  /\ reply \in [Requests -> {"none", "answer", "rejected", "failed", "lost"}]
  /\ primary \in Seq(Requests)
  /\ secondary \in Seq(Received)

Init ==
  /\ sent = <<>>
  /\ at = [i \in Requests |-> "idle"]
  /\ late = {}
  /\ reply = [i \in Requests |-> "none"]
  /\ primary = <<>>
  /\ secondary = <<>>

Arrived == 1 .. Len(sent)

Unanswered == {i \in Arrived : reply[i] = "none"}

Send(kind) ==
  /\ Len(sent) < MaxRequests
  /\ Cardinality(Unanswered) < MaxOpen
  /\ sent' = Append(sent, kind)
  /\ at' = [at EXCEPT ![Len(sent) + 1] = "read"]
  /\ UNCHANGED <<late, reply, primary, secondary>>

Move(i, place) == at' = [at EXCEPT ![i] = place] /\ UNCHANGED <<sent, late>>

\* The handler returns, and net/http finishes what it wrote.
Return(i, r) ==
  /\ Move(i, "returned")
  /\ reply' = [reply EXCEPT ![i] = IF i \in late THEN "lost" ELSE r]

Reject(i) ==
  /\ at[i] = "read"
  /\ sent[i] = "malformed"
  /\ Return(i, "rejected")
  /\ UNCHANGED <<primary, secondary>>

ToPrimary(i) ==
  /\ at[i] = "read"
  /\ sent[i] # "malformed"
  /\ Move(i, "primary")
  /\ UNCHANGED <<reply, primary, secondary>>

PrimaryProcesses(i) ==
  /\ at[i] = "primary"
  /\ primary' = Append(primary, i)
  /\ Move(i, "processed")
  /\ UNCHANGED <<reply, secondary>>

\* The request fails before or after the primary has processed it.
PrimaryFails(i) ==
  /\ at[i] \in {"primary", "processed"}
  /\ Return(i, "failed")
  /\ UNCHANGED <<primary, secondary>>

\* Mutant: the answer is flushed to the CL at once.
PrimaryAnswersFlushed(i) ==
  /\ at[i] = "processed"
  /\ Move(i, "answered")
  /\ reply' = [reply EXCEPT ![i] = IF i \in late THEN "lost" ELSE "answer"]
  /\ UNCHANGED <<primary, secondary>>

\* The answer is written, but not yet finished.
PrimaryAnswers(i) ==
  /\ at[i] = "processed"
  /\ Move(i, "answered")
  /\ UNCHANGED <<reply, primary, secondary>>

PrimaryOnly(i) == ~HasSecondary \/ sent[i] = "getPayload"

\* Mutant: the parameters are passed on as they came.
ForwardedWhole(kind) == kind

\* The second parameter of forkchoiceUpdated, if there is one, is set to null.
Forwarded(kind) == IF kind = "fcuAttributes" THEN "fcu" ELSE kind

ReturnWithout(i) ==
  /\ at[i] = "answered"
  /\ PrimaryOnly(i)
  /\ Return(i, "answer")
  /\ UNCHANGED <<primary, secondary>>

\* Params[1] of no parameters: the handler panics and the connection is dropped.
Panic(i) ==
  /\ at[i] = "answered"
  /\ ~PrimaryOnly(i)
  /\ sent[i] = "fcuNoParams"
  /\ Move(i, "returned")
  /\ reply' = [reply EXCEPT ![i] = "lost"]
  /\ UNCHANGED <<primary, secondary>>

ToSecondary(i) ==
  /\ at[i] = "answered"
  /\ ~PrimaryOnly(i)
  /\ sent[i] # "fcuNoParams"
  /\ Move(i, "secondary")
  /\ UNCHANGED <<reply, primary, secondary>>

\* Mutant: a secondary that fails makes the request fail.
SecondaryFailsRequest(i) ==
  /\ at[i] = "secondary"
  /\ Return(i, "failed")
  /\ UNCHANGED <<primary, secondary>>

\* The secondary is down, or drops the request: this is only logged.
SecondaryFails(i) ==
  /\ at[i] = "secondary"
  /\ Return(i, "answer")
  /\ UNCHANGED <<primary, secondary>>

SecondaryProcesses(i) ==
  /\ at[i] = "secondary"
  /\ secondary' = Append(secondary, [request |-> i, kind |-> Forwarded(sent[i])])
  /\ Return(i, "answer")
  /\ UNCHANGED primary

\* WriteTimeout counts from the moment the request was read.
Expire(i) ==
  /\ at[i] \notin {"idle", "returned"}
  /\ late' = late \cup {i}
  /\ UNCHANGED <<sent, at, reply, primary, secondary>>

Handler(i) == Reject(i) \/ ToPrimary(i) \/ PrimaryAnswers(i) \/ ReturnWithout(i) \/ Panic(i)
                \/ ToSecondary(i)

Primary(i)   == PrimaryProcesses(i) \/ PrimaryFails(i)
Secondary(i) == SecondaryProcesses(i) \/ SecondaryFails(i)

\* The CL has sent all it wants to.
Idle == Unanswered = {} /\ UNCHANGED vars

Next ==
  \/ \E k \in Kinds : Send(k)
  \/ \E i \in Arrived : Handler(i) \/ Primary(i) \/ Secondary(i) \/ Expire(i)
  \/ Idle

Spec == Init /\ [][Next]_vars

-----------------------------------------------------------------------------
(* Properties.                                                             *)

(* With a CL that waits for its answers, both execution clients process     *)
(* requests in the order they were sent, and the secondary none that the    *)
(* primary has not processed: handlers run concurrently and nothing but the *)
(* unfinished response keeps them in order (cl-proxy.go:121-171).           *)
SecondaryFollows ==
  /\ \A m, n \in 1 .. Len(primary) : m < n => primary[m] < primary[n]
  /\ \A m, n \in 1 .. Len(secondary) : m < n => secondary[m].request < secondary[n].request
  /\ \A n \in 1 .. Len(secondary) : \E m \in 1 .. Len(primary) : primary[m] = secondary[n].request

(* The secondary is never asked to build: neither attributes nor getPayload *)
(* reach it (cl-proxy.go:106-112).                                          *)
SecondaryNeverBuilds ==
  \A n \in 1 .. Len(secondary) : secondary[n].kind \notin {"fcuAttributes", "getPayload"}

(* A request the primary has answered ends with that answer, whatever the   *)
(* secondary does, unless WriteTimeout has passed (cl-proxy.go:121 "consider *)
(* its response as the final response to send back to the CL").  A          *)
(* forkchoiceUpdated without parameters is left out: its handler panics.    *)
AnswerDelivered ==
  [][\A i \in Arrived :
       (/\ at[i] \in {"answered", "secondary"} /\ at'[i] = "returned"
        /\ i \notin late
        /\ sent[i] # "fcuNoParams")
         => reply'[i] = "answer"]_vars
=============================================================================
