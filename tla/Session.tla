------------------------------ MODULE Session ------------------------------
(***************************************************************************)
(* What a playground session promises, without goroutines, channels or     *)
(* locks: containers come up only while it starts, it serves only after    *)
(* all of them have been up and the checked ones healthy, it is torn down  *)
(* once, and it reports success only after it has served and has left no   *)
(* container running.  Runner is the detailed specification.               *)
(***************************************************************************)
CONSTANTS
  Docker,   \* the containers of the session
  Checked   \* those with a health check

VARIABLES
  phase,    \* "starting", "serving", "stopping" or "ended"
  up,       \* containers that run
  seen,     \* containers that have ever been up
  fit,      \* checked containers that have ever been healthy
  served,   \* the session has served
  outcome   \* what it reports when it has ended

vars == <<phase, up, seen, fit, served, outcome>>

Init ==
  /\ phase = "starting"
  /\ up = {} /\ seen = {} /\ fit = {}
  /\ served = FALSE
  /\ outcome = "none"

Up(s) ==
  /\ phase = "starting"
  /\ s \notin seen
  /\ up' = up \cup {s}
  /\ seen' = seen \cup {s}
  /\ UNCHANGED <<phase, fit, served, outcome>>

Down(s) ==
  /\ phase # "ended"
  /\ s \in up
  /\ up' = up \ {s}
  /\ UNCHANGED <<phase, seen, fit, served, outcome>>

Healthy(s) ==
  /\ phase # "ended"
  /\ s \in up \cap Checked
  /\ fit' = fit \cup {s}
  /\ UNCHANGED <<phase, up, seen, served, outcome>>

Serve ==
  /\ phase = "starting"
  /\ seen = Docker
  /\ Docker \cap Checked \subseteq fit
  /\ phase' = "serving"
  /\ served' = TRUE
  /\ UNCHANGED <<up, seen, fit, outcome>>

Stop ==
  /\ phase \in {"starting", "serving"}
  /\ phase' = "stopping"
  /\ UNCHANGED <<up, seen, fit, served, outcome>>

End ==
  /\ phase = "stopping"
  /\ phase' = "ended"
  /\ outcome' \in {"nil", "error"}
  /\ outcome' = "nil" => served /\ up = {}
  /\ UNCHANGED <<up, seen, fit, served>>

Next ==
  \/ \E s \in Docker : Up(s) \/ Down(s) \/ Healthy(s)
  \/ Serve
  \/ Stop
  \/ End

Safety == Init /\ [][Next]_vars

\* A session that is being stopped ends.
Spec == Safety /\ WF_vars(End)
=============================================================================
