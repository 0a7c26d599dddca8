-------------------------- MODULE RunnerRefinement --------------------------
(***************************************************************************)
(* Runner implements Session: the containers are read off the daemon, the  *)
(* phase off the program counter of runIt, the outcome off its result.     *)
(***************************************************************************)
EXTENDS Runner

Phase ==
  CASE main \in {"compose", "hosts", "poll", "lock", "complete"} -> "starting"
    [] main = "serve"                                            -> "serving"
    [] main \in {"list", "remove", "kill"}                       -> "stopping"
    [] main \in {"exited", "panicked"}                           -> "ended"

S == INSTANCE Session WITH
       Checked <- Checked \cap Docker,
       phase   <- Phase,
       up      <- {s \in Docker : container[s] = "running"},
       seen    <- {s \in Docker : container[s] # "absent"},
       fit     <- {s \in Docker : s \in Checked /\ WasHealthy(s)},
       served  <- main = "serve" \/ why \in {"cancel", "service", "watchdog", "timer"},
       outcome <- result

(* Every behaviour of the goroutines is one of the abstract session: it     *)
(* serves only what has been up and healthy, is torn down once, and         *)
(* returns nil (main.go:372) only after it served and cleaned up.  A Stop    *)
(* that has begun ends, whatever docker and the host processes do.         *)
ImplementsSession == S!Spec
=============================================================================
