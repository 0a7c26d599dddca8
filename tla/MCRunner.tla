------------------------------ MODULE MCRunner ------------------------------
(***************************************************************************)
(* Instances of Runner for TLC.  "el" has a ReadyCheck and "cl" waits for  *)
(* it to be healthy, as the beacon node's dependants do; "db" is a third   *)
(* container, which only waits for "cl" to have been started; "h1" runs on *)
(* the host.                                                               *)
(***************************************************************************)
EXTENDS RunnerRefinement

ElClHost == {"el", "cl", "h1"}
ElClDb   == {"el", "cl", "db"}

NoHost   == <<>>
OneHost  == <<"h1">>

ElAndCl == {"el", "cl"}

NoCheck == {}

NoDependency == [s \in Services |-> {}]

DbAfterCl == [s \in Services |-> IF s = "db" THEN {"cl"} ELSE {}]

ClAfterEl == [s \in Services |-> IF s = "cl" THEN {"el"} ELSE {}]
=============================================================================
