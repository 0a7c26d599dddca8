------------------------------ MODULE MCDisplay ------------------------------
(***************************************************************************)
(* A small session with its display for TLC: "el" has a ReadyCheck, "h1"   *)
(* runs on the host.                                                       *)
(***************************************************************************)
EXTENDS Display

ElHost  == {"el", "h1"}
OneHost == <<"h1">>
OnlyEl  == {"el"}

NoDependency == [s \in Services |-> {}]
=============================================================================
