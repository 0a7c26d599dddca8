------------------------------- MODULE Display -------------------------------
(***************************************************************************)
(* The status display of --interactive (printStatus in                     *)
(* playground/local_runner.go) on top of the session of Runner: one more   *)
(* goroutine, which waits on taskUpdateCh, takes tasksMtx and redraws      *)
(* every service.  updateTaskStatus tells it of an update with a send that *)
(* does not block, so an update finds it in its select or is not told.     *)
(***************************************************************************)
EXTENDS RunnerRefinement

VARIABLES
  display,  \* the goroutine: before its loop, in the select, about to lock, drawn, gone
  drawn,    \* what the terminal shows of each service
  lost      \* an update was not told, nor drawn since, that no pending draw will show

displayVars == <<display, drawn, lost>>

Blank == [s \in Services |-> "nothing"]

\* The send of NewLocalRunner rarely finds the goroutine in its select already.
DisplayInit ==
  /\ Init
  /\ \/ display = "starting" /\ lost = TRUE
     \/ display = "told" /\ lost = FALSE
  /\ drawn = Blank

\* updateTaskStatus gets to its last statement, still with the lock.
UpdateEnds == (TrackerTakes /\ unsent' = {}) \/ TrackerSends

\* Mutant: only a failure is told.
TellOnlyFailures ==
  IF display = "select" /\ Len(exitErr') > Len(exitErr)
  THEN display' = "told" /\ UNCHANGED <<drawn, lost>>
  ELSE /\ lost' = (drawn # status' /\ (lost \/ display \in {"starting", "drawn"}))
       /\ UNCHANGED <<display, drawn>>

\* The select of updateTaskStatus with its default.
Tell ==
  IF display = "select"
  THEN display' = "told" /\ UNCHANGED <<drawn, lost>>
  ELSE /\ lost' = (drawn # status' /\ (lost \/ display \in {"starting", "drawn"}))
       /\ UNCHANGED <<display, drawn>>

\* The goroutine goes with the program; what is on the terminal is history then.
SessionStep ==
  /\ Next
  /\ IF ~Alive' THEN display' = "gone" /\ drawn' = Blank /\ lost' = FALSE
     ELSE IF UpdateEnds THEN Tell ELSE UNCHANGED displayVars

EnterSelect ==
  /\ Alive
  /\ display \in {"starting", "drawn"}
  /\ display' = "select"
  /\ UNCHANGED <<vars, drawn, lost>>

\* Lock, draw, unlock.
Draw ==
  /\ Alive
  /\ display = "told"
  /\ MutexFree
  /\ drawn' = status
  /\ lost' = FALSE
  /\ display' = "drawn"
  /\ UNCHANGED vars

DisplayNext == SessionStep \/ EnterSelect \/ Draw

\* The goroutines of the session and this one keep running.
DisplaySpec ==
  /\ DisplayInit
  /\ [][DisplayNext]_<<vars, displayVars>>
  /\ Fairness
  /\ WF_<<vars, displayVars>>(EnterSelect)
  /\ WF_<<vars, displayVars>>(Draw)

(* What the tasks map says is on the screen eventually, or the session is  *)
(* over, whatever falls together: an update that comes while the display   *)
(* waits for the lock is drawn without being told.  Only one that falls    *)
(* between the unlock and the select (local_runner.go:314 to 277) is not   *)
(* shown before the next; "lost" records that this has happened.           *)
StatusIsShown == (drawn # status /\ ~lost) ~> (drawn = status \/ lost \/ ~Alive)
=============================================================================
