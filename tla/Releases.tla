------------------------------ MODULE Releases ------------------------------
(***************************************************************************)
(* The binaries of services that run on the host: DownloadRelease           *)
(* (playground/releases.go) keeps them in ~/.playground, NewLocalRunner      *)
(* (playground/local_runner.go) and the artifacts commands (main.go) call    *)
(* it, and runOnHost executes what it returned.                            *)
(*                                                                         *)
(* Sessions run at the same time and one after another over the same        *)
(* directory.  A session may be killed at any point: the handler for Ctrl+C  *)
(* is set up only after NewLocalRunner (main.go:290).  The file system, not  *)
(* in src/, refuses to execute a file that is open for writing, or to        *)
(* truncate one that is being executed ("text file busy").                  *)
(*                                                                         *)
(* The specification is RSpec: ArtifactsProofs is about this module and     *)
(* Genesis, which share no state.                                          *)
(***************************************************************************)
EXTENDS Integers, FiniteSets

CONSTANTS
  Sessions,
  Releases,   \* names of releases, each with its version
  Parts,      \* the number of writes io.Copy makes of one
  MaxStarts   \* model bound: sessions started altogether

ASSUME ReleasesAssumption == Parts \in Nat \ {0} /\ MaxStarts \in Nat

VARIABLES
  at,       \* where each session is
  want,     \* the release it asks for
  supported, \* there are binaries for this machine, see Arch
  next,     \* the part io.Copy writes next
  writing,  \* sessions that have their file open for writing
  files,    \* what each path exists with: parts of releases, and the mode
  image,    \* what a session's host service was started from
  starts,   \* sessions started
  cut,      \* some download ended before it was complete
  overlap   \* some download created a file that had been created meanwhile

rvars == <<at, want, supported, next, writing, files, image, starts, cut, overlap>>

PartsOf(r) == {r} \X (1 .. Parts)

Absent == [exists |-> FALSE, data |-> {}, exec |-> FALSE]

RInit ==
  /\ at = [p \in Sessions |-> "idle"]
  /\ want \in [Sessions -> Releases]
  /\ supported \in BOOLEAN
  /\ next = [p \in Sessions |-> 1]
  /\ writing = {}
  /\ files = [f \in Releases |-> Absent]
  /\ image = [p \in Sessions |-> {}]
  /\ starts = 0
  /\ cut = FALSE
  /\ overlap = FALSE

\* outPath: the name and the version.
Path(r) == r

File(p) == files[Path(want[p])]

Opened(p) == {q \in writing : Path(want[q]) = Path(want[p])}

Executed(p) == {q \in Sessions : at[q] = "running" /\ Path(want[q]) = Path(want[p])}

MoveTo(p, place) == at' = [at EXCEPT ![p] = place]

Fails(p) ==
  /\ MoveTo(p, "failed")
  /\ writing' = writing \ {p}

Start(p, r) ==
  /\ at[p] \in {"idle", "failed"}
  /\ starts < MaxStarts
  /\ starts' = starts + 1
  /\ want' = [want EXCEPT ![p] = r]
  /\ next' = [next EXCEPT ![p] = 1]
  /\ MoveTo(p, "stat")
  /\ UNCHANGED <<supported, writing, files, image, cut, overlap>>

-----------------------------------------------------------------------------
(* DownloadRelease and downloadArtifact. *)

\* A file that exists is returned as it is.
Stat(p) ==
  /\ at[p] = "stat"
  /\ MoveTo(p, IF File(p).exists THEN "override" ELSE "get")
  /\ UNCHANGED <<want, supported, next, writing, files, image, starts, cut, overlap>>

\* Without a binary for this machine the name alone is returned if PATH has one.
\* NewLocalRunner does not find that name with os.Stat, takes it for an image
\* and, as it has no tag, gives up.
FromPath(p) ==
  /\ at[p] = "get"
  /\ ~supported
  /\ Fails(p)
  /\ UNCHANGED <<want, supported, next, files, image, starts, cut, overlap>>

\* The request, the gzip header or the tar header fails, or another file comes
\* first: nothing has been written yet.
GetFails(p) ==
  /\ at[p] = "get"
  /\ supported
  /\ Fails(p)
  /\ UNCHANGED <<want, supported, next, files, image, starts, cut, overlap>>

Get(p) ==
  /\ at[p] = "get"
  /\ supported
  /\ MoveTo(p, "extract")
  /\ UNCHANGED <<want, supported, next, writing, files, image, starts, cut, overlap>>

\* Mutant: the file is made executable at once.
CreateExecutable(p) ==
  /\ at[p] = "extract"
  /\ Executed(p) = {}
  /\ MoveTo(p, "copy")
  /\ files' = [files EXCEPT ![Path(want[p])] = [exists |-> TRUE, data |-> {}, exec |-> TRUE]]
  /\ writing' = writing \cup {p}
  /\ overlap' = (overlap \/ File(p).exists)
  /\ UNCHANGED <<want, supported, next, image, starts, cut>>

\* os.Create makes or truncates the file and keeps the mode of one that exists.
Create(p) ==
  /\ at[p] = "extract"
  /\ Executed(p) = {}
  /\ MoveTo(p, "copy")
  /\ files' = [files EXCEPT ![Path(want[p])] = [@ EXCEPT !.exists = TRUE, !.data = {}]]
  /\ writing' = writing \cup {p}
  /\ overlap' = (overlap \/ File(p).exists)
  /\ UNCHANGED <<want, supported, next, image, starts, cut>>

CreateFails(p) ==
  /\ at[p] = "extract"
  /\ Executed(p) # {}
  /\ Fails(p)
  /\ UNCHANGED <<want, supported, next, files, image, starts, cut, overlap>>

\* One write of io.Copy.
Copy(p) ==
  /\ at[p] = "copy"
  /\ next[p] <= Parts
  /\ files' = [files EXCEPT ![Path(want[p])].data = @ \cup {<<want[p], next[p]>>}]
  /\ next' = [next EXCEPT ![p] = @ + 1]
  /\ UNCHANGED <<at, want, supported, writing, image, starts, cut, overlap>>

\* The body ends early: what has been written stays.
CopyFails(p) ==
  /\ at[p] = "copy"
  /\ next[p] <= Parts
  /\ Fails(p)
  /\ cut' = TRUE
  /\ UNCHANGED <<want, supported, next, files, image, starts, overlap>>

Copied(p) ==
  /\ at[p] = "copy"
  /\ next[p] > Parts
  /\ MoveTo(p, "chmod")
  /\ UNCHANGED <<want, supported, next, writing, files, image, starts, cut, overlap>>

Chmod(p) ==
  /\ at[p] = "chmod"
  /\ MoveTo(p, "close")
  /\ files' = [files EXCEPT ![Path(want[p])].exec = TRUE]
  /\ UNCHANGED <<want, supported, next, writing, image, starts, cut, overlap>>

\* Mutant: it stays open.
CloseNever(p) ==
  /\ at[p] = "close"
  /\ MoveTo(p, "override")
  /\ UNCHANGED <<want, supported, next, writing, files, image, starts, cut, overlap>>

\* The deferred Close of downloadArtifact.
Close(p) ==
  /\ at[p] = "close"
  /\ MoveTo(p, "override")
  /\ writing' = writing \ {p}
  /\ UNCHANGED <<want, supported, next, files, image, starts, cut, overlap>>

-----------------------------------------------------------------------------
(* NewLocalRunner, runOnHost, and the end of a session. *)

\* os.Stat finds the path, so it stays in the overrides.
Override(p) ==
  /\ at[p] = "override"
  /\ MoveTo(p, "exec")
  /\ UNCHANGED <<want, supported, next, writing, files, image, starts, cut, overlap>>

CanExec(p) == File(p).exec /\ Opened(p) = {}

\* cmd.Run.
Exec(p) ==
  /\ at[p] = "exec"
  /\ CanExec(p)
  /\ MoveTo(p, "running")
  /\ image' = [image EXCEPT ![p] = File(p).data]
  /\ UNCHANGED <<want, supported, next, writing, files, starts, cut, overlap>>

\* Permission denied, or text file busy: the error goes to exitErr.
ExecFails(p) ==
  /\ at[p] = "exec"
  /\ ~CanExec(p)
  /\ Fails(p)
  /\ UNCHANGED <<want, supported, next, files, image, starts, cut, overlap>>

\* The session ends, whatever it is doing; the kernel closes its files.
Killed(p) ==
  /\ at[p] \notin {"idle", "failed"}
  /\ MoveTo(p, "idle")
  /\ writing' = writing \ {p}
  /\ cut' = (cut \/ at[p] \in {"copy", "chmod"})
  /\ image' = [image EXCEPT ![p] = {}]
  /\ UNCHANGED <<want, supported, next, files, starts, overlap>>

\* The model's bound is reached.
Quiet == starts = MaxStarts /\ UNCHANGED rvars

RNext ==
  \/ \E p \in Sessions :
       \/ \E r \in Releases : Start(p, r)
       \/ Stat(p) \/ FromPath(p) \/ Get(p) \/ GetFails(p)
       \/ Create(p) \/ CreateFails(p) \/ Copy(p) \/ CopyFails(p) \/ Copied(p)
       \/ Chmod(p) \/ Close(p)
       \/ Override(p) \/ Exec(p) \/ ExecFails(p) \/ Killed(p)
  \/ Quiet

RSpec == RInit /\ [][RNext]_rvars

-----------------------------------------------------------------------------
(* Properties. *)

(* What runs on the host is the whole binary of the version that was asked   *)
(* for, although downloads are interrupted and others find what they left:   *)
(* a file becomes executable last (releases.go:113).  The exception takes two *)
(* sessions that download the same release at once: the second truncates     *)
(* what the first has made executable, and is interrupted.                   *)
RunsWhole ==
  \A p \in Sessions : at[p] = "running" => (overlap /\ cut) \/ image[p] = PartsOf(want[p])

(* A path that DownloadRelease has returned cannot be executed only if some  *)
(* download was interrupted before, or another session is in its download at *)
(* this moment.  After an interruption nothing repairs the file.             *)
CachedRuns ==
  \A p \in Sessions :
    at[p] \in {"override", "exec"} =>
      \/ CanExec(p)
      \/ cut
      \/ Opened(p) \ {p} # {}
=============================================================================
