------------------------------ MODULE Manifest ------------------------------
(***************************************************************************)
(* From the command line to running services: a recipe builds the manifest *)
(* (Manifest.AddService), Validate checks it, prometheus is added to it    *)
(* (main.go, runIt), overrides and releases decide which services run on   *)
(* the host and which images are replaced (NewLocalRunner), and the compose *)
(* file is written and handed to docker (generateDockerCompose, Run).      *)
(*                                                                         *)
(* All of it is one goroutine; what can go wrong is that a later step      *)
(* undoes what an earlier one has checked.  Port numbers and addresses are *)
(* in Ports; the services once they start are in Runner.                   *)
(***************************************************************************)
EXTENDS Naturals, Sequences

CONSTANTS
  Strings,     \* names of services and components, and port labels
  Requests,    \* command lines, of which override, prometheus and dryRun matter here
  Apply(_),    \* Recipe.Apply: the services a recipe builds for a request
  Components,  \* names of the registered components
  Releases     \* those that implement ReleaseService

\* A {{Service}} template, by the label it asks for, and a depends_on entry.
Ref        == [service : Strings, label : Strings]
Dependency == [name : Strings, condition : {"running", "healthy"}]

\* ready: there is a ReadyCheck; onHost: the use-host-execution label.
Service ==
  [name : Strings, component : Strings, ports : SUBSET Strings, refs : SUBSET Ref,
   depends : SUBSET Dependency, ready : BOOLEAN, onHost : BOOLEAN,
   image : {"default", "override"}]

\* What --override gives for a service: the path of an executable, image:tag,
\* or something that is neither.
Override == {"executable", "image", "neither"}

ASSUME ManifestAssumption ==
  /\ {"prometheus", "null", "metrics"} \subseteq Strings
  /\ \A r \in Requests :
       /\ Apply(r) \in Seq(Service)
       /\ r.override \in [DOMAIN r.override -> Override]
       /\ r.prometheus \in BOOLEAN
       /\ r.dryRun \in BOOLEAN

VARIABLES
  pc,         \* the next step of runIt, or how it ended
  request,    \* the command line
  services,   \* Manifest.Services
  saved,      \* manifest.json
  overrides,  \* the runner's overrides: services on the host, and whose choice it was
  compose     \* services of docker-compose.yaml, by name

vars == <<pc, request, services, saved, overrides, compose>>

Ended ==
  {"rejected", "override_unknown", "runner_failed", "download_failed",
   "image_missing", "panicked", "refused", "dry", "running"}

Steps ==
  Ended \cup
  {"apply", "validate", "prometheus", "override", "runner", "generate", "up", "hosts"}

Named == {services[i].name : i \in DOMAIN services}

\* Types; only services of the manifest are taken to the host.  (Code: Manifest,
\* LocalRunner.overrides, generateDockerCompose.)
TypeOK ==
  /\ pc \in Steps
  /\ services \in Seq(Service)
  /\ saved \in Seq(Service)
  /\ overrides \in [DOMAIN overrides -> {"user", "release"}]
  /\ DOMAIN overrides \subseteq Named
  /\ DOMAIN compose \subseteq Named

Init ==
  /\ pc = "apply"
  /\ request \in Requests
  /\ services = <<>>
  /\ saved = <<>>
  /\ overrides = <<>>
  /\ compose = <<>>

Goto(step) ==
  /\ pc' = step
  /\ UNCHANGED <<request, services, saved, overrides, compose>>

-----------------------------------------------------------------------------
(* The manifest.                                                           *)

ApplyRecipe ==
  /\ pc = "apply"
  /\ pc' = "validate"
  /\ services' = Apply(request)
  /\ UNCHANGED <<request, saved, overrides, compose>>

\* GetService takes the first service of a name.
GetService(name, i) ==
  /\ services[i].name = name
  /\ \A j \in 1 .. i - 1 : services[j].name # name

\* Mutant: any port of the service will do.
ResolvesName(r) ==
  \E i \in DOMAIN services : GetService(r.service, i)

Resolves(r) ==
  \E i \in DOMAIN services : GetService(r.service, i) /\ r.label \in services[i].ports

\* Mutant: nobody asks for a ready check.
AwaitsName(d) ==
  \E i \in DOMAIN services : GetService(d.name, i)

Awaits(d) ==
  \E i \in DOMAIN services :
    /\ GetService(d.name, i)
    /\ d.condition = "healthy" => services[i].ready

Valid ==
  \A i \in DOMAIN services :
    /\ \A r \in services[i].refs : Resolves(r)
    /\ \A d \in services[i].depends : Awaits(d)

ValidateFails ==
  /\ pc = "validate"
  /\ ~Valid
  /\ Goto("rejected")

\* Mutant: depends_on is not looked at.
ValidateReferencesOnly ==
  /\ pc = "validate"
  /\ \A i \in DOMAIN services : \A r \in services[i].refs : Resolves(r)
  /\ pc' = "prometheus"
  /\ saved' = services
  /\ UNCHANGED <<request, services, overrides, compose>>

\* Validate passes and manifest.json is saved.
Validate ==
  /\ pc = "validate"
  /\ Valid
  /\ pc' = "prometheus"
  /\ saved' = services
  /\ UNCHANGED <<request, services, overrides, compose>>

Prometheus ==
  [name |-> "prometheus", component |-> "null", ports |-> {"metrics"}, refs |-> {},
   depends |-> {}, ready |-> FALSE, onHost |-> FALSE, image |-> "default"]

\* The service is appended after Validate and after manifest.json was written.
CreatePrometheusServices ==
  /\ pc = "prometheus"
  /\ request.prometheus
  /\ pc' = "override"
  /\ services' = Append(services, Prometheus)
  /\ UNCHANGED <<request, saved, overrides, compose>>

WithoutPrometheus ==
  /\ pc = "prometheus"
  /\ ~request.prometheus
  /\ Goto("override")

DryRun ==
  /\ pc = "override"
  /\ request.dryRun
  /\ Goto("dry")

-----------------------------------------------------------------------------
(* The runner.                                                             *)

OverrideUnknown ==
  /\ pc = "override"
  /\ ~request.dryRun
  /\ ~(DOMAIN request.override \subseteq Named)
  /\ Goto("override_unknown")

OverridesKnown ==
  /\ pc = "override"
  /\ ~request.dryRun
  /\ DOMAIN request.override \subseteq Named
  /\ Goto("runner")

ComponentsFound == \A i \in DOMAIN services : services[i].component \in Components

Labelled == {i \in DOMAIN services : services[i].onHost}

Released == \A i \in Labelled : services[i].component \in Releases

\* The download, or a binary found in PATH: os.Stat is asked for its bare name.
DownloadFails ==
  /\ pc = "runner"
  /\ ComponentsFound
  /\ Labelled # {}
  /\ Goto("download_failed")

\* The overrides map after the downloads, which overwrite what the user gave.
\* Manifest.overrides, which is merged in before, is never filled.
Merged ==
  [n \in DOMAIN request.override \cup {services[i].name : i \in Labelled} |->
     IF \E i \in Labelled : services[i].name = n THEN "release" ELSE request.override[n]]

Fit == ComponentsFound /\ Released /\ \A n \in DOMAIN Merged : Merged[n] # "neither"

NewLocalRunnerFails ==
  /\ pc = "runner"
  /\ ~Fit
  /\ Goto("runner_failed")

Executables == {n \in DOMAIN Merged : Merged[n] \in {"executable", "release"}}

\* MustGetService changes the image of the first service of the name.
WithImages ==
  [i \in DOMAIN services |->
     IF \E n \in DOMAIN Merged : Merged[n] = "image" /\ GetService(n, i)
     THEN [services[i] EXCEPT !.image = "override"]
     ELSE services[i]]

\* Mutant: image overrides stay in the map.
NewLocalRunnerKeepsAll ==
  /\ pc = "runner"
  /\ Fit
  /\ pc' = "generate"
  /\ services' = WithImages
  /\ overrides' = [n \in DOMAIN Merged |-> IF Merged[n] = "release" THEN "release" ELSE "user"]
  /\ UNCHANGED <<request, saved, compose>>

NewLocalRunner ==
  /\ pc = "runner"
  /\ Fit
  /\ pc' = "generate"
  /\ services' = WithImages
  /\ overrides' = [n \in Executables |-> IF Merged[n] = "release" THEN "release" ELSE "user"]
  /\ UNCHANGED <<request, saved, compose>>

-----------------------------------------------------------------------------
(* The compose file.                                                       *)

InDocker(i) == services[i].name \notin DOMAIN overrides

\* MustGetService and MustGetPort panic on a reference that does not resolve.
TemplatesResolve(I) == \A i \in I : \A r \in services[i].refs : Resolves(r)

Containers == {i \in DOMAIN services : InDocker(i)}

ImageMissing ==
  /\ pc = "generate"
  /\ Containers # {}
  /\ TemplatesResolve(Containers)
  /\ Goto("image_missing")

\* The file is a map from names: a later service replaces an earlier one.
LastNamed(n) ==
  CHOOSE i \in DOMAIN services :
    /\ services[i].name = n
    /\ \A j \in i + 1 .. Len(services) : services[j].name # n

\* A panic ends the program and leaves no file.
generateDockerCompose ==
  /\ pc = "generate"
  /\ pc' = IF TemplatesResolve(Containers) THEN "up" ELSE "panicked"
  /\ compose' = [n \in {services[i].name : i \in Containers} |-> services[LastNamed(n)]]
  /\ UNCHANGED <<request, services, saved, overrides>>

Waiting == {c \in DOMAIN compose : compose[c].depends # {}}

\* Some of any containers that wait do not wait for each other.
NoCycles ==
  \A C \in (SUBSET Waiting) \ {{}} : \E c \in C : \A d \in compose[c].depends : d.name \notin C

\* docker compose wants every dependency in the file, a health check where health is
\* waited for, and no cycles.
ComposeAccepts ==
  /\ \A c \in DOMAIN compose : \A d \in compose[c].depends :
       /\ d.name \in DOMAIN compose
       /\ d.condition = "healthy" => compose[d.name].ready
  /\ NoCycles

ComposeUp ==
  /\ pc = "up"
  /\ ComposeAccepts
  /\ Goto("hosts")

ComposeRefuses ==
  /\ pc = "up"
  /\ ~ComposeAccepts
  /\ Goto("refused")

RunOnHost ==
  /\ pc = "hosts"
  /\ Goto(IF TemplatesResolve(DOMAIN services \ Containers) THEN "running" ELSE "panicked")

-----------------------------------------------------------------------------

Next ==
  \/ ApplyRecipe
  \/ Validate
  \/ ValidateFails
  \/ CreatePrometheusServices
  \/ WithoutPrometheus
  \/ DryRun
  \/ OverridesKnown
  \/ OverrideUnknown
  \/ DownloadFails
  \/ NewLocalRunnerFails
  \/ NewLocalRunner
  \/ ImageMissing
  \/ generateDockerCompose
  \/ ComposeUp
  \/ ComposeRefuses
  \/ RunOnHost

Spec == Init /\ [][Next]_vars

-----------------------------------------------------------------------------

Decided == pc \notin {"apply", "validate"}

\* The manifest the runner works with still passes Validate, after prometheus was added
\* and images were replaced.  (Code: runIt, CreatePrometheusServices, NewLocalRunner.)
StillValid == Decided /\ pc # "rejected" => Valid

\* docker compose can start every manifest that passed Validate, unless the user took a
\* service to the host that containers wait for: depends_on is complete, has health
\* checks to wait for, and no cycles.  (Code: DependsOnHealthy and DependsOnRunning of
\* the components, Validate, generateDockerCompose.)
ComposeStarts ==
  pc = "refused" =>
    \E c \in DOMAIN compose : \E d \in compose[c].depends :
      /\ d.name \in DOMAIN overrides
      /\ overrides[d.name] = "user"

\* An override reaches what runs: an executable runs on the host, an image is in the
\* compose file.  Two cases are left out in which it is lost: a native service, whose
\* override the download overwrites, and a name that is there twice, of which the first
\* gets the image and the last is deployed.  (Code: NewLocalRunner.)
OverridesApplied ==
  pc \in {"up", "hosts", "running"} =>
    \A n \in DOMAIN request.override :
      \/ \E i \in DOMAIN services : services[i].name = n /\ services[i].onHost
      \/ \E i, j \in DOMAIN services : i # j /\ services[i].name = n /\ services[j].name = n
      \/ request.override[n] = "executable" /\ n \in DOMAIN overrides
      \/ request.override[n] = "image" /\ n \in DOMAIN compose /\ compose[n].image = "override"
=============================================================================
