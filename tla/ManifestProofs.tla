--------------------------- MODULE ManifestProofs ---------------------------
(***************************************************************************)
(* For whatever a recipe builds and whatever is overridden: a manifest     *)
(* that passed Validate keeps passing it, so that no template panics when  *)
(* it is resolved, whatever a service waits for is deployed, and no        *)
(* override is lost.  For what the three recipes build, whatever their     *)
(* flags: Validate rejects exactly the flags that do not go together, the  *)
(* block builders are reached, and docker compose starts what is left.     *)
(***************************************************************************)
EXTENDS Deployment, WellFoundedInduction, SequenceTheorems, TLAPS

Requested == request \in Requests

\* What is overridden is in the manifest from the check in runIt on.
OverridesNamed == pc = "runner" => DOMAIN request.override \subseteq Named

NoPanic == pc # "panicked"

\* After the compose file is written every service is in it or on the host.
AllPlaced ==
  pc \in {"up", "hosts", "running", "refused"} => Named = DOMAIN compose \cup DOMAIN overrides

\* Nothing has been decided for a manifest that does not exist.
Fresh == pc = "apply" => DOMAIN overrides = {} /\ DOMAIN compose = {}

Inv ==
  /\ TypeOK
  /\ Requested
  /\ OverridesNamed
  /\ StillValid
  /\ NoPanic
  /\ AllPlaced
  /\ Fresh

\* What a service waits for is deployed: in the compose file, or on the host.
DependenciesPlaced ==
  pc \in {"up", "hosts", "running", "refused"} =>
    \A i \in DOMAIN services : \A d \in services[i].depends :
      d.name \in DOMAIN compose \cup DOMAIN overrides

-----------------------------------------------------------------------------

LEMMA InitInv == Init => Inv
<1> SUFFICES ASSUME Init PROVE Inv
  OBVIOUS
<1> USE DEF Init
<1>1. TypeOK
  BY DEF TypeOK, Steps, Named
<1>2. Requested /\ OverridesNamed /\ StillValid /\ NoPanic /\ AllPlaced /\ Fresh
  BY DEF Requested, OverridesNamed, StillValid, Decided, NoPanic, AllPlaced, Fresh
<1> QED
  BY <1>1, <1>2 DEF Inv

LEMMA ApplyStep ==
  ASSUME Inv, ApplyRecipe
  PROVE  Inv'
<1> USE DEF ApplyRecipe
<1>1. Apply(request) \in Seq(Service) /\ Requested'
  BY ManifestAssumption DEF Inv, Requested
<1>2. TypeOK'
  BY <1>1 DEF Inv, Fresh, TypeOK, Steps, Named
<1>3. OverridesNamed' /\ StillValid' /\ NoPanic' /\ AllPlaced' /\ Fresh'
  BY DEF OverridesNamed, StillValid, Decided, NoPanic, AllPlaced, Fresh
<1> QED
  BY <1>1, <1>2, <1>3 DEF Inv

LEMMA ValidateStep ==
  ASSUME Inv, Validate
  PROVE  Inv'
<1> USE DEF Validate
<1>1. Valid' /\ Named' = Named /\ Requested'
  BY DEF Inv, Requested, Valid, Resolves, Awaits, GetService, Named
<1>2. TypeOK'
  BY <1>1 DEF Inv, TypeOK, Steps
<1>3. OverridesNamed' /\ StillValid' /\ NoPanic' /\ AllPlaced' /\ Fresh'
  BY <1>1 DEF OverridesNamed, StillValid, Decided, NoPanic, AllPlaced, Fresh
<1> QED
  BY <1>1, <1>2, <1>3 DEF Inv

\* A service at the end hides none of those before it.
LEMMA AppendKeepsValid ==
  ASSUME TypeOK, Valid,
         NEW s \in Service, s.refs = {}, s.depends = {},
         services' = Append(services, s)
  PROVE  Valid' /\ Named' = Named \cup {s.name} /\ services' \in Seq(Service)
<1>1. services \in Seq(Service)
  BY DEF TypeOK
<1>2. /\ services' \in Seq(Service)
      /\ DOMAIN services' = DOMAIN services \cup {Len(services) + 1}
      /\ DOMAIN services = 1 .. Len(services)
      /\ \A i \in DOMAIN services : services'[i] = services[i]
      /\ services'[Len(services) + 1] = s
      /\ Len(services) \in Nat
  BY <1>1
<1>3. ASSUME NEW name, NEW i \in DOMAIN services, GetService(name, i)
      PROVE  i \in DOMAIN services' /\ GetService(name, i)'
  BY <1>2, <1>3 DEF GetService
<1>4. \A r : Resolves(r) => Resolves(r)'
  BY <1>2, <1>3 DEF Resolves
<1>5. \A d : Awaits(d) => Awaits(d)'
  BY <1>2, <1>3 DEF Awaits
<1>6. Valid'
  BY <1>2, <1>4, <1>5 DEF Valid
<1>7. Named' = Named \cup {s.name}
  BY <1>2 DEF Named
<1> QED
  BY <1>2, <1>6, <1>7

LEMMA PrometheusStep ==
  ASSUME Inv, CreatePrometheusServices
  PROVE  Inv'
<1> USE DEF CreatePrometheusServices
<1>1. /\ Prometheus \in Service
      /\ Prometheus.refs = {}
      /\ Prometheus.depends = {}
  BY ManifestAssumption DEF Prometheus, Service
<1>2. TypeOK /\ Valid /\ Requested'
  BY DEF Inv, StillValid, Decided, Requested
<1>3. Valid' /\ Named' = Named \cup {Prometheus.name} /\ services' \in Seq(Service)
  BY <1>1, <1>2, AppendKeepsValid
<1>4. TypeOK'
  BY <1>2, <1>3 DEF TypeOK, Steps
<1>5. OverridesNamed' /\ StillValid' /\ NoPanic' /\ AllPlaced' /\ Fresh'
  BY <1>3 DEF OverridesNamed, StillValid, Decided, NoPanic, AllPlaced, Fresh
<1> QED
  BY <1>2, <1>4, <1>5 DEF Inv

\* Changing images changes neither names, nor ports, nor what is waited for.
LEMMA ImagesKeepValid ==
  ASSUME TypeOK, Valid, services' = WithImages
  PROVE  Valid' /\ Named' = Named /\ services' \in Seq(Service)
<1>1. services \in Seq(Service)
  BY DEF TypeOK
<1>2. DOMAIN services = 1 .. Len(services) /\ Len(services) \in Nat
  BY <1>1
<1>3. ASSUME NEW i \in DOMAIN services
      PROVE  /\ services'[i] \in Service
             /\ services'[i].name = services[i].name
             /\ services'[i].ports = services[i].ports
             /\ services'[i].refs = services[i].refs
             /\ services'[i].depends = services[i].depends
             /\ services'[i].ready = services[i].ready
  <2>1. services[i] \in Service
    BY <1>1
  <2>2. [services[i] EXCEPT !.image = "override"] \in Service
    BY <2>1 DEF Service
  <2> QED
    BY <2>1, <2>2 DEF WithImages, Service
<1>4. DOMAIN services' = DOMAIN services
  BY DEF WithImages
<1>5. services' \in Seq(Service)
  <2>1. services' \in [1 .. Len(services) -> Service]
    BY <1>2, <1>3, <1>4 DEF WithImages
  <2> QED
    BY <2>1, <1>2
<1>6. \A name : \A i \in DOMAIN services : GetService(name, i) => GetService(name, i)'
  BY <1>2, <1>3, <1>4 DEF GetService
<1>7. Valid'
  <2>1. \A r : Resolves(r) => Resolves(r)'
    BY <1>3, <1>4, <1>6 DEF Resolves
  <2>2. \A d : Awaits(d) => Awaits(d)'
    BY <1>3, <1>4, <1>6 DEF Awaits
  <2> QED
    BY <1>3, <1>4, <2>1, <2>2 DEF Valid
<1>8. Named' = Named
  BY <1>3, <1>4 DEF Named
<1> QED
  BY <1>5, <1>7, <1>8

LEMMA NewLocalRunnerStep ==
  ASSUME Inv, NewLocalRunner
  PROVE  Inv'
<1> USE DEF NewLocalRunner
<1>1. TypeOK /\ Valid /\ Requested' /\ DOMAIN request.override \subseteq Named
  BY DEF Inv, StillValid, Decided, Requested, OverridesNamed
<1>2. Valid' /\ Named' = Named /\ services' \in Seq(Service)
  BY <1>1, ImagesKeepValid
<1>3. Executables \subseteq Named
  <2>1. DOMAIN Merged \subseteq Named
    BY <1>1 DEF Merged, Labelled, Named
  <2> QED
    BY <2>1 DEF Executables
<1>4. TypeOK'
  BY <1>1, <1>2, <1>3 DEF TypeOK, Steps
<1>5. OverridesNamed' /\ StillValid' /\ NoPanic' /\ AllPlaced' /\ Fresh'
  BY <1>2 DEF OverridesNamed, StillValid, Decided, NoPanic, AllPlaced, Fresh
<1> QED
  BY <1>1, <1>4, <1>5 DEF Inv

\* Valid is all that the templates need.
LEMMA ValidResolves ==
  ASSUME Valid
  PROVE  TemplatesResolve(Containers) /\ TemplatesResolve(DOMAIN services \ Containers)
BY DEF Valid, TemplatesResolve, Containers

LEMMA GenerateStep ==
  ASSUME Inv, generateDockerCompose
  PROVE  Inv'
<1> USE DEF generateDockerCompose
<1>1. TypeOK /\ Valid /\ Requested'
  BY DEF Inv, StillValid, Decided, Requested
<1>2. pc' = "up"
  BY <1>1, ValidResolves
<1>3. Valid' /\ Named' = Named
  BY <1>1 DEF Valid, Resolves, Awaits, GetService, Named
<1>4. DOMAIN compose' = {services[i].name : i \in Containers}
  OBVIOUS
<1>5. DOMAIN compose' \subseteq Named /\ Named = DOMAIN compose' \cup DOMAIN overrides
  BY <1>1, <1>4 DEF TypeOK, Containers, InDocker, Named
<1>6. TypeOK'
  BY <1>1, <1>2, <1>3, <1>5 DEF TypeOK, Steps
<1>7. OverridesNamed' /\ StillValid' /\ NoPanic' /\ AllPlaced' /\ Fresh'
  BY <1>2, <1>3, <1>5 DEF OverridesNamed, StillValid, Decided, NoPanic, AllPlaced, Fresh
<1> QED
  BY <1>1, <1>6, <1>7 DEF Inv

\* The steps that only move on.
LEMMA GotoStep ==
  ASSUME Inv,
         \/ ValidateFails \/ WithoutPrometheus \/ DryRun \/ OverrideUnknown \/ OverridesKnown
         \/ DownloadFails \/ NewLocalRunnerFails \/ ImageMissing
         \/ ComposeUp \/ ComposeRefuses \/ RunOnHost
  PROVE  Inv'
<1>1. UNCHANGED <<request, services, saved, overrides, compose>>
  BY DEF Goto, ValidateFails, WithoutPrometheus, DryRun, OverrideUnknown, OverridesKnown,
         DownloadFails, NewLocalRunnerFails, ImageMissing, ComposeUp, ComposeRefuses, RunOnHost
<1>2. (Valid' <=> Valid) /\ Named' = Named /\ Requested'
  BY <1>1 DEF Inv, Requested, Valid, Resolves, Awaits, GetService, Named
<1>3. /\ pc' \in Steps \ {"apply", "validate", "panicked"}
      /\ pc' = "runner" => DOMAIN request.override \subseteq Named
      /\ pc' # "rejected" => Valid
      /\ pc' \in {"up", "hosts", "running", "refused"} => pc \in {"up", "hosts"}
  BY ValidResolves
     DEF Inv, StillValid, Decided, Steps, Ended, Goto, ValidateFails, WithoutPrometheus, DryRun,
         OverrideUnknown, OverridesKnown, DownloadFails, NewLocalRunnerFails, ImageMissing,
         ComposeUp, ComposeRefuses, RunOnHost
<1>4. TypeOK'
  BY <1>1, <1>2, <1>3 DEF Inv, TypeOK
<1>5. OverridesNamed' /\ StillValid' /\ NoPanic' /\ AllPlaced' /\ Fresh'
  BY <1>1, <1>2, <1>3 DEF Inv, OverridesNamed, StillValid, NoPanic, AllPlaced, Fresh
<1> QED
  BY <1>2, <1>4, <1>5 DEF Inv

-----------------------------------------------------------------------------

\* Inv holds from the recipe to the running services, whatever the recipe builds.
THEOREM Invariance == Spec => []Inv
<1>1. Inv /\ [Next]_vars => Inv'
  <2> SUFFICES ASSUME Inv, [Next]_vars PROVE Inv'
    OBVIOUS
  <2>1. CASE ApplyRecipe
    BY <2>1, ApplyStep
  <2>2. CASE Validate
    BY <2>2, ValidateStep
  <2>3. CASE CreatePrometheusServices
    BY <2>3, PrometheusStep
  <2>4. CASE NewLocalRunner
    BY <2>4, NewLocalRunnerStep
  <2>5. CASE generateDockerCompose
    BY <2>5, GenerateStep
  <2>6. CASE \/ ValidateFails \/ WithoutPrometheus \/ DryRun \/ OverrideUnknown \/ OverridesKnown
             \/ DownloadFails \/ NewLocalRunnerFails \/ ImageMissing
             \/ ComposeUp \/ ComposeRefuses \/ RunOnHost
    BY <2>6, GotoStep
  <2>7. CASE UNCHANGED vars
    BY <2>7 DEF vars, Inv, TypeOK, Requested, OverridesNamed, StillValid, Decided, Valid, Resolves,
                Awaits, GetService, NoPanic, AllPlaced, Fresh, Named
  <2> QED
    BY <2>1, <2>2, <2>3, <2>4, <2>5, <2>6, <2>7 DEF Next
<1> QED
  BY InitInv, <1>1, PTL DEF Spec

\* Types, and only services of the manifest run on the host or in docker.
THEOREM TypeCorrect == Spec => []TypeOK
<1>1. Inv => TypeOK
  BY DEF Inv
<1> QED
  BY Invariance, <1>1, PTL

\* Adding prometheus and replacing images never undoes what Validate has checked.
THEOREM ValidityKept == Spec => []StillValid
<1>1. Inv => StillValid
  BY DEF Inv
<1> QED
  BY Invariance, <1>1, PTL

\* MustGetService and MustGetPort never panic while the runner resolves templates.
THEOREM NeverPanics == Spec => []NoPanic
<1>1. Inv => NoPanic
  BY DEF Inv
<1> QED
  BY Invariance, <1>1, PTL

\* A service that passes Validate never waits for one that is deployed nowhere.
THEOREM NobodyMissing == Spec => []DependenciesPlaced
<1>1. Inv => DependenciesPlaced
  BY DEF Inv, StillValid, Decided, AllPlaced, DependenciesPlaced, Valid, Awaits, GetService, Named
<1> QED
  BY Invariance, <1>1, PTL

-----------------------------------------------------------------------------
(* What becomes of the overrides.                                          *)

Deploying == {"up", "hosts", "running", "refused"}

\* Where NewLocalRunner has left an override: with the runner or in the service.
Taken(n) ==
  \/ \E i \in DOMAIN services : services[i].name = n /\ services[i].onHost
  \/ request.override[n] = "executable" /\ n \in DOMAIN overrides
  \/ /\ request.override[n] = "image"
     /\ n \notin DOMAIN overrides
     /\ \E i \in DOMAIN services : services[i].name = n /\ services[i].image = "override"

OverridesTaken ==
  pc \in {"generate"} \cup Deploying => \A n \in DOMAIN request.override : Taken(n)

\* Only native services are downloaded.
ReleasesNative ==
  \A n \in DOMAIN overrides :
    overrides[n] # "user" => \E i \in DOMAIN services : services[i].name = n /\ services[i].onHost

Before == {"apply", "validate", "prometheus"}

NoneYet == pc \in Before => DOMAIN overrides = {}

ComposeWritten ==
  pc \in Deploying =>
    compose = [n \in {services[i].name : i \in Containers} |-> services[LastNamed(n)]]

PlacementInv == OverridesTaken /\ ReleasesNative /\ NoneYet /\ ComposeWritten

\* Sets of naturals have a least member.
LEMMA Least ==
  ASSUME NEW T \in SUBSET Nat, T # {}
  PROVE  \E m \in T : \A k \in T : m <= k
<1> DEFINE R == {ss \in Nat \X Nat : ss[1] < ss[2]}
<1>1. IsWellFoundedOn(R, Nat)
  BY NatLessThanWellFounded DEF OpToRel
<1> HIDE DEF R
<1>2. PICK m \in T : \A k \in T : ~(<<k, m>> \in R)
  BY <1>1, WFMin
<1>3. \A k \in T : k \in Nat /\ (<<k, m>> \notin R => m <= k)
  BY DEF R
<1> QED
  BY <1>2, <1>3

\* GetService finds what is in the manifest.
LEMMA FirstNamed ==
  ASSUME services \in Seq(Service), NEW name \in Named
  PROVE  \E i \in DOMAIN services : GetService(name, i)
<1> DEFINE T == {i \in DOMAIN services : services[i].name = name}
<1>1. DOMAIN services = 1 .. Len(services) /\ Len(services) \in Nat
  OBVIOUS
<1>2. T \in SUBSET Nat /\ T # {}
  BY <1>1 DEF Named
<1> HIDE DEF T
<1>3. PICK i \in T : \A k \in T : i <= k
  BY <1>2, Least
<1> QED
  BY <1>1, <1>3 DEF T, GetService

\* The service that is deployed under a name has it.
LEMMA LastNamedIs ==
  ASSUME services \in Seq(Service), NEW name \in Named
  PROVE  LastNamed(name) \in DOMAIN services /\ services[LastNamed(name)].name = name
<1> DEFINE T == {i \in DOMAIN services : services[i].name = name}
           After == {Len(services) - i : i \in T}
<1>1. DOMAIN services = 1 .. Len(services) /\ Len(services) \in Nat
  OBVIOUS
<1>2. After \in SUBSET Nat /\ After # {}
  BY <1>1 DEF Named
<1>3. PICK a \in After : \A k \in After : a <= k
  <2> HIDE DEF After
  <2> QED
    BY <1>2, Least
<1>4. PICK i \in T : a = Len(services) - i
  OBVIOUS
<1>5. ASSUME NEW j \in T
      PROVE  j <= i
  <2>1. Len(services) - j \in After /\ i \in Nat /\ j \in Nat
    BY <1>1
  <2>2. Len(services) - i <= Len(services) - j
    BY <1>3, <1>4, <2>1
  <2> QED
    BY <1>1, <2>1, <2>2
<1>6. \A j \in i + 1 .. Len(services) : services[j].name # name
  BY <1>1, <1>5
<1> QED
  BY <1>4, <1>6 DEF LastNamed

\* NewLocalRunner drops no override: every one is in its map or in the service it names.
LEMMA ImagesStep ==
  ASSUME Inv, NewLocalRunner
  PROVE  OverridesTaken' /\ ReleasesNative'
<1> USE DEF NewLocalRunner
<1>1. /\ services \in Seq(Service) /\ DOMAIN request.override \subseteq Named
      /\ request' = request
      /\ request.override \in [DOMAIN request.override -> Override]
  BY ManifestAssumption DEF Inv, TypeOK, OverridesNamed, Requested
<1>2. DOMAIN services' = DOMAIN services /\ DOMAIN services = 1 .. Len(services) /\ Len(services) \in Nat
  BY <1>1 DEF WithImages
<1>3. ASSUME NEW i \in DOMAIN services
      PROVE  /\ services'[i].name = services[i].name
             /\ services'[i].onHost = services[i].onHost
             /\ (\E n \in DOMAIN Merged : Merged[n] = "image" /\ GetService(n, i))
                  => services'[i].image = "override"
  BY <1>1, <1>3 DEF WithImages, Service
<1>4. ASSUME NEW n \in DOMAIN request.override
      PROVE  Taken(n)'
  <2>1. n \in DOMAIN Merged /\ n \in Named /\ request.override[n] \in Override
    BY <1>1 DEF Merged
  <2>2. CASE \E i \in Labelled : services[i].name = n
    BY <1>2, <1>3, <2>2 DEF Labelled, Taken
  <2>3. CASE ~\E i \in Labelled : services[i].name = n
    <3>1. Merged[n] = request.override[n] /\ Merged[n] # "neither"
      BY <2>1, <2>3 DEF Merged, Fit
    <3>2. CASE Merged[n] = "executable"
      BY <1>1, <2>1, <3>1, <3>2 DEF Executables, Taken
    <3>3. CASE Merged[n] = "image"
      <4>1. n \notin DOMAIN overrides'
        BY <3>3 DEF Executables
      <4>2. PICK i \in DOMAIN services : GetService(n, i)
        BY <1>1, <2>1, FirstNamed
      <4>3. services'[i].name = n /\ services'[i].image = "override"
        BY <1>3, <2>1, <3>3, <4>2 DEF GetService
      <4> QED
        BY <1>1, <1>2, <3>1, <3>3, <4>1, <4>3 DEF Taken
    <3> QED
      BY <2>1, <3>1, <3>2, <3>3 DEF Override
  <2> QED
    BY <2>2, <2>3
<1>5. OverridesTaken'
  BY <1>1, <1>4 DEF OverridesTaken
<1>6. ReleasesNative'
  <2> SUFFICES ASSUME NEW n \in DOMAIN overrides', overrides'[n] # "user"
               PROVE  \E i \in DOMAIN services' : services'[i].name = n /\ services'[i].onHost
    BY DEF ReleasesNative
  <2>1. n \in Executables /\ Merged[n] = "release"
    OBVIOUS
  <2>2. PICK i \in Labelled : services[i].name = n
    <3>1. ASSUME ~\E i \in Labelled : services[i].name = n
          PROVE  FALSE
      <4>1. n \in DOMAIN request.override /\ Merged[n] = request.override[n]
        BY <2>1, <3>1 DEF Executables, Merged
      <4> QED
        BY <1>1, <2>1, <4>1 DEF Override
    <3> QED
      BY <3>1
  <2> QED
    BY <1>2, <1>3, <2>2 DEF Labelled
<1> QED
  BY <1>5, <1>6

\* The compose file has the last service of every name.
LEMMA WriteStep ==
  ASSUME Inv, PlacementInv, generateDockerCompose
  PROVE  PlacementInv'
<1>1. UNCHANGED <<request, services, saved, overrides>> /\ pc' \in {"up", "panicked"} /\ pc = "generate"
  BY DEF generateDockerCompose
<1>2. OverridesTaken' /\ ReleasesNative'
  BY <1>1 DEF PlacementInv, OverridesTaken, ReleasesNative, Taken, Deploying
<1>3. \A n : LastNamed(n)' = LastNamed(n)
  BY <1>1 DEF LastNamed
<1>4. Containers' = Containers
  BY <1>1 DEF Containers, InDocker
<1>5. ComposeWritten'
  BY <1>1, <1>3, <1>4 DEF generateDockerCompose, ComposeWritten
<1> QED
  BY <1>1, <1>2, <1>5 DEF PlacementInv, NoneYet, Before

LEMMA PlacementStep ==
  ASSUME Inv, PlacementInv, [Next]_vars
  PROVE  PlacementInv'
<1>1. CASE NewLocalRunner
  <2>1. pc' = "generate"
    BY <1>1 DEF NewLocalRunner
  <2> QED
    BY <1>1, <2>1, ImagesStep DEF PlacementInv, ComposeWritten, Deploying, NoneYet, Before
<1>2. CASE generateDockerCompose
  BY <1>2, WriteStep
<1>3. CASE ApplyRecipe \/ Validate \/ CreatePrometheusServices
  <2>1. /\ pc \in Before /\ pc' \in {"validate", "prometheus", "override"}
        /\ overrides' = overrides
    BY <1>3 DEF ApplyRecipe, Validate, CreatePrometheusServices, Before
  <2> QED
    BY <2>1 DEF PlacementInv, OverridesTaken, ReleasesNative, NoneYet, ComposeWritten, Deploying
<1>4. ASSUME UNCHANGED <<request, services, saved, overrides, compose>>,
             pc' \in {"generate"} \cup Deploying =>
               pc \in Deploying \/ (pc' = "generate" /\ pc = "generate"),
             pc' \in Before => pc \in Before
      PROVE  PlacementInv'
  <2>1. \A n : LastNamed(n)' = LastNamed(n)
    BY <1>4 DEF LastNamed
  <2>2. Containers' = Containers
    BY <1>4 DEF Containers, InDocker
  <2>3. ComposeWritten'
    BY <1>4, <2>1, <2>2 DEF PlacementInv, ComposeWritten, Deploying
  <2>4. OverridesTaken' /\ ReleasesNative' /\ NoneYet'
    BY <1>4 DEF PlacementInv, OverridesTaken, ReleasesNative, NoneYet, Taken, Deploying
  <2> QED
    BY <2>3, <2>4 DEF PlacementInv
<1>5. CASE \/ ValidateFails \/ WithoutPrometheus \/ DryRun \/ OverrideUnknown \/ OverridesKnown
           \/ DownloadFails \/ NewLocalRunnerFails \/ ImageMissing
           \/ ComposeUp \/ ComposeRefuses \/ RunOnHost
  <2>1. UNCHANGED <<request, services, saved, overrides, compose>>
    BY <1>5
       DEF Goto, ValidateFails, WithoutPrometheus, DryRun, OverrideUnknown, OverridesKnown,
           DownloadFails, NewLocalRunnerFails, ImageMissing, ComposeUp, ComposeRefuses, RunOnHost
  <2>2. pc' \in {"generate"} \cup Deploying => pc \in Deploying
    BY <1>5
       DEF Goto, ValidateFails, WithoutPrometheus, DryRun, OverrideUnknown, OverridesKnown,
           DownloadFails, NewLocalRunnerFails, ImageMissing, ComposeUp, ComposeRefuses, RunOnHost,
           Deploying
  <2>3. pc' \notin Before
    BY <1>5
       DEF Goto, ValidateFails, WithoutPrometheus, DryRun, OverrideUnknown, OverridesKnown,
           DownloadFails, NewLocalRunnerFails, ImageMissing, ComposeUp, ComposeRefuses, RunOnHost,
           Before
  <2> QED
    BY <1>4, <2>1, <2>2, <2>3
<1>6. CASE UNCHANGED vars
  BY <1>4, <1>6 DEF vars, Deploying
<1> QED
  BY <1>1, <1>2, <1>3, <1>5, <1>6 DEF Next

\* An override can always be found again: with the runner, or in the service that has
\* taken its image, and that service is in the compose file if it is the only one.
THEOREM Placement == Spec => []PlacementInv
<1>1. Init => PlacementInv
  BY DEF Init, PlacementInv, OverridesTaken, ReleasesNative, NoneYet, ComposeWritten, Deploying
<1> QED
  BY <1>1, PlacementStep, Invariance, PTL DEF Spec

\* No override is lost, whatever the recipe built, but for the two cases the property
\* names (local_runner.go:159 to 198).
THEOREM OverridesReachServices == Spec => []OverridesApplied
<1>1. Inv /\ PlacementInv => OverridesApplied
  <2> SUFFICES ASSUME Inv, PlacementInv, pc \in {"up", "hosts", "running"},
                      NEW n \in DOMAIN request.override,
                      ~\E i \in DOMAIN services : services[i].name = n /\ services[i].onHost,
                      ~\E i, j \in DOMAIN services :
                         i # j /\ services[i].name = n /\ services[j].name = n,
                      ~(request.override[n] = "executable" /\ n \in DOMAIN overrides)
               PROVE  /\ request.override[n] = "image"
                      /\ n \in DOMAIN compose
                      /\ compose[n].image = "override"
    BY DEF OverridesApplied
  <2>1. request.override[n] = "image" /\ n \notin DOMAIN overrides
    BY DEF PlacementInv, OverridesTaken, Taken, Deploying
  <2>2. PICK i \in DOMAIN services : services[i].name = n /\ services[i].image = "override"
    BY DEF PlacementInv, OverridesTaken, Taken, Deploying
  <2>3. services \in Seq(Service) /\ n \in Named
    BY <2>2 DEF Inv, TypeOK, Named
  <2>4. LastNamed(n) = i
    BY <2>2, <2>3, LastNamedIs
  <2>5. i \in Containers
    BY <2>1, <2>2 DEF Containers, InDocker
  <2>6. n \in DOMAIN compose /\ compose[n] = services[i]
    BY <2>2, <2>4, <2>5 DEF PlacementInv, ComposeWritten, Deploying
  <2> QED
    BY <2>1, <2>2, <2>6
<1> QED
  BY <1>1, Placement, Invariance, PTL

-----------------------------------------------------------------------------
(* What the three recipes build.                                           *)

\* Services wait for services of a lower rank.
Rank(name) ==
  IF name = "builder-hub-proxy" THEN 2
  ELSE IF name \in {"mev-boost", "mev-boost-relay", "builder-hub", "contender"} THEN 1
  ELSE 0

\* What every service of a recipe has: a registered component, which can be downloaded
\* if it is to run on the host; a ready check if it is one of two; and nothing that waits
\* for itself, for the native service, or round in a circle.
Sound(s) ==
  /\ s.component \in Catalog
  /\ s.onHost => s.name = "el" /\ s.component \in ReleaseServices
  /\ s.ready <=> s.name \in {"beacon", "builder-hub-postgres"}
  /\ \A d \in s.depends : d.name # "el" /\ Rank(d.name) < Rank(s.name)

Listed(list) == {list[i] : i \in DOMAIN list}

AllSound(list) == list \in Seq(Listed(list)) /\ \A s \in Listed(list) : Sound(s)

LEMMA NoneSound == AllSound(<<>>)
  BY DEF AllSound, Listed

LEMMA OneSound ==
  ASSUME NEW s, Sound(s)
  PROVE  AllSound(<<s>>)
  BY DEF AllSound, Listed

LEMMA OnlySound ==
  ASSUME NEW given, NEW s, Sound(s)
  PROVE  AllSound(Only(given, s))
<1>1. CASE given
  BY <1>1, OneSound DEF Only
<1>2. CASE ~given
  BY <1>2, NoneSound DEF Only
<1> QED
  BY <1>1, <1>2

\* What is in two lists is in the one list.
LEMMA BothListed ==
  ASSUME NEW list1, NEW list2, list1 \in Seq(Listed(list1)), list2 \in Seq(Listed(list2))
  PROVE  /\ list1 \o list2 \in Seq(Listed(list1 \o list2))
         /\ Listed(list1 \o list2) = Listed(list1) \cup Listed(list2)
<1> DEFINE S == Listed(list1) \cup Listed(list2)
           both == list1 \o list2
<1>1. list1 \in Seq(S) /\ list2 \in Seq(S)
  BY SeqMonotonic
<1> HIDE DEF S
<1>2. /\ both \in Seq(S)
      /\ Len(both) = Len(list1) + Len(list2)
      /\ \A i \in 1 .. Len(list1) + Len(list2) :
           both[i] = IF i <= Len(list1) THEN list1[i] ELSE list2[i - Len(list1)]
  BY <1>1, ConcatProperties
<1>3. /\ DOMAIN both = 1 .. Len(both) /\ Len(both) \in Nat
      /\ DOMAIN list1 = 1 .. Len(list1) /\ Len(list1) \in Nat
      /\ DOMAIN list2 = 1 .. Len(list2) /\ Len(list2) \in Nat
  BY <1>1, <1>2, LenProperties
<1>4. ASSUME NEW i \in DOMAIN both
      PROVE  both[i] \in Listed(list1) \cup Listed(list2)
  <2>1. CASE i <= Len(list1)
    BY <1>2, <1>3, <2>1 DEF Listed
  <2>2. CASE ~(i <= Len(list1))
    <3>1. i - Len(list1) \in DOMAIN list2
      BY <1>2, <1>3, <2>2
    <3> QED
      BY <1>2, <1>3, <2>2, <3>1 DEF Listed
  <2> QED
    BY <2>1, <2>2
<1>5. ASSUME NEW i \in DOMAIN list1
      PROVE  list1[i] \in Listed(both)
  <2>1. i \in DOMAIN both /\ both[i] = list1[i]
    BY <1>2, <1>3
  <2> QED
    BY <2>1 DEF Listed
<1>6. ASSUME NEW i \in DOMAIN list2
      PROVE  list2[i] \in Listed(both)
  <2>1. Len(list1) + i \in DOMAIN both /\ both[Len(list1) + i] = list2[i]
    BY <1>2, <1>3
  <2> QED
    BY <2>1 DEF Listed
<1> HIDE DEF both
<1>7. both \in [1 .. Len(both) -> Listed(both)]
  <2>1. both \in [1 .. Len(both) -> S]
    BY <1>2, LenProperties
  <2>2. \A i \in 1 .. Len(both) : both[i] \in Listed(both)
    BY <1>3 DEF Listed
  <2> QED
    BY <2>1, <2>2
<1>8. both \in Seq(Listed(both))
  BY <1>3, <1>7, SeqDef
<1>9. Listed(both) = Listed(list1) \cup Listed(list2)
  BY <1>4, <1>5, <1>6 DEF Listed
<1> QED
  BY <1>8, <1>9 DEF both

LEMMA BothSound ==
  ASSUME NEW list1, NEW list2, AllSound(list1), AllSound(list2)
  PROVE  AllSound(list1 \o list2)
  BY BothListed DEF AllSound

\* A service without a ready check that waits for nothing.
LEMMA PlainSound ==
  ASSUME NEW name, name \notin {"beacon", "builder-hub-postgres"}, NEW component \in Catalog,
         NEW ports, NEW refs
  PROVE  Sound(NewService(name, component, ports, refs))
  BY DEF NewService, Sound

\* One that has a ready check.
LEMMA ReadySound ==
  ASSUME NEW name \in {"beacon", "builder-hub-postgres"}, NEW component \in Catalog,
         NEW ports, NEW refs
  PROVE  Sound(WithReady(NewService(name, component, ports, refs)))
  BY DEF NewService, WithReady, Sound

\* One that waits for another.
LEMMA HealthySound ==
  ASSUME NEW name \in {"mev-boost", "mev-boost-relay", "builder-hub", "builder-hub-proxy",
                       "contender"},
         NEW component \in Catalog, NEW ports, NEW refs,
         NEW other, other # "el", Rank(other) < Rank(name)
  PROVE  LET s == DependsOnHealthy(NewService(name, component, ports, refs), other)
         IN  Sound(s) /\ s.name = name
  BY DEF DependsOnHealthy, NewService, Sound

LEMMA ContenderSound ==
  ASSUME NEW c
  PROVE  AllSound(RunContenderIfEnabled(c))
<1> DEFINE target == IF c.target = "" THEN "el" ELSE c.target
           refs == When(~c.rpcUrl, Connect(target, "http"))
           waits == DependsOnHealthy(NewService("contender", "contender", {}, refs), "beacon")
           both == DependsOnRunning(waits, "op-node")
<1>0. /\ Rank("op-node") < Rank("contender") /\ Rank("beacon") < Rank("contender")
      /\ "contender" \in Catalog
  BY DEF Rank, Catalog
<1> HIDE DEF refs
<1>1. Sound(waits)
  BY <1>0, HealthySound
<1>2. Sound(both)
  BY <1>0 DEF DependsOnHealthy, DependsOnRunning, NewService, Sound
<1>3. Sound(Contender("contender", c))
  BY <1>1, <1>2 DEF Contender, refs
<1> QED
  BY <1>3, OnlySound DEF RunContenderIfEnabled

LEMMA RethSound ==
  ASSUME NEW native
  PROVE  Sound(RethEL("el", native))
  BY DEF RethEL, NewService, Sound, Catalog, ReleaseServices

LEMMA MevBoostSound ==
  ASSUME NEW flags
  PROVE  AllSound(MevBoostServices(flags))
<1> DEFINE validation == When("use-reth-for-validation" \in flags, {"el"})
<1>1. /\ Rank("beacon") < Rank("mev-boost") /\ Rank("beacon") < Rank("mev-boost-relay")
      /\ "mev-boost-relay" \in Catalog /\ "mev-boost" \in Catalog
  BY DEF Rank, Catalog
<1> HIDE DEF validation
<1>2. /\ Sound(MevBoostRelay("mev-boost-relay", "beacon", validation))
      /\ Sound(MevBoostRelay("mev-boost", "beacon", validation))
  BY <1>1, HealthySound DEF MevBoostRelay
<1>3. Sound(MevBoost("mev-boost", {"mev-boost-relay"}))
  BY <1>1, PlainSound DEF MevBoost
<1>4. AllSound(<<MevBoostRelay("mev-boost-relay", "beacon", validation),
                 MevBoost("mev-boost", {"mev-boost-relay"})>>)
  BY <1>2, <1>3 DEF AllSound, Listed
<1>5. AllSound(<<MevBoostRelay("mev-boost", "beacon", validation)>>)
  BY <1>2, OneSound
<1> QED
  BY <1>4, <1>5 DEF MevBoostServices, validation

LEMMA L1Sound ==
  ASSUME NEW flags, NEW contender
  PROVE  AllSound(L1Recipe(flags, contender))
<1> DEFINE elService == IF "secondary-el" \in flags THEN "cl-proxy" ELSE "el"
           el == <<RethEL("el", "use-native-reth" \in flags)>>
           proxy == Only("secondary-el" \in flags, ClProxy("cl-proxy", "el"))
           node == <<LighthouseBeaconNode("beacon", elService, {"mev-boost"}),
                     LighthouseValidator("validator", "beacon")>>
<1>1. "cl-proxy" \in Catalog /\ "lighthouse-beacon-node" \in Catalog
      /\ "lighthouse-validator" \in Catalog
  BY DEF Catalog
<1>2. AllSound(el)
  BY RethSound, OneSound
<1>3. AllSound(proxy)
  <2>1. Sound(ClProxy("cl-proxy", "el"))
    BY <1>1, PlainSound DEF ClProxy
  <2> QED
    BY <2>1, OnlySound
<1>4. AllSound(node)
  <2>1. Sound(LighthouseBeaconNode("beacon", elService, {"mev-boost"}))
    BY <1>1, ReadySound DEF LighthouseBeaconNode
  <2>2. Sound(LighthouseValidator("validator", "beacon"))
    BY <1>1, PlainSound DEF LighthouseValidator
  <2> QED
    BY <2>1, <2>2 DEF AllSound, Listed
<1> HIDE DEF el, proxy, node
<1>5. AllSound(el \o proxy \o node \o MevBoostServices(flags) \o RunContenderIfEnabled(contender))
  BY <1>2, <1>3, <1>4, MevBoostSound, ContenderSound, BothSound
<1> QED
  BY <1>5 DEF L1Recipe, el, proxy, node

LEMMA BuilderNetSound ==
  ASSUME NEW flags, NEW contender
  PROVE  AllSound(BuilderNetRecipe(flags, contender))
<1> DEFINE hub == <<BuilderHubPostgres("builder-hub-postgres"),
                    BuilderHub("builder-hub", "builder-hub-postgres")>>
           proxy == Only("mock-proxy" \in flags,
                         BuilderHubMockProxy("builder-hub-proxy", "builder-hub"))
<1>1. /\ Rank("builder-hub-postgres") < Rank("builder-hub")
      /\ Rank("builder-hub") < Rank("builder-hub-proxy")
      /\ {"builder-hub-postgres", "builder-hub", "builder-hub-mock-proxy"} \subseteq Catalog
  BY DEF Rank, Catalog
<1>2. AllSound(hub)
  <2>1. Sound(BuilderHubPostgres("builder-hub-postgres"))
    BY <1>1, ReadySound DEF BuilderHubPostgres
  <2>2. Sound(BuilderHub("builder-hub", "builder-hub-postgres"))
    BY <1>1, HealthySound DEF BuilderHub
  <2> QED
    BY <2>1, <2>2 DEF AllSound, Listed
<1>3. AllSound(proxy)
  <2>1. Sound(BuilderHubMockProxy("builder-hub-proxy", "builder-hub"))
    BY <1>1, HealthySound DEF BuilderHubMockProxy
  <2> QED
    BY <2>1, OnlySound
<1> HIDE DEF hub, proxy
<1>4. AllSound(L1Recipe(flags, contender) \o hub \o proxy \o RunContenderIfEnabled(contender))
  BY <1>2, <1>3, L1Sound, ContenderSound, BothSound
<1> QED
  BY <1>4 DEF BuilderNetRecipe, hub, proxy

\* The components of the OP stack wait for nothing.
LEMMA OpComponentsSound ==
  ASSUME NEW x, NEW y, NEW z, NEW w
  PROVE  /\ Sound(OpGeth("op-geth"))
         /\ Sound(OpReth("op-reth"))
         /\ Sound(OpRbuilder("op-rbuilder", x))
         /\ Sound(BProxy("bproxy", x, y, z, w))
         /\ Sound(WebsocketProxy("websocket-proxy", x))
         /\ Sound(RollupBoost("rollup-boost", x, y, z, w))
         /\ Sound(FlashblocksRPC("flashblocks-rpc", x))
         /\ Sound(OpNode("op-node", x, y, z))
         /\ Sound(OpBatcher("op-batcher", x, y, z))
<1>1. {"op-geth", "op-reth", "op-rbuilder", "bproxy", "websocket-proxy", "rollup-boost",
       "flashblocks-rpc", "op-node", "op-batcher"} \subseteq Catalog
  BY DEF Catalog
<1>2. /\ Sound(OpGeth("op-geth"))
      /\ Sound(OpReth("op-reth"))
      /\ Sound(OpRbuilder("op-rbuilder", x))
  BY <1>1, PlainSound DEF OpGeth, OpReth, OpRbuilder
<1>3. /\ Sound(BProxy("bproxy", x, y, z, w))
      /\ Sound(WebsocketProxy("websocket-proxy", x))
      /\ Sound(RollupBoost("rollup-boost", x, y, z, w))
  BY <1>1, PlainSound DEF BProxy, WebsocketProxy, RollupBoost
<1>4. /\ Sound(FlashblocksRPC("flashblocks-rpc", x))
      /\ Sound(OpNode("op-node", x, y, z))
      /\ Sound(OpBatcher("op-batcher", x, y, z))
  BY <1>1, PlainSound DEF FlashblocksRPC, OpNode, OpBatcher
<1> QED
  BY <1>2, <1>3, <1>4

LEMMA OpSound ==
  ASSUME NEW flags, NEW externalBuilder, NEW contender
  PROVE  AllSound(OpRecipe(flags, externalBuilder, contender))
<1> DEFINE flashblocks == "flashblocks" \in flags
           proxied     == "enable-websocket-proxy" \in flags
           builder     == When(externalBuilder \in OwnBuilders, Connect(externalBuilder, "authrpc"))
           stream      == When(flashblocks /\ externalBuilder = "op-rbuilder",
                               Connect("op-rbuilder", "flashblocks"))
           boosted     == externalBuilder # ""
           l1          == <<RethEL("el", FALSE), LighthouseBeaconNode("beacon", "el", {}),
                            LighthouseValidator("validator", "beacon"), OpGeth("op-geth")>>
           own         == Builder(flags, externalBuilder)
           bproxy      == Only(flashblocks,
                               BProxy("bproxy", builder, {"flashblocks-rpc"}, TRUE, stream))
           wsProxy     == Only(proxied, WebsocketProxy("websocket-proxy", "rollup-boost"))
           boost       == Only(boosted,
                               RollupBoost("rollup-boost", "op-geth",
                                 IF flashblocks THEN Connect("bproxy", "authrpc") ELSE builder,
                                 flashblocks,
                                 IF flashblocks THEN Connect("bproxy", "flashblocks") ELSE stream))
           rpc         == Only(flashblocks,
                               FlashblocksRPC("flashblocks-rpc",
                                 IF proxied THEN "websocket-proxy" ELSE "rollup-boost"))
           rollup      == <<OpNode("op-node", "el", "beacon",
                                   IF boosted THEN "rollup-boost" ELSE "op-geth"),
                            OpBatcher("op-batcher", "el", "op-geth", "op-node")>>
           target      == IF contender.target = ""
                          THEN [contender EXCEPT !.target = "op-geth"] ELSE contender
<1>1. AllSound(l1)
  <2>1. "lighthouse-beacon-node" \in Catalog /\ "lighthouse-validator" \in Catalog
    BY DEF Catalog
  <2>2. Sound(LighthouseBeaconNode("beacon", "el", {}))
    BY <2>1, ReadySound DEF LighthouseBeaconNode
  <2>3. Sound(LighthouseValidator("validator", "beacon"))
    BY <2>1, PlainSound DEF LighthouseValidator
  <2>4. Sound(RethEL("el", FALSE)) /\ Sound(OpGeth("op-geth"))
    BY RethSound, OpComponentsSound
  <2>5. ASSUME NEW s1, Sound(s1), NEW s2, Sound(s2), NEW s3, Sound(s3), NEW s4, Sound(s4)
        PROVE  AllSound(<<s1, s2, s3, s4>>)
    BY <2>5 DEF AllSound, Listed
  <2> QED
    BY <2>2, <2>3, <2>4, <2>5
<1>2. AllSound(own)
  <2>1. /\ AllSound(Only(externalBuilder = "op-reth", OpReth("op-reth")))
        /\ AllSound(Only(externalBuilder = "op-rbuilder", OpRbuilder("op-rbuilder", flashblocks)))
    BY OpComponentsSound, OnlySound
  <2> QED
    BY <2>1, BothSound DEF Builder
<1>3. AllSound(bproxy) /\ AllSound(wsProxy) /\ AllSound(boost) /\ AllSound(rpc)
  <2> HIDE DEF builder, stream
  <2>1. AllSound(bproxy)
    BY OpComponentsSound, OnlySound
  <2>2. AllSound(wsProxy)
    BY OpComponentsSound, OnlySound
  <2>3. AllSound(boost)
    BY OpComponentsSound, OnlySound
  <2>4. AllSound(rpc)
    BY OpComponentsSound, OnlySound
  <2> QED
    BY <2>1, <2>2, <2>3, <2>4
<1>4. AllSound(rollup)
  <2> DEFINE node == OpNode("op-node", "el", "beacon",
                            IF boosted THEN "rollup-boost" ELSE "op-geth")
             batcher == OpBatcher("op-batcher", "el", "op-geth", "op-node")
  <2>1. Sound(node) /\ Sound(batcher)
    BY OpComponentsSound
  <2> HIDE DEF node, batcher
  <2>2. AllSound(<<node, batcher>>)
    BY <2>1 DEF AllSound, Listed
  <2> QED
    BY <2>2 DEF node, batcher
<1>5. AllSound(RunContenderIfEnabled(target))
  BY ContenderSound
<1> HIDE DEF l1, own, bproxy, wsProxy, boost, rpc, rollup, target
<1>6. AllSound(l1 \o own \o bproxy \o wsProxy \o boost \o rpc \o rollup
                 \o RunContenderIfEnabled(target))
  BY <1>1, <1>2, <1>3, <1>4, <1>5, BothSound
<1> QED
  BY <1>6 DEF OpRecipe, l1, own, bproxy, wsProxy, boost, rpc, rollup, target

\* Whatever the flags, every service a recipe builds is sound.
LEMMA RecipesSound ==
  ASSUME FromRecipes, NEW r \in Requests
  PROVE  \A i \in DOMAIN Apply(r) : Sound(Apply(r)[i])
<1>1. AllSound(ApplyRecipeOf(r))
  BY L1Sound, BuilderNetSound, OpSound DEF FromRecipes, ApplyRecipeOf
<1> QED
  BY <1>1 DEF FromRecipes, AllSound, Listed

ServicesSound == pc # "apply" => \A i \in DOMAIN services : Sound(services[i])

LEMMA SoundStep ==
  ASSUME FromRecipes, Inv, ServicesSound, [Next]_vars
  PROVE  ServicesSound'
<1>1. CASE ApplyRecipe
  BY <1>1, RecipesSound DEF ApplyRecipe, ServicesSound, Inv, Requested, FromRecipes
<1>2. CASE CreatePrometheusServices
  <2>1. Sound(Prometheus)
    BY DEF Prometheus, Sound, Catalog
  <2>2. services \in Seq(Service) /\ services' = Append(services, Prometheus) /\ pc = "prometheus"
    BY <1>2 DEF CreatePrometheusServices, Inv, TypeOK
  <2>3. /\ DOMAIN services' = DOMAIN services \cup {Len(services) + 1}
        /\ \A i \in DOMAIN services : services'[i] = services[i]
        /\ services'[Len(services) + 1] = Prometheus
    BY <2>2
  <2> QED
    BY <2>1, <2>2, <2>3 DEF ServicesSound
<1>3. CASE NewLocalRunner
  <2>1. services \in Seq(Service) /\ services' = WithImages /\ pc = "runner"
    BY <1>3 DEF NewLocalRunner, Inv, TypeOK
  <2>2. ASSUME NEW i \in DOMAIN services
        PROVE  Sound(services'[i])
    <3>1. services[i] \in Service /\ Sound(services[i])
      BY <2>1 DEF ServicesSound
    <3>2. Sound([services[i] EXCEPT !.image = "override"])
      BY <3>1 DEF Service, Sound
    <3> QED
      BY <2>1, <3>1, <3>2 DEF WithImages
  <2> QED
    BY <2>1, <2>2 DEF WithImages, ServicesSound
<1>4. CASE UNCHANGED services /\ (pc' # "apply" => pc # "apply")
  BY <1>4 DEF ServicesSound
<1>5. CASE UNCHANGED vars
  BY <1>4, <1>5 DEF vars
<1>6. CASE Validate \/ generateDockerCompose
  BY <1>4, <1>6 DEF Validate, generateDockerCompose
<1>7. CASE \/ ValidateFails \/ WithoutPrometheus \/ DryRun \/ OverrideUnknown \/ OverridesKnown
           \/ DownloadFails \/ NewLocalRunnerFails \/ ImageMissing
           \/ ComposeUp \/ ComposeRefuses \/ RunOnHost
  BY <1>4, <1>7
     DEF Goto, ValidateFails, WithoutPrometheus, DryRun, OverrideUnknown, OverridesKnown,
         DownloadFails, NewLocalRunnerFails, ImageMissing, ComposeUp, ComposeRefuses, RunOnHost
<1> QED
  BY <1>1, <1>2, <1>3, <1>5, <1>6, <1>7 DEF Next

LEMMA SoundAlways ==
  ASSUME FromRecipes
  PROVE  Spec => []ServicesSound
<1>1. Init => ServicesSound
  BY DEF Init, ServicesSound
<1> QED
  BY <1>1, SoundStep, Invariance, PTL DEF Spec

\* What is deployed under a name waits only for what is deployed, has a health check where
\* one is waited for, and nothing waits for itself through others.
LEMMA SoundAccepted ==
  ASSUME Inv, PlacementInv, ServicesSound, pc \in Deploying,
         \A c \in DOMAIN compose : \A d \in compose[c].depends :
           d.name \in DOMAIN overrides => overrides[d.name] # "user"
  PROVE  ComposeAccepts
<1>1. services \in Seq(Service) /\ Valid /\ Named = DOMAIN compose \cup DOMAIN overrides
  BY DEF Inv, TypeOK, StillValid, Decided, AllPlaced, Deploying
<1>2. ASSUME NEW c \in DOMAIN compose
      PROVE  \E i \in DOMAIN services : compose[c] = services[i] /\ services[i].name = c
  <2>1. c \in Named /\ compose[c] = services[LastNamed(c)]
    BY <1>1 DEF PlacementInv, ComposeWritten
  <2> QED
    BY <1>1, <2>1, LastNamedIs
<1>3. ASSUME NEW c \in DOMAIN compose, NEW d \in compose[c].depends
      PROVE  /\ d.name \in DOMAIN compose
             /\ d.condition = "healthy" => compose[d.name].ready
             /\ Rank(d.name) < Rank(c)
  <2>1. PICK i \in DOMAIN services : compose[c] = services[i] /\ services[i].name = c
    BY <1>2
  <2>2. Sound(services[i]) /\ Awaits(d)
    BY <1>1, <1>3, <2>1 DEF ServicesSound, Valid, Deploying
  <2>3. d.name # "el" /\ Rank(d.name) < Rank(c)
    BY <1>3, <2>1, <2>2 DEF Sound
  <2>4. PICK j \in DOMAIN services :
          services[j].name = d.name /\ (d.condition = "healthy" => services[j].ready)
    BY <2>2 DEF Awaits, GetService
  <2>5. d.name \notin DOMAIN overrides
    <3>1. ASSUME d.name \in DOMAIN overrides
          PROVE  FALSE
      <4>1. PICK k \in DOMAIN services : services[k].name = d.name /\ services[k].onHost
        BY <3>1 DEF PlacementInv, ReleasesNative
      <4> QED
        BY <2>3, <4>1 DEF ServicesSound, Sound, Deploying
    <3> QED
      BY <3>1
  <2>6. d.name \in DOMAIN compose
    BY <1>1, <2>4, <2>5 DEF Named
  <2>7. PICK k \in DOMAIN services : compose[d.name] = services[k] /\ services[k].name = d.name
    BY <1>2, <2>6
  <2>8. services[j].ready => services[k].ready
    BY <2>4, <2>7 DEF ServicesSound, Sound, Deploying
  <2> QED
    BY <2>3, <2>4, <2>6, <2>7, <2>8
<1>4. NoCycles
  <2> SUFFICES ASSUME NEW C \in (SUBSET Waiting) \ {{}}
               PROVE  \E c \in C : \A d \in compose[c].depends : d.name \notin C
    BY DEF NoCycles
  <2>1. C # {} /\ \A c : Rank(c) \in {0, 1, 2}
    BY DEF Rank
  <2>2. PICK c \in C : \A k \in C : Rank(c) <= Rank(k)
    BY <2>1
  <2>3. c \in DOMAIN compose
    BY DEF Waiting
  <2>4. ASSUME NEW d \in compose[c].depends, d.name \in C
        PROVE  FALSE
    BY <1>3, <2>1, <2>2, <2>3, <2>4
  <2> QED
    BY <2>4
<1> QED
  BY <1>3, <1>4 DEF ComposeAccepts

\* Whatever the flags of the three recipes and whatever is overridden, docker compose
\* starts what passed Validate unless the user took a service to the host that containers
\* wait for (components.go, recipe_*.go).
THEOREM RecipesStart ==
  ASSUME FromRecipes
  PROVE  Spec => []ComposeStarts
<1>1. Inv /\ PlacementInv /\ ServicesSound /\ ComposeStarts /\ [Next]_vars => ComposeStarts'
  <2> SUFFICES ASSUME Inv, PlacementInv, ServicesSound, ComposeStarts, [Next]_vars,
                      pc' = "refused"
               PROVE  ComposeStarts'
    BY DEF ComposeStarts
  <2>1. CASE ComposeRefuses
    <3>1. /\ pc = "up" /\ ~ComposeAccepts /\ UNCHANGED <<compose, overrides>>
      BY <2>1 DEF ComposeRefuses, Goto
    <3>2. ~\A c \in DOMAIN compose : \A d \in compose[c].depends :
             d.name \in DOMAIN overrides => overrides[d.name] # "user"
      BY <3>1, SoundAccepted DEF Deploying
    <3> QED
      BY <3>1, <3>2 DEF ComposeStarts
  <2>2. CASE UNCHANGED vars
    BY <2>2 DEF vars, ComposeStarts
  <2>3. ComposeRefuses \/ UNCHANGED vars
    BY DEF Next, Goto, ApplyRecipe, Validate, CreatePrometheusServices, NewLocalRunner,
           generateDockerCompose, ValidateFails, WithoutPrometheus, DryRun, OverrideUnknown,
           OverridesKnown, DownloadFails, NewLocalRunnerFails, ImageMissing, ComposeUp, RunOnHost
  <2> QED
    BY <2>1, <2>2, <2>3
<1>2. Init => ComposeStarts
  BY DEF Init, ComposeStarts
<1> QED
  BY <1>1, <1>2, SoundAlways, Placement, Invariance, PTL DEF Spec

\* The services of the recipes can be made out; NewLocalRunner fails only for an override
\* that is neither a file nor an image.
OverrideAtFault ==
  pc = "runner_failed" => \E n \in DOMAIN request.override : request.override[n] = "neither"

\* Every component of the three recipes is registered and every native one can be
\* downloaded: NewLocalRunner fails only for what the user gave (local_runner.go:137).
THEOREM OnlyOverridesFail ==
  ASSUME FromRecipes
  PROVE  Spec => []OverrideAtFault
<1>1. Inv /\ ServicesSound /\ OverrideAtFault /\ [Next]_vars => OverrideAtFault'
  <2> SUFFICES ASSUME Inv, ServicesSound, OverrideAtFault, [Next]_vars,
                      pc' = "runner_failed"
               PROVE  OverrideAtFault'
    BY DEF OverrideAtFault
  <2>1. CASE NewLocalRunnerFails
    <3>1. pc = "runner" /\ ~Fit /\ request' = request
      BY <2>1 DEF NewLocalRunnerFails, Goto
    <3>2. ComponentsFound /\ Released
      BY <3>1 DEF FromRecipes, ServicesSound, Sound, ComponentsFound, Released, Labelled
    <3>3. PICK n \in DOMAIN Merged : Merged[n] = "neither"
      BY <3>1, <3>2 DEF Fit
    <3>4. n \in DOMAIN request.override /\ request.override[n] = "neither"
      BY <3>3 DEF Merged
    <3> QED
      BY <3>1, <3>4 DEF OverrideAtFault
  <2>2. CASE UNCHANGED vars
    BY <2>2 DEF vars, OverrideAtFault
  <2>3. NewLocalRunnerFails \/ UNCHANGED vars
    BY DEF Next, Goto, ApplyRecipe, Validate, CreatePrometheusServices, NewLocalRunner,
           generateDockerCompose, ValidateFails, WithoutPrometheus, DryRun, OverrideUnknown,
           OverridesKnown, DownloadFails, ImageMissing, ComposeUp, ComposeRefuses, RunOnHost
  <2> QED
    BY <2>1, <2>2, <2>3
<1>2. Init => OverrideAtFault
  BY DEF Init, OverrideAtFault
<1> QED
  BY <1>1, <1>2, SoundAlways, Invariance, PTL DEF Spec

-----------------------------------------------------------------------------
(* Which flags Validate accepts.                                           *)

\* The ports of the services the recipes start, by name: the first of a name, which
\* Validate asks, has those that any service of the name has.
PortsOf(name, flashblocks) ==
  CASE name = "el"                   -> {"rpc", "http", "ws", "authrpc", "metrics"}
    [] name = "beacon"               -> {"p2p", "quic-p2p", "http"}
    [] name = "builder-hub-postgres" -> {"postgres"}
    [] name = "builder-hub"          -> {"http", "admin", "internal", "metrics"}
    [] name = "op-geth"              -> ExecutionPorts \cup {"ws"}
    [] name = "op-node"              -> {"http", "p2p", "metrics"}
    [] name = "op-rbuilder"          -> ExecutionPorts \cup FlashblocksPort(flashblocks)
    [] name = "rollup-boost"         -> {"authrpc"} \cup FlashblocksPort(flashblocks)
    [] name = "bproxy"               -> {"authrpc", "flashblocks"}
    [] name = "cl-proxy"             -> {"authrpc"}
    [] name = "websocket-proxy"      -> {"flashblocks"}
    [] name \in {"mev-boost", "mev-boost-relay", "builder-hub-proxy"} -> {"http"}
    [] name \in {"op-reth", "flashblocks-rpc"} -> ExecutionPorts
    [] name \in {"validator", "op-batcher", "contender"} -> {}

NamesIn(list) == {s.name : s \in Listed(list)}

RefsIn(list) == UNION {s.refs : s \in Listed(list)}

WaitsIn(list) == UNION {s.depends : s \in Listed(list)}

\* A list of services that have the ports of their names.
Regular(list, flashblocks) ==
  /\ list \in Seq(Listed(list))
  /\ \A s \in Listed(list) : s.ports = PortsOf(s.name, flashblocks)

\* What is referred to is there, and what is waited for.
Resolved(list, flashblocks) ==
  \A r \in RefsIn(list) :
    r.service \in NamesIn(list) /\ r.label \in PortsOf(r.service, flashblocks)

Awaited(list) ==
  \A d \in WaitsIn(list) :
    /\ d.name \in NamesIn(list)
    /\ d.condition = "healthy" => d.name \in {"beacon", "builder-hub-postgres"}

LEMMA ValidByName ==
  ASSUME services \in Seq(Service), NEW flashblocks,
         Regular(services, flashblocks), AllSound(services)
  PROVE  Valid <=> Resolved(services, flashblocks) /\ Awaited(services)
<1>1. NamesIn(services) = Named
  BY DEF NamesIn, Named, Listed
<1>2. \A i \in DOMAIN services :
        /\ services[i].ports = PortsOf(services[i].name, flashblocks)
        /\ services[i].ready <=> services[i].name \in {"beacon", "builder-hub-postgres"}
  BY DEF Regular, AllSound, Listed, Sound
<1>3. ASSUME NEW r
      PROVE  Resolves(r) <=> r.service \in Named /\ r.label \in PortsOf(r.service, flashblocks)
  <2>1. ASSUME Resolves(r)
        PROVE  r.service \in Named /\ r.label \in PortsOf(r.service, flashblocks)
    BY <1>2, <2>1 DEF Resolves, GetService, Named
  <2>2. ASSUME r.service \in Named, r.label \in PortsOf(r.service, flashblocks)
        PROVE  Resolves(r)
    <3>1. PICK i \in DOMAIN services : GetService(r.service, i)
      BY <2>2, FirstNamed
    <3> QED
      BY <1>2, <2>2, <3>1 DEF Resolves, GetService
  <2> QED
    BY <2>1, <2>2
<1>4. ASSUME NEW d
      PROVE  Awaits(d) <=> /\ d.name \in Named
                           /\ d.condition = "healthy" =>
                                d.name \in {"beacon", "builder-hub-postgres"}
  <2>1. ASSUME Awaits(d)
        PROVE  /\ d.name \in Named
               /\ d.condition = "healthy" => d.name \in {"beacon", "builder-hub-postgres"}
    BY <1>2, <2>1 DEF Awaits, GetService, Named
  <2>2. ASSUME d.name \in Named,
               d.condition = "healthy" => d.name \in {"beacon", "builder-hub-postgres"}
        PROVE  Awaits(d)
    <3>1. PICK i \in DOMAIN services : GetService(d.name, i)
      BY <2>2, FirstNamed
    <3> QED
      BY <1>2, <2>2, <3>1 DEF Awaits, GetService
  <2> QED
    BY <2>1, <2>2
<1>5. Valid <=> /\ \A i \in DOMAIN services : \A r \in services[i].refs : Resolves(r)
                /\ \A i \in DOMAIN services : \A d \in services[i].depends : Awaits(d)
  BY DEF Valid
<1>6. (\A i \in DOMAIN services : \A r \in services[i].refs : Resolves(r)) <=>
      (\A r \in RefsIn(services) : Resolves(r))
  BY DEF RefsIn, Listed
<1>7. (\A i \in DOMAIN services : \A d \in services[i].depends : Awaits(d)) <=>
      (\A d \in WaitsIn(services) : Awaits(d))
  BY DEF WaitsIn, Listed
<1> QED
  BY <1>1, <1>3, <1>4, <1>5, <1>6, <1>7 DEF Resolved, Awaited

-----------------------------------------------------------------------------
(* The lists recipes are put together from.                                *)

LEMMA OneRegular ==
  ASSUME NEW s, NEW flashblocks, s.ports = PortsOf(s.name, flashblocks)
  PROVE  /\ Regular(<<s>>, flashblocks)
         /\ NamesIn(<<s>>) = {s.name}
         /\ RefsIn(<<s>>) = s.refs
         /\ WaitsIn(<<s>>) = s.depends
<1>1. Listed(<<s>>) = {s} /\ <<s>> \in Seq({s})
  BY DEF Listed
<1> QED
  BY <1>1 DEF Regular, NamesIn, RefsIn, WaitsIn

LEMMA OnlyRegular ==
  ASSUME NEW given, NEW s, NEW flashblocks, given => s.ports = PortsOf(s.name, flashblocks)
  PROVE  /\ Regular(Only(given, s), flashblocks)
         /\ NamesIn(Only(given, s)) = When(given, {s.name})
         /\ RefsIn(Only(given, s)) = When(given, s.refs)
         /\ WaitsIn(Only(given, s)) = When(given, s.depends)
<1>1. CASE given
  BY <1>1, OneRegular DEF Only, When
<1>2. CASE ~given
  <2>1. Listed(<<>>) = {} /\ <<>> \in Seq({})
    BY DEF Listed
  <2> QED
    BY <1>2, <2>1 DEF Only, When, Regular, NamesIn, RefsIn, WaitsIn
<1> QED
  BY <1>1, <1>2

LEMMA BothRegular ==
  ASSUME NEW list1, NEW list2, NEW flashblocks,
         Regular(list1, flashblocks), Regular(list2, flashblocks)
  PROVE  /\ Regular(list1 \o list2, flashblocks)
         /\ NamesIn(list1 \o list2) = NamesIn(list1) \cup NamesIn(list2)
         /\ RefsIn(list1 \o list2) = RefsIn(list1) \cup RefsIn(list2)
         /\ WaitsIn(list1 \o list2) = WaitsIn(list1) \cup WaitsIn(list2)
<1> DEFINE list == list1 \o list2
<1>1. list \in Seq(Listed(list)) /\ Listed(list) = Listed(list1) \cup Listed(list2)
  BY BothListed DEF Regular
<1> HIDE DEF list
<1>2. Regular(list, flashblocks)
  BY <1>1 DEF Regular
<1>3. NamesIn(list) = NamesIn(list1) \cup NamesIn(list2)
  BY <1>1 DEF NamesIn
<1>4. RefsIn(list) = RefsIn(list1) \cup RefsIn(list2)
  BY <1>1 DEF RefsIn
<1>5. WaitsIn(list) = WaitsIn(list1) \cup WaitsIn(list2)
  BY <1>1 DEF WaitsIn
<1> QED
  BY <1>2, <1>3, <1>4, <1>5 DEF list

LEMMA PairRegular ==
  ASSUME NEW s, NEW t, NEW flashblocks,
         s.ports = PortsOf(s.name, flashblocks), t.ports = PortsOf(t.name, flashblocks)
  PROVE  /\ Regular(<<s, t>>, flashblocks)
         /\ NamesIn(<<s, t>>) = {s.name, t.name}
         /\ RefsIn(<<s, t>>) = s.refs \cup t.refs
         /\ WaitsIn(<<s, t>>) = s.depends \cup t.depends
<1>1. Listed(<<s, t>>) = {s, t} /\ <<s, t>> \in Seq({s, t})
  BY DEF Listed
<1> QED
  BY <1>1 DEF Regular, NamesIn, RefsIn, WaitsIn

\* Contender finds its target, and op-node if it waits for it.
Suits(c, names, flashblocks) ==
  LET target == IF c.target = "" THEN "el" ELSE c.target IN
  c.enabled =>
    /\ ~c.rpcUrl => target \in names /\ "http" \in PortsOf(target, flashblocks)
    /\ c.target = "op-geth" => "op-node" \in names

LEMMA ContenderRegular ==
  ASSUME NEW c, NEW flashblocks
  PROVE  LET list == RunContenderIfEnabled(c)
             target == IF c.target = "" THEN "el" ELSE c.target
         IN  /\ Regular(list, flashblocks)
             /\ NamesIn(list) = When(c.enabled, {"contender"})
             /\ RefsIn(list) = When(c.enabled, When(~c.rpcUrl, Connect(target, "http")))
             /\ WaitsIn(list) =
                  When(c.enabled, {[name |-> "beacon", condition |-> "healthy"]} \cup
                    When(c.target = "op-geth", {[name |-> "op-node", condition |-> "running"]}))
<1> DEFINE s == Contender("contender", c)
           target == IF c.target = "" THEN "el" ELSE c.target
<1>1. s.name = "contender" /\ s.ports = {}
  BY DEF Contender, DependsOnHealthy, DependsOnRunning, NewService
<1>2. s.refs = When(~c.rpcUrl, Connect(target, "http"))
  BY DEF Contender, DependsOnHealthy, DependsOnRunning, NewService
<1>3. s.depends = {[name |-> "beacon", condition |-> "healthy"]} \cup
                  When(c.target = "op-geth", {[name |-> "op-node", condition |-> "running"]})
  BY DEF Contender, DependsOnHealthy, DependsOnRunning, NewService, When
<1>4. s.ports = PortsOf(s.name, flashblocks)
  BY <1>1 DEF PortsOf
<1>5. RunContenderIfEnabled(c) = Only(c.enabled, s)
  BY DEF RunContenderIfEnabled
<1> DEFINE list == Only(c.enabled, s)
<1> HIDE DEF s
<1>6. /\ Regular(list, flashblocks)
      /\ NamesIn(list) = When(c.enabled, {s.name})
      /\ RefsIn(list) = When(c.enabled, s.refs)
      /\ WaitsIn(list) = When(c.enabled, s.depends)
  BY <1>4, OnlyRegular
<1> QED
  BY <1>1, <1>2, <1>3, <1>5, <1>6

\* Whether contender fits decides, if the others do.
LEMMA WithContender ==
  ASSUME NEW base, NEW flashblocks, NEW c,
         Regular(base, flashblocks), Resolved(base, flashblocks), Awaited(base),
         "beacon" \in NamesIn(base)
  PROVE  LET list == base \o RunContenderIfEnabled(c)
         IN  Resolved(list, flashblocks) /\ Awaited(list) <=>
               Suits(c, NamesIn(base), flashblocks)
<1> DEFINE list == base \o RunContenderIfEnabled(c)
           target == IF c.target = "" THEN "el" ELSE c.target
           ref == [service |-> target, label |-> "http"]
           beacon == [name |-> "beacon", condition |-> "healthy"]
           opNode == [name |-> "op-node", condition |-> "running"]
<1>1. /\ NamesIn(list) = NamesIn(base) \cup When(c.enabled, {"contender"})
      /\ RefsIn(list) = RefsIn(base) \cup When(c.enabled, When(~c.rpcUrl, {ref}))
      /\ WaitsIn(list) =
           WaitsIn(base) \cup
           When(c.enabled, {beacon} \cup When(c.target = "op-geth", {opNode}))
  <2> DEFINE last == RunContenderIfEnabled(c)
  <2>1. /\ Regular(last, flashblocks)
        /\ NamesIn(last) = When(c.enabled, {"contender"})
        /\ RefsIn(last) = When(c.enabled, When(~c.rpcUrl, Connect(target, "http")))
        /\ WaitsIn(last) = When(c.enabled, {beacon} \cup When(c.target = "op-geth", {opNode}))
    BY ContenderRegular
  <2>2. Connect(target, "http") = {ref}
    BY DEF Connect, ConnectAll
  <2> HIDE DEF last, target, ref, beacon, opNode
  <2>3. /\ NamesIn(base \o last) = NamesIn(base) \cup NamesIn(last)
        /\ RefsIn(base \o last) = RefsIn(base) \cup RefsIn(last)
        /\ WaitsIn(base \o last) = WaitsIn(base) \cup WaitsIn(last)
    BY <2>1, BothRegular
  <2> QED
    BY <2>1, <2>2, <2>3 DEF last
<1>2. "http" \notin PortsOf("contender", flashblocks)
  BY DEF PortsOf
<1> HIDE DEF list
<1>3. Resolved(list, flashblocks) <=>
        (c.enabled /\ ~c.rpcUrl =>
           target \in NamesIn(base) /\ "http" \in PortsOf(target, flashblocks))
  <2>1. Resolved(list, flashblocks) <=>
          \A r \in When(c.enabled, When(~c.rpcUrl, {ref})) :
            r.service \in NamesIn(list) /\ r.label \in PortsOf(r.service, flashblocks)
    BY <1>1 DEF Resolved
  <2>2. ref.service = target /\ ref.label = "http"
    OBVIOUS
  <2> HIDE DEF ref, target
  <2>3. CASE c.enabled /\ ~c.rpcUrl
    BY <1>1, <1>2, <2>1, <2>2, <2>3 DEF When
  <2>4. CASE ~(c.enabled /\ ~c.rpcUrl)
    BY <2>1, <2>4 DEF When
  <2> QED
    BY <2>3, <2>4
<1>4. Awaited(list) <=> (c.enabled /\ c.target = "op-geth" => "op-node" \in NamesIn(base))
  <2>1. Awaited(list) <=>
          \A d \in When(c.enabled, {beacon} \cup When(c.target = "op-geth", {opNode})) :
            /\ d.name \in NamesIn(list)
            /\ d.condition = "healthy" => d.name \in {"beacon", "builder-hub-postgres"}
    BY <1>1 DEF Awaited
  <2>2. /\ beacon.name = "beacon"
        /\ opNode.name = "op-node" /\ opNode.condition = "running"
    OBVIOUS
  <2> HIDE DEF beacon, opNode
  <2>3. CASE c.enabled
    BY <1>1, <2>1, <2>2, <2>3 DEF When
  <2>4. CASE ~c.enabled
    BY <2>1, <2>4 DEF When
  <2> QED
    BY <2>3, <2>4
<1> QED
  BY <1>3, <1>4 DEF Suits, list

-----------------------------------------------------------------------------
(* The recipes without contender.                                          *)

L1Base(flags) ==
  <<RethEL("el", "use-native-reth" \in flags)>> \o
  Only("secondary-el" \in flags, ClProxy("cl-proxy", "el")) \o
  <<LighthouseBeaconNode("beacon",
      IF "secondary-el" \in flags THEN "cl-proxy" ELSE "el", {"mev-boost"}),
    LighthouseValidator("validator", "beacon")>> \o
  MevBoostServices(flags)

L1Names(flags) ==
  {"el", "beacon", "validator", "mev-boost"} \cup
  When("secondary-el" \in flags, {"cl-proxy"}) \cup
  When("use-separate-mev-boost" \in flags, {"mev-boost-relay"})

LEMMA MevBoostRegular ==
  ASSUME NEW flags
  PROVE  LET list == MevBoostServices(flags)
         IN  /\ Regular(list, FALSE)
             /\ NamesIn(list) =
                  {"mev-boost"} \cup When("use-separate-mev-boost" \in flags, {"mev-boost-relay"})
             /\ \A r \in RefsIn(list) :
                  /\ r.label = "http"
                  /\ r.service \in {"el", "beacon"} \/ r.service \in NamesIn(list)
             /\ \A d \in WaitsIn(list) : d.name = "beacon"
<1> DEFINE validation == When("use-reth-for-validation" \in flags, {"el"})
           relay == MevBoostRelay("mev-boost-relay", "beacon", validation)
           boost == MevBoost("mev-boost", {"mev-boost-relay"})
           both == MevBoostRelay("mev-boost", "beacon", validation)
<1>1. validation \subseteq {"el"}
  BY DEF When
<1> HIDE DEF validation
<1>2. /\ relay.name = "mev-boost-relay" /\ relay.ports = {"http"}
      /\ relay.refs = Connect("beacon", "http") \cup ConnectAll(validation, "http")
      /\ relay.depends = {[name |-> "beacon", condition |-> "healthy"]}
  BY DEF MevBoostRelay, DependsOnHealthy, NewService
<1>10. /\ both.name = "mev-boost" /\ both.ports = {"http"}
       /\ both.refs = Connect("beacon", "http") \cup ConnectAll(validation, "http")
       /\ both.depends = {[name |-> "beacon", condition |-> "healthy"]}
  BY DEF MevBoostRelay, DependsOnHealthy, NewService
<1>3. boost.name = "mev-boost" /\ boost.ports = {"http"} /\ boost.depends = {}
      /\ boost.refs = Connect("mev-boost-relay", "http")
  BY DEF MevBoost, NewService, Connect
<1> HIDE DEF relay, boost, both
<1>4. relay.refs = both.refs
      /\ \A r \in relay.refs : r.label = "http" /\ r.service \in {"el", "beacon"}
  BY <1>1, <1>2, <1>10 DEF Connect, ConnectAll
<1>5. \A r \in boost.refs : r.label = "http" /\ r.service = "mev-boost-relay"
  BY <1>3 DEF Connect, ConnectAll
<1>6. /\ PortsOf("mev-boost", FALSE) = {"http"}
      /\ PortsOf("mev-boost-relay", FALSE) = {"http"}
  BY DEF PortsOf
<1>7. CASE "use-separate-mev-boost" \in flags
  <2>1. MevBoostServices(flags) = <<relay, boost>>
    BY <1>7 DEF MevBoostServices, relay, boost, validation
  <2>2. /\ Regular(<<relay, boost>>, FALSE)
        /\ NamesIn(<<relay, boost>>) = {"mev-boost-relay", "mev-boost"}
        /\ RefsIn(<<relay, boost>>) = relay.refs \cup boost.refs
        /\ WaitsIn(<<relay, boost>>) = relay.depends \cup boost.depends
    <3>1. relay.ports = PortsOf(relay.name, FALSE) /\ boost.ports = PortsOf(boost.name, FALSE)
      BY <1>2, <1>3, <1>6
    <3>2. relay.name = "mev-boost-relay" /\ boost.name = "mev-boost"
      BY <1>2, <1>3
    <3> QED
      BY <3>1, <3>2, PairRegular
  <2>3. \A d \in relay.depends \cup boost.depends : d.name = "beacon"
    BY <1>2, <1>3
  <2> QED
    BY <1>4, <1>5, <1>7, <2>1, <2>2, <2>3 DEF When
<1>8. CASE "use-separate-mev-boost" \notin flags
  <2>1. MevBoostServices(flags) = <<both>>
    BY <1>8 DEF MevBoostServices, both, validation
  <2>2. /\ Regular(<<both>>, FALSE)
        /\ NamesIn(<<both>>) = {"mev-boost"}
        /\ RefsIn(<<both>>) = both.refs
        /\ WaitsIn(<<both>>) = both.depends
    BY <1>6, <1>10, OneRegular
  <2>3. \A d \in both.depends : d.name = "beacon"
    BY <1>10
  <2> QED
    BY <1>4, <1>8, <2>1, <2>2, <2>3 DEF When
<1> QED
  BY <1>7, <1>8

LEMMA L1BaseFits ==
  ASSUME NEW flags
  PROVE  /\ Regular(L1Base(flags), FALSE)
         /\ NamesIn(L1Base(flags)) = L1Names(flags)
         /\ Resolved(L1Base(flags), FALSE)
         /\ Awaited(L1Base(flags))
<1> DEFINE given == "secondary-el" \in flags
           elService == IF given THEN "cl-proxy" ELSE "el"
           el == RethEL("el", "use-native-reth" \in flags)
           proxy == ClProxy("cl-proxy", "el")
           beacon == LighthouseBeaconNode("beacon", elService, {"mev-boost"})
           validator == LighthouseValidator("validator", "beacon")
           list1 == <<el>>
           list2 == Only(given, proxy)
           list3 == <<beacon, validator>>
           list4 == MevBoostServices(flags)
<1>1. /\ el.name = "el" /\ el.refs = {} /\ el.depends = {}
      /\ el.ports = PortsOf("el", FALSE)
  BY DEF RethEL, NewService, PortsOf
<1>2. /\ proxy.name = "cl-proxy" /\ proxy.refs = Connect("el", "authrpc") /\ proxy.depends = {}
      /\ proxy.ports = PortsOf("cl-proxy", FALSE)
  BY DEF ClProxy, NewService, PortsOf
<1>3. /\ beacon.name = "beacon" /\ beacon.depends = {}
      /\ beacon.refs = Connect(elService, "authrpc") \cup Connect("mev-boost", "http")
      /\ beacon.ports = PortsOf("beacon", FALSE)
  <2>2. PortsOf("beacon", FALSE) = {"p2p", "quic-p2p", "http"}
    BY DEF PortsOf
  <2> HIDE DEF elService
  <2> QED
    BY <2>2 DEF LighthouseBeaconNode, WithReady, NewService, Connect
<1>4. /\ validator.name = "validator" /\ validator.depends = {}
      /\ validator.refs = Connect("beacon", "http")
      /\ validator.ports = PortsOf("validator", FALSE)
  BY DEF LighthouseValidator, NewService, PortsOf
<1> HIDE DEF el, proxy, beacon, validator
<1>5. /\ Regular(list1, FALSE) /\ NamesIn(list1) = {"el"}
      /\ RefsIn(list1) = {} /\ WaitsIn(list1) = {}
  BY <1>1, OneRegular
<1>6. /\ Regular(list2, FALSE) /\ NamesIn(list2) = When(given, {"cl-proxy"})
      /\ RefsIn(list2) = When(given, Connect("el", "authrpc")) /\ WaitsIn(list2) = {}
  BY <1>2, OnlyRegular DEF When
<1>7. /\ Regular(list3, FALSE) /\ NamesIn(list3) = {"beacon", "validator"}
      /\ RefsIn(list3) = Connect(elService, "authrpc") \cup Connect("mev-boost", "http")
                           \cup Connect("beacon", "http")
      /\ WaitsIn(list3) = {}
  <2>1. /\ Regular(list3, FALSE) /\ NamesIn(list3) = {beacon.name, validator.name}
        /\ RefsIn(list3) = beacon.refs \cup validator.refs
        /\ WaitsIn(list3) = beacon.depends \cup validator.depends
    <3>1. /\ beacon.ports = PortsOf(beacon.name, FALSE)
          /\ validator.ports = PortsOf(validator.name, FALSE)
      BY <1>3, <1>4
    <3> QED
      BY <3>1, PairRegular
  <2> QED
    BY <1>3, <1>4, <2>1
<1>8. /\ Regular(list4, FALSE)
      /\ NamesIn(list4) =
           {"mev-boost"} \cup When("use-separate-mev-boost" \in flags, {"mev-boost-relay"})
      /\ \A r \in RefsIn(list4) :
           /\ r.label = "http"
           /\ r.service \in {"el", "beacon"} \/ r.service \in NamesIn(list4)
      /\ \A d \in WaitsIn(list4) : d.name = "beacon"
  BY MevBoostRegular
<1>9. L1Base(flags) = list1 \o list2 \o list3 \o list4
  BY DEF L1Base, el, proxy, beacon, validator
<1> DEFINE all == list1 \o list2 \o list3 \o list4
<1> HIDE DEF list1, list2, list3, list4
<1>10. /\ Regular(all, FALSE)
       /\ NamesIn(all) = NamesIn(list1) \cup NamesIn(list2) \cup NamesIn(list3) \cup NamesIn(list4)
       /\ RefsIn(all) = RefsIn(list1) \cup RefsIn(list2) \cup RefsIn(list3) \cup RefsIn(list4)
       /\ WaitsIn(all) = WaitsIn(list1) \cup WaitsIn(list2) \cup WaitsIn(list3) \cup WaitsIn(list4)
  <2> DEFINE ab == list1 \o list2
             abc == ab \o list3
  <2>1. /\ Regular(ab, FALSE)
        /\ NamesIn(ab) = NamesIn(list1) \cup NamesIn(list2)
        /\ RefsIn(ab) = RefsIn(list1) \cup RefsIn(list2)
        /\ WaitsIn(ab) = WaitsIn(list1) \cup WaitsIn(list2)
    BY <1>5, <1>6, BothRegular
  <2> HIDE DEF ab
  <2>2. /\ Regular(abc, FALSE)
        /\ NamesIn(abc) = NamesIn(ab) \cup NamesIn(list3)
        /\ RefsIn(abc) = RefsIn(ab) \cup RefsIn(list3)
        /\ WaitsIn(abc) = WaitsIn(ab) \cup WaitsIn(list3)
    BY <1>7, <2>1, BothRegular
  <2> HIDE DEF abc
  <2>3. /\ Regular(abc \o list4, FALSE)
        /\ NamesIn(abc \o list4) = NamesIn(abc) \cup NamesIn(list4)
        /\ RefsIn(abc \o list4) = RefsIn(abc) \cup RefsIn(list4)
        /\ WaitsIn(abc \o list4) = WaitsIn(abc) \cup WaitsIn(list4)
    BY <1>8, <2>2, BothRegular
  <2> QED
    BY <2>1, <2>2, <2>3 DEF abc, ab
<1> HIDE DEF all
<1>11. NamesIn(all) = L1Names(flags)
  BY <1>5, <1>6, <1>7, <1>8, <1>10 DEF L1Names
<1>12. /\ "authrpc" \in PortsOf("el", FALSE) /\ "authrpc" \in PortsOf("cl-proxy", FALSE)
       /\ \A name \in {"el", "beacon", "mev-boost", "mev-boost-relay"} :
            "http" \in PortsOf(name, FALSE)
  BY DEF PortsOf
<1>13. Resolved(all, FALSE)
  <2> SUFFICES ASSUME NEW r \in RefsIn(all)
               PROVE  r.service \in L1Names(flags) /\ r.label \in PortsOf(r.service, FALSE)
    BY <1>11 DEF Resolved
  <2>1. CASE r \in RefsIn(list2) \cup RefsIn(list3)
    <3>1. \/ r.service = "el" /\ r.label = "authrpc"
          \/ r.service = "cl-proxy" /\ r.label = "authrpc" /\ given
          \/ r.service \in {"mev-boost", "beacon"} /\ r.label = "http"
      BY <1>6, <1>7, <2>1 DEF Connect, ConnectAll, When
    <3>2. {"el", "beacon", "mev-boost"} \subseteq L1Names(flags)
      BY DEF L1Names
    <3>3. given => "cl-proxy" \in L1Names(flags)
      BY DEF L1Names, When
    <3> QED
      BY <1>12, <3>1, <3>2, <3>3
  <2>2. CASE r \in RefsIn(list4)
    <3>1. r.label = "http" /\ r.service \in {"el", "beacon", "mev-boost", "mev-boost-relay"}
      BY <1>8, <2>2 DEF When
    <3>2. r.service \in L1Names(flags)
      BY <1>8, <2>2 DEF L1Names
    <3> QED
      BY <1>12, <3>1, <3>2
  <2> QED
    BY <1>5, <1>10, <2>1, <2>2
<1>14. Awaited(all)
  BY <1>5, <1>6, <1>7, <1>8, <1>10, <1>11 DEF Awaited, L1Names
<1> QED
  BY <1>9, <1>10, <1>11, <1>13, <1>14 DEF all

\* Contender is added twice; the second time adds nothing Validate sees.
LEMMA BuilderNetFits ==
  ASSUME NEW flags, NEW c
  PROVE  LET list == BuilderNetRecipe(flags, c)
         IN  /\ Regular(list, FALSE)
             /\ Resolved(list, FALSE) /\ Awaited(list) <=>
                  /\ "mock-proxy" \notin flags
                  /\ Suits(c, L1Names(flags) \cup {"builder-hub", "builder-hub-postgres"}, FALSE)
<1> DEFINE given == "mock-proxy" \in flags
           postgres == BuilderHubPostgres("builder-hub-postgres")
           builderHub == BuilderHub("builder-hub", "builder-hub-postgres")
           mock == BuilderHubMockProxy("builder-hub-proxy", "builder-hub")
           l1 == L1Base(flags)
           spam == RunContenderIfEnabled(c)
           hub == <<postgres, builderHub>>
           proxy == Only(given, mock)
           wait(name) == [name |-> name, condition |-> "healthy"]
<1>1. /\ postgres.name = "builder-hub-postgres" /\ postgres.refs = {} /\ postgres.depends = {}
      /\ postgres.ports = PortsOf("builder-hub-postgres", FALSE)
  BY DEF BuilderHubPostgres, WithReady, NewService, PortsOf
<1>2. /\ builderHub.name = "builder-hub"
      /\ builderHub.refs = Connect("builder-hub-postgres", "postgres")
      /\ builderHub.depends = {wait("builder-hub-postgres")}
      /\ builderHub.ports = PortsOf("builder-hub", FALSE)
  BY DEF BuilderHub, DependsOnHealthy, NewService, PortsOf
<1>3. /\ mock.name = "builder-hub-proxy" /\ mock.refs = {}
      /\ mock.depends = {wait("builder-hub")}
      /\ mock.ports = PortsOf("builder-hub-proxy", FALSE)
  BY DEF BuilderHubMockProxy, DependsOnHealthy, NewService, PortsOf
<1> HIDE DEF postgres, builderHub, mock
<1>4. /\ Regular(hub, FALSE) /\ NamesIn(hub) = {"builder-hub-postgres", "builder-hub"}
      /\ RefsIn(hub) = Connect("builder-hub-postgres", "postgres")
      /\ WaitsIn(hub) = {wait("builder-hub-postgres")}
  <2>1. /\ Regular(hub, FALSE) /\ NamesIn(hub) = {postgres.name, builderHub.name}
        /\ RefsIn(hub) = postgres.refs \cup builderHub.refs
        /\ WaitsIn(hub) = postgres.depends \cup builderHub.depends
    <3>1. /\ postgres.ports = PortsOf(postgres.name, FALSE)
          /\ builderHub.ports = PortsOf(builderHub.name, FALSE)
      BY <1>1, <1>2
    <3> QED
      BY <3>1, PairRegular
  <2> QED
    BY <1>1, <1>2, <2>1
<1>5. /\ Regular(proxy, FALSE) /\ NamesIn(proxy) = When(given, {"builder-hub-proxy"})
      /\ RefsIn(proxy) = {} /\ WaitsIn(proxy) = When(given, {wait("builder-hub")})
  BY <1>3, OnlyRegular DEF When
<1>6. /\ Regular(l1, FALSE) /\ NamesIn(l1) = L1Names(flags)
      /\ Resolved(l1, FALSE) /\ Awaited(l1)
  BY L1BaseFits
<1>7. Regular(spam, FALSE)
  BY ContenderRegular
<1>8. BuilderNetRecipe(flags, c) = l1 \o spam \o hub \o proxy \o spam
  BY DEF BuilderNetRecipe, L1Recipe, L1Base, hub, proxy, postgres, builderHub, mock
<1> DEFINE base == l1 \o hub \o proxy
           list1 == l1 \o spam
           list2 == list1 \o hub
           list3 == list2 \o proxy
<1> HIDE DEF l1, spam, hub, proxy
<1>9. /\ Regular(base, FALSE)
      /\ NamesIn(base) = NamesIn(l1) \cup NamesIn(hub) \cup NamesIn(proxy)
      /\ RefsIn(base) = RefsIn(l1) \cup RefsIn(hub) \cup RefsIn(proxy)
      /\ WaitsIn(base) = WaitsIn(l1) \cup WaitsIn(hub) \cup WaitsIn(proxy)
  <2> DEFINE first == l1 \o hub
  <2>1. /\ Regular(first, FALSE)
        /\ NamesIn(first) = NamesIn(l1) \cup NamesIn(hub)
        /\ RefsIn(first) = RefsIn(l1) \cup RefsIn(hub)
        /\ WaitsIn(first) = WaitsIn(l1) \cup WaitsIn(hub)
    BY <1>4, <1>6, BothRegular
  <2> HIDE DEF first
  <2>2. /\ Regular(first \o proxy, FALSE)
        /\ NamesIn(first \o proxy) = NamesIn(first) \cup NamesIn(proxy)
        /\ RefsIn(first \o proxy) = RefsIn(first) \cup RefsIn(proxy)
        /\ WaitsIn(first \o proxy) = WaitsIn(first) \cup WaitsIn(proxy)
    BY <1>5, <2>1, BothRegular
  <2> QED
    BY <2>1, <2>2 DEF first
<1> HIDE DEF base
<1>10. /\ Regular(base \o spam, FALSE)
       /\ NamesIn(base \o spam) = NamesIn(base) \cup NamesIn(spam)
       /\ RefsIn(base \o spam) = RefsIn(base) \cup RefsIn(spam)
       /\ WaitsIn(base \o spam) = WaitsIn(base) \cup WaitsIn(spam)
  BY <1>7, <1>9, BothRegular
<1>11. /\ Regular(list1, FALSE)
       /\ NamesIn(list1) = NamesIn(l1) \cup NamesIn(spam)
       /\ RefsIn(list1) = RefsIn(l1) \cup RefsIn(spam)
       /\ WaitsIn(list1) = WaitsIn(l1) \cup WaitsIn(spam)
  BY <1>6, <1>7, BothRegular
<1> HIDE DEF list1
<1>12. /\ Regular(list2, FALSE)
       /\ NamesIn(list2) = NamesIn(list1) \cup NamesIn(hub)
       /\ RefsIn(list2) = RefsIn(list1) \cup RefsIn(hub)
       /\ WaitsIn(list2) = WaitsIn(list1) \cup WaitsIn(hub)
  BY <1>4, <1>11, BothRegular
<1> HIDE DEF list2
<1>13. /\ Regular(list3, FALSE)
       /\ NamesIn(list3) = NamesIn(list2) \cup NamesIn(proxy)
       /\ RefsIn(list3) = RefsIn(list2) \cup RefsIn(proxy)
       /\ WaitsIn(list3) = WaitsIn(list2) \cup WaitsIn(proxy)
  BY <1>5, <1>12, BothRegular
<1> HIDE DEF list3
<1> DEFINE all == list3 \o spam
<1>14. /\ Regular(all, FALSE)
       /\ NamesIn(all) = NamesIn(list3) \cup NamesIn(spam)
       /\ RefsIn(all) = RefsIn(list3) \cup RefsIn(spam)
       /\ WaitsIn(all) = WaitsIn(list3) \cup WaitsIn(spam)
  BY <1>7, <1>13, BothRegular
<1>15. BuilderNetRecipe(flags, c) = all
  BY <1>8 DEF list3, list2, list1
<1> HIDE DEF all
<1>16. /\ NamesIn(all) = NamesIn(base \o spam)
       /\ RefsIn(all) = RefsIn(base \o spam)
       /\ WaitsIn(all) = WaitsIn(base \o spam)
  <2>1. NamesIn(all) = NamesIn(base \o spam)
    BY <1>9, <1>10, <1>11, <1>12, <1>13, <1>14
  <2>2. RefsIn(all) = RefsIn(base \o spam)
    BY <1>9, <1>10, <1>11, <1>12, <1>13, <1>14
  <2>3. WaitsIn(all) = WaitsIn(base \o spam)
    BY <1>9, <1>10, <1>11, <1>12, <1>13, <1>14
  <2> QED
    BY <2>1, <2>2, <2>3
<1>17. CASE given
  <2>1. wait("builder-hub") \in WaitsIn(all)
    BY <1>5, <1>9, <1>10, <1>16, <1>17 DEF When
  <2>2. ~Awaited(all)
    BY <2>1 DEF Awaited
  <2> QED
    BY <1>14, <1>15, <1>17, <2>2
<1>18. CASE ~given
  <2>1. /\ NamesIn(base) = L1Names(flags) \cup {"builder-hub", "builder-hub-postgres"}
        /\ RefsIn(base) = RefsIn(l1) \cup Connect("builder-hub-postgres", "postgres")
        /\ WaitsIn(base) = WaitsIn(l1) \cup {wait("builder-hub-postgres")}
    BY <1>4, <1>5, <1>6, <1>9, <1>18 DEF When
  <2>2. Resolved(base, FALSE)
    <3>1. "postgres" \in PortsOf("builder-hub-postgres", FALSE)
      BY DEF PortsOf
    <3>2. ASSUME NEW r \in Connect("builder-hub-postgres", "postgres")
          PROVE  r.service = "builder-hub-postgres" /\ r.label = "postgres"
      BY DEF Connect, ConnectAll
    <3> QED
      BY <1>6, <2>1, <3>1, <3>2 DEF Resolved
  <2>3. Awaited(base)
    BY <1>6, <2>1 DEF Awaited
  <2>4. "beacon" \in NamesIn(base)
    BY <2>1 DEF L1Names
  <2>5. Resolved(base \o spam, FALSE) /\ Awaited(base \o spam) <=>
          Suits(c, NamesIn(base), FALSE)
    BY <1>9, <2>2, <2>3, <2>4, WithContender DEF spam
  <2>6. /\ Resolved(all, FALSE) <=> Resolved(base \o spam, FALSE)
        /\ Awaited(all) <=> Awaited(base \o spam)
    BY <1>16 DEF Resolved, Awaited
  <2> QED
    BY <1>14, <1>15, <1>18, <2>1, <2>5, <2>6
<1> QED
  BY <1>17, <1>18

OpNames(flags, externalBuilder) ==
  {"el", "beacon", "validator", "op-geth", "op-node", "op-batcher"} \cup
  (OwnBuilders \cap {externalBuilder}) \cup
  When("flashblocks" \in flags, {"bproxy", "flashblocks-rpc"}) \cup
  When("enable-websocket-proxy" \in flags, {"websocket-proxy"}) \cup
  When(externalBuilder # "", {"rollup-boost"})

OpBase(flags, externalBuilder) ==
  LET flashblocks == "flashblocks" \in flags
      proxied     == "enable-websocket-proxy" \in flags
      builder     == When(externalBuilder \in OwnBuilders, Connect(externalBuilder, "authrpc"))
      stream      == When(flashblocks /\ externalBuilder = "op-rbuilder",
                          Connect("op-rbuilder", "flashblocks"))
      boosted     == externalBuilder # ""
  IN
  <<RethEL("el", FALSE), LighthouseBeaconNode("beacon", "el", {}),
    LighthouseValidator("validator", "beacon"), OpGeth("op-geth")>> \o
  Builder(flags, externalBuilder) \o
  Only(flashblocks, BProxy("bproxy", builder, {"flashblocks-rpc"}, TRUE, stream)) \o
  Only(proxied, WebsocketProxy("websocket-proxy", "rollup-boost")) \o
  Only(boosted,
    RollupBoost("rollup-boost", "op-geth",
      IF flashblocks THEN Connect("bproxy", "authrpc") ELSE builder,
      flashblocks,
      IF flashblocks THEN Connect("bproxy", "flashblocks") ELSE stream)) \o
  Only(flashblocks,
    FlashblocksRPC("flashblocks-rpc", IF proxied THEN "websocket-proxy" ELSE "rollup-boost")) \o
  <<OpNode("op-node", "el", "beacon", IF boosted THEN "rollup-boost" ELSE "op-geth"),
    OpBatcher("op-batcher", "el", "op-geth", "op-node")>>

LEMMA OpL1Regular ==
  ASSUME NEW flashblocks
  PROVE  LET list == <<RethEL("el", FALSE), LighthouseBeaconNode("beacon", "el", {}),
                       LighthouseValidator("validator", "beacon"), OpGeth("op-geth")>>
         IN  /\ Regular(list, flashblocks)
             /\ NamesIn(list) = {"el", "beacon", "validator", "op-geth"}
             /\ RefsIn(list) = Connect("el", "authrpc") \cup Connect("beacon", "http")
             /\ WaitsIn(list) = {}
<1> DEFINE el == RethEL("el", FALSE)
           beacon == LighthouseBeaconNode("beacon", "el", {})
           validator == LighthouseValidator("validator", "beacon")
           opGeth == OpGeth("op-geth")
           list == <<el, beacon, validator, opGeth>>
<1>1. /\ el.name = "el" /\ el.refs = {} /\ el.depends = {}
      /\ el.ports = PortsOf("el", flashblocks)
  BY DEF RethEL, NewService, PortsOf
<1>2. /\ beacon.name = "beacon" /\ beacon.depends = {}
      /\ beacon.refs = Connect("el", "authrpc")
      /\ beacon.ports = PortsOf("beacon", flashblocks)
  <2>1. PortsOf("beacon", flashblocks) = {"p2p", "quic-p2p", "http"}
    BY DEF PortsOf
  <2>2. ConnectAll({}, "http") = {}
    BY DEF ConnectAll
  <2> QED
    BY <2>1, <2>2 DEF LighthouseBeaconNode, WithReady, NewService
<1>3. /\ validator.name = "validator" /\ validator.depends = {}
      /\ validator.refs = Connect("beacon", "http")
      /\ validator.ports = PortsOf("validator", flashblocks)
  BY DEF LighthouseValidator, NewService, PortsOf
<1>4. /\ opGeth.name = "op-geth" /\ opGeth.refs = {} /\ opGeth.depends = {}
      /\ opGeth.ports = PortsOf("op-geth", flashblocks)
  BY DEF OpGeth, NewService, PortsOf
<1> HIDE DEF el, beacon, validator, opGeth
<1>5. Listed(list) = {el, beacon, validator, opGeth} /\ list \in Seq(Listed(list))
  BY DEF Listed
<1> HIDE DEF list
<1>6. Regular(list, flashblocks)
  BY <1>1, <1>2, <1>3, <1>4, <1>5 DEF Regular
<1>7. NamesIn(list) = {"el", "beacon", "validator", "op-geth"}
  BY <1>1, <1>2, <1>3, <1>4, <1>5 DEF NamesIn
<1>8. RefsIn(list) = Connect("el", "authrpc") \cup Connect("beacon", "http")
  BY <1>1, <1>2, <1>3, <1>4, <1>5 DEF RefsIn
<1>9. WaitsIn(list) = {}
  BY <1>1, <1>2, <1>3, <1>4, <1>5 DEF WaitsIn
<1> QED
  BY <1>6, <1>7, <1>8, <1>9 DEF list, el, beacon, validator, opGeth

LEMMA BuilderRegular ==
  ASSUME NEW flags, NEW externalBuilder
  PROVE  LET list == Builder(flags, externalBuilder)
         IN  /\ Regular(list, "flashblocks" \in flags)
             /\ NamesIn(list) = OwnBuilders \cap {externalBuilder}
             /\ RefsIn(list) \subseteq Connect("op-geth", "rpc")
             /\ WaitsIn(list) = {}
<1> DEFINE flashblocks == "flashblocks" \in flags
           reth == OpReth("op-reth")
           rbuilder == OpRbuilder("op-rbuilder", flashblocks)
           isReth == externalBuilder = "op-reth"
           isRbuilder == externalBuilder = "op-rbuilder"
           list1 == Only(isReth, reth)
           list2 == Only(isRbuilder, rbuilder)
<1>1. /\ reth.name = "op-reth" /\ reth.refs = {} /\ reth.depends = {}
      /\ reth.ports = PortsOf("op-reth", flashblocks)
  BY DEF OpReth, NewService, PortsOf
<1>2. /\ rbuilder.name = "op-rbuilder" /\ rbuilder.depends = {}
      /\ rbuilder.refs = Connect("op-geth", "rpc")
      /\ rbuilder.ports = PortsOf("op-rbuilder", flashblocks)
  BY DEF OpRbuilder, NewService, PortsOf, Bootnode
<1>3. Builder(flags, externalBuilder) = list1 \o list2
  BY DEF Builder
<1> HIDE DEF reth, rbuilder, flashblocks, isReth, isRbuilder
<1>4. /\ Regular(list1, flashblocks)
      /\ NamesIn(list1) = When(isReth, {"op-reth"})
      /\ RefsIn(list1) = {} /\ WaitsIn(list1) = {}
  BY <1>1, OnlyRegular DEF When
<1>5. /\ Regular(list2, flashblocks)
      /\ NamesIn(list2) = When(isRbuilder, {"op-rbuilder"})
      /\ RefsIn(list2) \subseteq Connect("op-geth", "rpc") /\ WaitsIn(list2) = {}
  BY <1>2, OnlyRegular DEF When
<1> HIDE DEF list1, list2
<1>6. /\ Regular(list1 \o list2, flashblocks)
      /\ NamesIn(list1 \o list2) = NamesIn(list1) \cup NamesIn(list2)
      /\ RefsIn(list1 \o list2) = RefsIn(list1) \cup RefsIn(list2)
      /\ WaitsIn(list1 \o list2) = WaitsIn(list1) \cup WaitsIn(list2)
  BY <1>4, <1>5, BothRegular
<1>7. NamesIn(list1) \cup NamesIn(list2) = OwnBuilders \cap {externalBuilder}
  BY <1>4, <1>5 DEF OwnBuilders, When, isReth, isRbuilder
<1> QED
  BY <1>3, <1>4, <1>5, <1>6, <1>7 DEF flashblocks

LEMMA BProxyParts ==
  ASSUME NEW target, NEW stream
  PROVE  LET s == BProxy("bproxy", target, {"flashblocks-rpc"}, TRUE, stream)
         IN  /\ s.name = "bproxy" /\ s.depends = {}
             /\ s.refs = target \cup Connect("flashblocks-rpc", "authrpc") \cup stream
             /\ s.ports = {"authrpc", "flashblocks"}
<1> DEFINE s == BProxy("bproxy", target, {"flashblocks-rpc"}, TRUE, stream)
<1>1. s.name = "bproxy" /\ s.depends = {}
  BY DEF BProxy, NewService
<1>2. s.ports = {"authrpc", "flashblocks"}
  BY DEF BProxy, NewService, FlashblocksPort, When
<1>3. s.refs = target \cup Connect("flashblocks-rpc", "authrpc") \cup stream
  BY DEF BProxy, NewService, When, Connect
<1> QED
  BY <1>1, <1>2, <1>3

\* The references of the OP stack without contender.
OpRefs(flashblocks, proxied, boosted, builder, stream, own) ==
  Connect("el", "authrpc") \cup Connect("beacon", "http") \cup own \cup
  When(flashblocks, builder \cup Connect("flashblocks-rpc", "authrpc") \cup stream) \cup
  When(proxied, Connect("rollup-boost", "flashblocks")) \cup
  When(boosted,
       Connect("op-geth", "authrpc") \cup
       (IF flashblocks THEN Connect("bproxy", "authrpc") ELSE builder) \cup
       (IF flashblocks THEN Connect("bproxy", "flashblocks") ELSE stream)) \cup
  When(flashblocks,
       Connect(IF proxied THEN "websocket-proxy" ELSE "rollup-boost", "flashblocks")
         \cup Connect("op-geth", "rpc")) \cup
  Connect("el", "http") \cup Connect("beacon", "http") \cup
  Connect(IF boosted THEN "rollup-boost" ELSE "op-geth", "authrpc") \cup
  Connect("op-geth", "http") \cup Connect("op-node", "http")

LEMMA OpRefsAre ==
  ASSUME NEW flashblocks, NEW proxied, NEW boosted, NEW builder, NEW stream, NEW own,
         NEW r \in OpRefs(flashblocks, proxied, boosted, builder, stream, own)
  PROVE  \/ r \in Connect("el", "authrpc") \cup Connect("beacon", "http")
               \cup Connect("op-geth", "rpc") \cup Connect("op-geth", "authrpc")
               \cup Connect("el", "http") \cup Connect("op-geth", "http")
               \cup Connect("op-node", "http") \cup own
         \/ r \in builder \cup stream
         \/ flashblocks /\ r \in Connect("flashblocks-rpc", "authrpc")
                               \cup Connect("bproxy", "authrpc")
                               \cup Connect("bproxy", "flashblocks")
         \/ (flashblocks \/ proxied) /\ r \in Connect("rollup-boost", "flashblocks")
         \/ proxied /\ r \in Connect("websocket-proxy", "flashblocks")
         \/ boosted /\ r \in Connect("rollup-boost", "authrpc")
<1>1. CASE flashblocks /\ proxied
  BY <1>1 DEF OpRefs, When
<1>2. CASE flashblocks /\ ~proxied
  BY <1>2 DEF OpRefs, When
<1>3. CASE ~flashblocks
  BY <1>3 DEF OpRefs, When
<1> QED
  BY <1>1, <1>2, <1>3

LEMMA OpRefsHave ==
  ASSUME NEW flashblocks, NEW proxied, NEW boosted, NEW builder, NEW stream, NEW own,
         flashblocks \/ proxied
  PROVE  Connect("rollup-boost", "flashblocks")
           \subseteq OpRefs(flashblocks, proxied, boosted, builder, stream, own)
<1>1. CASE proxied
  BY <1>1 DEF OpRefs, When
<1>2. CASE flashblocks /\ ~proxied
  BY <1>2 DEF OpRefs, When
<1> QED
  BY <1>1, <1>2

\* What the external builder gives rollup-boost or bproxy to refer to.
BuilderRefs(externalBuilder) ==
  When(externalBuilder \in OwnBuilders, Connect(externalBuilder, "authrpc"))

StreamRefs(flags, externalBuilder) ==
  When("flashblocks" \in flags /\ externalBuilder = "op-rbuilder",
       Connect("op-rbuilder", "flashblocks"))

LEMMA OpBaseParts ==
  ASSUME NEW flags, NEW externalBuilder
  PROVE  /\ Regular(OpBase(flags, externalBuilder), "flashblocks" \in flags)
         /\ NamesIn(OpBase(flags, externalBuilder)) = OpNames(flags, externalBuilder)
         /\ WaitsIn(OpBase(flags, externalBuilder)) = {}
         /\ \E own \in SUBSET Connect("op-geth", "rpc") :
              RefsIn(OpBase(flags, externalBuilder)) =
                OpRefs("flashblocks" \in flags, "enable-websocket-proxy" \in flags,
                       externalBuilder # "", BuilderRefs(externalBuilder),
                       StreamRefs(flags, externalBuilder), own)
<1> DEFINE flashblocks == "flashblocks" \in flags
           proxied     == "enable-websocket-proxy" \in flags
           boosted     == externalBuilder # ""
           builder     == BuilderRefs(externalBuilder)
           stream      == StreamRefs(flags, externalBuilder)
           bproxyRefs  == builder \cup Connect("flashblocks-rpc", "authrpc") \cup stream
           boostRefs1  == IF flashblocks THEN Connect("bproxy", "authrpc") ELSE builder
           boostRefs2  == IF flashblocks THEN Connect("bproxy", "flashblocks") ELSE stream
           upstream    == IF proxied THEN "websocket-proxy" ELSE "rollup-boost"
           l2Node      == IF boosted THEN "rollup-boost" ELSE "op-geth"
           bproxy      == BProxy("bproxy", builder, {"flashblocks-rpc"}, TRUE, stream)
           wsProxy     == WebsocketProxy("websocket-proxy", "rollup-boost")
           boost       == RollupBoost("rollup-boost", "op-geth", boostRefs1, flashblocks, boostRefs2)
           rpc         == FlashblocksRPC("flashblocks-rpc", upstream)
           node        == OpNode("op-node", "el", "beacon", l2Node)
           batcher     == OpBatcher("op-batcher", "el", "op-geth", "op-node")
           p1 == <<RethEL("el", FALSE), LighthouseBeaconNode("beacon", "el", {}),
                   LighthouseValidator("validator", "beacon"), OpGeth("op-geth")>>
           p2 == Builder(flags, externalBuilder)
           p3 == Only(flashblocks, bproxy)
           p4 == Only(proxied, wsProxy)
           p5 == Only(boosted, boost)
           p6 == Only(flashblocks, rpc)
           p7 == <<node, batcher>>
<1>0. OpBase(flags, externalBuilder) = p1 \o p2 \o p3 \o p4 \o p5 \o p6 \o p7
  BY DEF OpBase, BuilderRefs, StreamRefs
<1> HIDE DEF p1, p2, builder, stream
<1>1. /\ bproxy.name = "bproxy" /\ bproxy.refs = bproxyRefs /\ bproxy.depends = {}
      /\ bproxy.ports = {"authrpc", "flashblocks"}
  BY BProxyParts
<1>2. /\ wsProxy.name = "websocket-proxy" /\ wsProxy.depends = {}
      /\ wsProxy.refs = Connect("rollup-boost", "flashblocks")
      /\ wsProxy.ports = {"flashblocks"}
  BY DEF WebsocketProxy, NewService
<1>3. /\ boost.name = "rollup-boost" /\ boost.depends = {}
      /\ boost.refs = Connect("op-geth", "authrpc") \cup boostRefs1 \cup boostRefs2
      /\ boost.ports = {"authrpc"} \cup FlashblocksPort(flashblocks)
  <2> HIDE DEF boostRefs1, boostRefs2, flashblocks
  <2> QED
    BY DEF RollupBoost, NewService
<1>4. /\ rpc.name = "flashblocks-rpc" /\ rpc.depends = {}
      /\ rpc.refs = Connect(upstream, "flashblocks") \cup Connect("op-geth", "rpc")
      /\ rpc.ports = ExecutionPorts
  <2> HIDE DEF upstream
  <2> QED
    BY DEF FlashblocksRPC, NewService, Bootnode
<1>5. /\ node.name = "op-node" /\ node.depends = {}
      /\ node.refs = Connect("el", "http") \cup Connect("beacon", "http")
                       \cup Connect(l2Node, "authrpc")
      /\ node.ports = {"http", "p2p", "metrics"}
  <2> HIDE DEF l2Node
  <2> QED
    BY DEF OpNode, NewService
<1>6. /\ batcher.name = "op-batcher" /\ batcher.depends = {}
      /\ batcher.refs = Connect("el", "http") \cup Connect("op-geth", "http")
                          \cup Connect("op-node", "http")
      /\ batcher.ports = {}
  BY DEF OpBatcher, NewService
<1>7. /\ PortsOf("bproxy", flashblocks) = {"authrpc", "flashblocks"}
      /\ PortsOf("websocket-proxy", flashblocks) = {"flashblocks"}
      /\ PortsOf("rollup-boost", flashblocks) = {"authrpc"} \cup FlashblocksPort(flashblocks)
      /\ PortsOf("flashblocks-rpc", flashblocks) = ExecutionPorts
      /\ PortsOf("op-node", flashblocks) = {"http", "p2p", "metrics"}
      /\ PortsOf("op-batcher", flashblocks) = {}
  <2> HIDE DEF flashblocks
  <2> QED
    BY DEF PortsOf
<1> HIDE DEF bproxy, wsProxy, boost, rpc, node, batcher, bproxyRefs, boostRefs1, boostRefs2,
             upstream, l2Node, proxied, boosted
<1>11. /\ Regular(p1, flashblocks) /\ NamesIn(p1) = {"el", "beacon", "validator", "op-geth"}
       /\ RefsIn(p1) = Connect("el", "authrpc") \cup Connect("beacon", "http")
       /\ WaitsIn(p1) = {}
  BY OpL1Regular DEF p1
<1>12. /\ Regular(p2, flashblocks) /\ NamesIn(p2) = OwnBuilders \cap {externalBuilder}
       /\ RefsIn(p2) \subseteq Connect("op-geth", "rpc") /\ WaitsIn(p2) = {}
  BY BuilderRegular DEF p2
<1> HIDE DEF flashblocks
<1>13. /\ Regular(p3, flashblocks) /\ NamesIn(p3) = When(flashblocks, {"bproxy"})
       /\ RefsIn(p3) = When(flashblocks, bproxyRefs) /\ WaitsIn(p3) = {}
  BY <1>1, <1>7, OnlyRegular DEF When
<1>14. /\ Regular(p4, flashblocks) /\ NamesIn(p4) = When(proxied, {"websocket-proxy"})
       /\ RefsIn(p4) = When(proxied, Connect("rollup-boost", "flashblocks")) /\ WaitsIn(p4) = {}
  BY <1>2, <1>7, OnlyRegular DEF When
<1>15. /\ Regular(p5, flashblocks) /\ NamesIn(p5) = When(boosted, {"rollup-boost"})
       /\ RefsIn(p5) =
            When(boosted, Connect("op-geth", "authrpc") \cup boostRefs1 \cup boostRefs2)
       /\ WaitsIn(p5) = {}
  BY <1>3, <1>7, OnlyRegular DEF When
<1>16. /\ Regular(p6, flashblocks) /\ NamesIn(p6) = When(flashblocks, {"flashblocks-rpc"})
       /\ RefsIn(p6) =
            When(flashblocks, Connect(upstream, "flashblocks") \cup Connect("op-geth", "rpc"))
       /\ WaitsIn(p6) = {}
  BY <1>4, <1>7, OnlyRegular DEF When
<1>17. /\ Regular(p7, flashblocks) /\ NamesIn(p7) = {"op-node", "op-batcher"}
       /\ RefsIn(p7) = node.refs \cup batcher.refs /\ WaitsIn(p7) = {}
  <2>1. node.ports = PortsOf(node.name, flashblocks) /\ batcher.ports = PortsOf(batcher.name, flashblocks)
    BY <1>5, <1>6, <1>7
  <2>2. /\ Regular(p7, flashblocks) /\ NamesIn(p7) = {node.name, batcher.name}
        /\ RefsIn(p7) = node.refs \cup batcher.refs
        /\ WaitsIn(p7) = node.depends \cup batcher.depends
    BY <2>1, PairRegular
  <2> QED
    BY <1>5, <1>6, <2>2
<1> HIDE DEF p3, p4, p5, p6, p7
<1> DEFINE q2 == p1 \o p2
           q3 == q2 \o p3
           q4 == q3 \o p4
           q5 == q4 \o p5
           q6 == q5 \o p6
           q7 == q6 \o p7
<1>22. /\ Regular(q2, flashblocks)
       /\ NamesIn(q2) = NamesIn(p1) \cup NamesIn(p2)
       /\ RefsIn(q2) = RefsIn(p1) \cup RefsIn(p2)
       /\ WaitsIn(q2) = WaitsIn(p1) \cup WaitsIn(p2)
  BY <1>11, <1>12, BothRegular
<1> HIDE DEF q2
<1>23. /\ Regular(q3, flashblocks)
       /\ NamesIn(q3) = NamesIn(q2) \cup NamesIn(p3)
       /\ RefsIn(q3) = RefsIn(q2) \cup RefsIn(p3)
       /\ WaitsIn(q3) = WaitsIn(q2) \cup WaitsIn(p3)
  BY <1>13, <1>22, BothRegular
<1> HIDE DEF q3
<1>24. /\ Regular(q4, flashblocks)
       /\ NamesIn(q4) = NamesIn(q3) \cup NamesIn(p4)
       /\ RefsIn(q4) = RefsIn(q3) \cup RefsIn(p4)
       /\ WaitsIn(q4) = WaitsIn(q3) \cup WaitsIn(p4)
  BY <1>14, <1>23, BothRegular
<1> HIDE DEF q4
<1>25. /\ Regular(q5, flashblocks)
       /\ NamesIn(q5) = NamesIn(q4) \cup NamesIn(p5)
       /\ RefsIn(q5) = RefsIn(q4) \cup RefsIn(p5)
       /\ WaitsIn(q5) = WaitsIn(q4) \cup WaitsIn(p5)
  BY <1>15, <1>24, BothRegular
<1> HIDE DEF q5
<1>26. /\ Regular(q6, flashblocks)
       /\ NamesIn(q6) = NamesIn(q5) \cup NamesIn(p6)
       /\ RefsIn(q6) = RefsIn(q5) \cup RefsIn(p6)
       /\ WaitsIn(q6) = WaitsIn(q5) \cup WaitsIn(p6)
  BY <1>16, <1>25, BothRegular
<1> HIDE DEF q6
<1>27. /\ Regular(q7, flashblocks)
       /\ NamesIn(q7) = NamesIn(q6) \cup NamesIn(p7)
       /\ RefsIn(q7) = RefsIn(q6) \cup RefsIn(p7)
       /\ WaitsIn(q7) = WaitsIn(q6) \cup WaitsIn(p7)
  BY <1>17, <1>26, BothRegular
<1>28. OpBase(flags, externalBuilder) = q7
  BY <1>0 DEF q6, q5, q4, q3, q2
<1> HIDE DEF q7
<1>29. WaitsIn(q7) = {}
  BY <1>11, <1>12, <1>13, <1>14, <1>15, <1>16, <1>17, <1>22, <1>23, <1>24, <1>25, <1>26, <1>27
<1>30. NamesIn(q7) = OpNames(flags, externalBuilder)
  BY <1>11, <1>12, <1>13, <1>14, <1>15, <1>16, <1>17, <1>22, <1>23, <1>24, <1>25, <1>26, <1>27
     DEF OpNames, flashblocks, proxied, boosted, When
<1>31. RefsIn(q7) = RefsIn(p1) \cup RefsIn(p2) \cup RefsIn(p3) \cup RefsIn(p4)
                     \cup RefsIn(p5) \cup RefsIn(p6) \cup RefsIn(p7)
  BY <1>22, <1>23, <1>24, <1>25, <1>26, <1>27
<1>32. RefsIn(q7) =
         Connect("el", "authrpc") \cup Connect("beacon", "http") \cup RefsIn(p2) \cup
         When(flashblocks, bproxyRefs) \cup
         When(proxied, Connect("rollup-boost", "flashblocks")) \cup
         When(boosted, Connect("op-geth", "authrpc") \cup boostRefs1 \cup boostRefs2) \cup
         When(flashblocks, Connect(upstream, "flashblocks") \cup Connect("op-geth", "rpc")) \cup
         Connect("el", "http") \cup Connect("beacon", "http") \cup Connect(l2Node, "authrpc") \cup
         Connect("op-geth", "http") \cup Connect("op-node", "http")
  BY <1>5, <1>6, <1>11, <1>13, <1>14, <1>15, <1>16, <1>17, <1>31
<1>33. RefsIn(q7) = OpRefs(flashblocks, proxied, boosted, builder, stream, RefsIn(p2))
  BY <1>32 DEF OpRefs, bproxyRefs, boostRefs1, boostRefs2, upstream, l2Node
<1> QED
  BY <1>12, <1>27, <1>28, <1>29, <1>30, <1>33 DEF flashblocks, proxied, boosted, builder, stream

\* Flashblocks and the websocket proxy need rollup-boost, and so an external builder.
OpFlagsFit(flags, externalBuilder) ==
  /\ "flashblocks" \in flags => externalBuilder # ""
  /\ "enable-websocket-proxy" \in flags => "flashblocks" \in flags /\ externalBuilder # ""

LEMMA OpBaseFits ==
  ASSUME NEW flags, NEW externalBuilder, OpFlagsFit(flags, externalBuilder)
  PROVE  /\ Resolved(OpBase(flags, externalBuilder), "flashblocks" \in flags)
         /\ Awaited(OpBase(flags, externalBuilder))
<1> DEFINE flashblocks == "flashblocks" \in flags
           proxied     == "enable-websocket-proxy" \in flags
           boosted     == externalBuilder # ""
           list        == OpBase(flags, externalBuilder)
           names       == OpNames(flags, externalBuilder)
           found(r)    == r.service \in names /\ r.label \in PortsOf(r.service, flashblocks)
<1>1. NamesIn(list) = names /\ WaitsIn(list) = {}
  BY OpBaseParts
<1>2. ASSUME NEW r \in RefsIn(list)
      PROVE  \/ r \in Connect("el", "authrpc") \cup Connect("beacon", "http")
                   \cup Connect("op-geth", "rpc") \cup Connect("op-geth", "authrpc")
                   \cup Connect("el", "http") \cup Connect("op-geth", "http")
                   \cup Connect("op-node", "http")
             \/ externalBuilder \in OwnBuilders /\ r \in Connect(externalBuilder, "authrpc")
             \/ flashblocks /\ r \in Connect("flashblocks-rpc", "authrpc")
                                   \cup Connect("bproxy", "authrpc")
                                   \cup Connect("bproxy", "flashblocks")
             \/ flashblocks /\ externalBuilder = "op-rbuilder"
                  /\ r \in Connect("op-rbuilder", "flashblocks")
             \/ (flashblocks \/ proxied) /\ r \in Connect("rollup-boost", "flashblocks")
             \/ proxied /\ r \in Connect("websocket-proxy", "flashblocks")
             \/ boosted /\ r \in Connect("rollup-boost", "authrpc")
  <2> DEFINE builder == BuilderRefs(externalBuilder)
             stream  == StreamRefs(flags, externalBuilder)
  <2>1. PICK own \in SUBSET Connect("op-geth", "rpc") :
          RefsIn(list) = OpRefs(flashblocks, proxied, boosted, builder, stream, own)
    BY OpBaseParts
  <2>2. /\ r \in builder =>
             externalBuilder \in OwnBuilders /\ r \in Connect(externalBuilder, "authrpc")
        /\ r \in stream => /\ flashblocks /\ externalBuilder = "op-rbuilder"
                           /\ r \in Connect("op-rbuilder", "flashblocks")
    BY DEF BuilderRefs, StreamRefs, When
  <2> HIDE DEF builder, stream, flashblocks, proxied, boosted, list
  <2> QED
    BY <2>1, <2>2, OpRefsAre
<1>3. ASSUME NEW service, NEW label, NEW r \in Connect(service, label)
      PROVE  r.service = service /\ r.label = label
  BY DEF Connect, ConnectAll
<1>4. /\ {"el", "beacon", "op-geth", "op-node"} \subseteq names
      /\ externalBuilder \in OwnBuilders => externalBuilder \in names
      /\ flashblocks => {"bproxy", "flashblocks-rpc"} \subseteq names
      /\ proxied => "websocket-proxy" \in names
      /\ boosted => "rollup-boost" \in names
  BY DEF OpNames, When
<1>5. /\ {"authrpc", "http"} \subseteq PortsOf("el", flashblocks)
      /\ "http" \in PortsOf("beacon", flashblocks)
      /\ "http" \in PortsOf("op-node", flashblocks)
      /\ {"rpc", "authrpc", "http"} \subseteq PortsOf("op-geth", flashblocks)
      /\ "authrpc" \in PortsOf("flashblocks-rpc", flashblocks)
      /\ {"authrpc", "flashblocks"} \subseteq PortsOf("bproxy", flashblocks)
      /\ "flashblocks" \in PortsOf("websocket-proxy", flashblocks)
      /\ "authrpc" \in PortsOf("rollup-boost", flashblocks)
      /\ "authrpc" \in PortsOf("op-reth", flashblocks)
      /\ "authrpc" \in PortsOf("op-rbuilder", flashblocks)
      /\ flashblocks => "flashblocks" \in PortsOf("rollup-boost", flashblocks)
      /\ flashblocks => "flashblocks" \in PortsOf("op-rbuilder", flashblocks)
  <2> HIDE DEF flashblocks
  <2> QED
    BY DEF PortsOf, ExecutionPorts, FlashblocksPort, When
<1>6. /\ flashblocks => boosted
      /\ proxied => flashblocks /\ boosted
      /\ externalBuilder \in OwnBuilders => externalBuilder \in {"op-reth", "op-rbuilder"}
      /\ externalBuilder = "op-rbuilder" => externalBuilder \in OwnBuilders
  BY DEF OpFlagsFit, OwnBuilders
<1> HIDE DEF flashblocks, proxied, boosted, names, list
<1>7. ASSUME NEW r \in RefsIn(list)
      PROVE  found(r)
  <2>1. CASE r \in Connect("el", "authrpc") \cup Connect("beacon", "http")
                   \cup Connect("op-geth", "rpc") \cup Connect("op-geth", "authrpc")
                   \cup Connect("el", "http") \cup Connect("op-geth", "http")
                   \cup Connect("op-node", "http")
    <3>1. \/ r.service = "el" /\ r.label \in {"authrpc", "http"}
          \/ r.service \in {"beacon", "op-node"} /\ r.label = "http"
          \/ r.service = "op-geth" /\ r.label \in {"rpc", "authrpc", "http"}
      BY <1>3, <2>1
    <3> QED
      BY <1>4, <1>5, <3>1
  <2>2. CASE externalBuilder \in OwnBuilders /\ r \in Connect(externalBuilder, "authrpc")
    BY <1>3, <1>4, <1>5, <1>6, <2>2
  <2>3. CASE flashblocks /\ r \in Connect("flashblocks-rpc", "authrpc")
                                   \cup Connect("bproxy", "authrpc")
                                   \cup Connect("bproxy", "flashblocks")
    <3>1. \/ r.service = "flashblocks-rpc" /\ r.label = "authrpc"
          \/ r.service = "bproxy" /\ r.label \in {"authrpc", "flashblocks"}
      BY <1>3, <2>3
    <3> QED
      BY <1>4, <1>5, <2>3, <3>1
  <2>4. CASE flashblocks /\ externalBuilder = "op-rbuilder"
               /\ r \in Connect("op-rbuilder", "flashblocks")
    BY <1>3, <1>4, <1>5, <1>6, <2>4
  <2>5. CASE (flashblocks \/ proxied) /\ r \in Connect("rollup-boost", "flashblocks")
    BY <1>3, <1>4, <1>5, <1>6, <2>5
  <2>6. CASE proxied /\ r \in Connect("websocket-proxy", "flashblocks")
    BY <1>3, <1>4, <1>5, <2>6
  <2>7. CASE boosted /\ r \in Connect("rollup-boost", "authrpc")
    BY <1>3, <1>4, <1>5, <2>7
  <2> QED
    BY <1>2, <2>1, <2>2, <2>3, <2>4, <2>5, <2>6, <2>7
<1> QED
  BY <1>1, <1>7 DEF Resolved, Awaited, list, flashblocks

\* What is missing is missing with contender, too.
LEMMA OpBaseUnfit ==
  ASSUME NEW flags, NEW externalBuilder, ~OpFlagsFit(flags, externalBuilder)
  PROVE  \E r \in RefsIn(OpBase(flags, externalBuilder)) :
           ~(/\ r.service \in OpNames(flags, externalBuilder) \cup {"contender"}
             /\ r.label \in PortsOf(r.service, "flashblocks" \in flags))
<1> DEFINE flashblocks == "flashblocks" \in flags
           proxied     == "enable-websocket-proxy" \in flags
           boosted     == externalBuilder # ""
           list        == OpBase(flags, externalBuilder)
           ref         == [service |-> "rollup-boost", label |-> "flashblocks"]
<1>1. ref \in Connect("rollup-boost", "flashblocks")
      /\ ref.service = "rollup-boost" /\ ref.label = "flashblocks"
  BY DEF Connect, ConnectAll
<1> HIDE DEF ref
<1>2. flashblocks \/ proxied
  BY DEF OpFlagsFit
<1>3. ref \in RefsIn(list)
  <2> DEFINE builder == BuilderRefs(externalBuilder)
             stream  == StreamRefs(flags, externalBuilder)
  <2>1. PICK own \in SUBSET Connect("op-geth", "rpc") :
          RefsIn(list) = OpRefs(flashblocks, proxied, boosted, builder, stream, own)
    BY OpBaseParts
  <2> HIDE DEF builder, stream, flashblocks, proxied, boosted, list
  <2> QED
    BY <1>1, <1>2, <2>1, OpRefsHave
<1>6. CASE ~boosted
  <2>1. "rollup-boost" \notin OpNames(flags, externalBuilder) \cup {"contender"}
    BY <1>6 DEF OpNames, OwnBuilders, When
  <2> QED
    BY <1>1, <1>3, <2>1
<1>7. CASE boosted /\ ~flashblocks
  <2>1. "flashblocks" \notin PortsOf("rollup-boost", flashblocks)
    BY <1>7 DEF PortsOf, FlashblocksPort, When
  <2> QED
    BY <1>1, <1>3, <2>1
<1> QED
  BY <1>6, <1>7 DEF OpFlagsFit

LEMMA OpFits ==
  ASSUME NEW flags, NEW externalBuilder, NEW c
  PROVE  LET list == OpRecipe(flags, externalBuilder, c)
             flashblocks == "flashblocks" \in flags
             target == IF c.target = "" THEN [c EXCEPT !.target = "op-geth"] ELSE c
         IN  /\ Regular(list, flashblocks)
             /\ Resolved(list, flashblocks) /\ Awaited(list) <=>
                  /\ OpFlagsFit(flags, externalBuilder)
                  /\ Suits(target, OpNames(flags, externalBuilder), flashblocks)
<1> DEFINE flashblocks == "flashblocks" \in flags
           target == IF c.target = "" THEN [c EXCEPT !.target = "op-geth"] ELSE c
           base == OpBase(flags, externalBuilder)
           spam == RunContenderIfEnabled(target)
<1>1. OpRecipe(flags, externalBuilder, c) = base \o spam
  BY DEF OpRecipe, OpBase
<1>2. Regular(base, flashblocks) /\ NamesIn(base) = OpNames(flags, externalBuilder)
  BY OpBaseParts
<1> HIDE DEF target
<1>3. /\ Regular(spam, flashblocks)
      /\ NamesIn(spam) = When(target.enabled, {"contender"})
  BY ContenderRegular
<1> HIDE DEF flashblocks, spam, base
<1>4. /\ Regular(base \o spam, flashblocks)
      /\ NamesIn(base \o spam) = NamesIn(base) \cup NamesIn(spam)
      /\ RefsIn(base \o spam) = RefsIn(base) \cup RefsIn(spam)
  BY <1>2, <1>3, BothRegular
<1>5. CASE OpFlagsFit(flags, externalBuilder)
  <2>1. Resolved(base, flashblocks) /\ Awaited(base)
    BY <1>5, OpBaseFits DEF base, flashblocks
  <2>2. "beacon" \in NamesIn(base)
    BY <1>2 DEF OpNames
  <2>3. Resolved(base \o spam, flashblocks) /\ Awaited(base \o spam) <=>
          Suits(target, NamesIn(base), flashblocks)
    BY <1>2, <2>1, <2>2, WithContender DEF spam
  <2> QED
    BY <1>1, <1>2, <1>4, <1>5, <2>3 DEF target, flashblocks
<1>6. CASE ~OpFlagsFit(flags, externalBuilder)
  <2>1. PICK r \in RefsIn(base) :
          ~(/\ r.service \in OpNames(flags, externalBuilder) \cup {"contender"}
            /\ r.label \in PortsOf(r.service, flashblocks))
    BY <1>6, OpBaseUnfit DEF base, flashblocks
  <2>2. NamesIn(base \o spam) \subseteq OpNames(flags, externalBuilder) \cup {"contender"}
    BY <1>2, <1>3, <1>4 DEF When
  <2>3. ~Resolved(base \o spam, flashblocks)
    BY <1>4, <2>1, <2>2 DEF Resolved
  <2> QED
    BY <1>1, <1>4, <1>6, <2>3 DEF flashblocks
<1> QED
  BY <1>5, <1>6

-----------------------------------------------------------------------------
(* The command lines that are rejected.                                    *)

\* Contender can spam the nodes with an http port.
LEMMA L1Suits ==
  ASSUME NEW c, NEW flags, NEW hub \in SUBSET {"builder-hub", "builder-hub-postgres"},
         hub \in {{}, {"builder-hub", "builder-hub-postgres"}}
  PROVE  Suits(c, L1Names(flags) \cup hub, FALSE) <=>
           (c.enabled =>
              \/ c.target \in {"", "el", "beacon", "mev-boost"}
              \/ c.target = "mev-boost-relay" /\ "use-separate-mev-boost" \in flags
              \/ c.target = "builder-hub" /\ hub # {}
              \/ c.rpcUrl /\ c.target # "op-geth")
<1> DEFINE names == L1Names(flags) \cup hub
           target == IF c.target = "" THEN "el" ELSE c.target
           separate == "use-separate-mev-boost" \in flags
<1>1. ASSUME NEW name
      PROVE  name \in names /\ "http" \in PortsOf(name, FALSE) <=>
               \/ name \in {"el", "beacon", "mev-boost"}
               \/ name = "mev-boost-relay" /\ separate
               \/ name = "builder-hub" /\ hub # {}
  <2>1. name \in names =>
          name \in {"el", "beacon", "validator", "mev-boost", "cl-proxy", "mev-boost-relay",
                    "builder-hub", "builder-hub-postgres"}
    BY DEF L1Names, When
  <2>2. /\ \A n \in {"el", "beacon", "mev-boost", "mev-boost-relay", "builder-hub"} :
             "http" \in PortsOf(n, FALSE)
        /\ \A n \in {"validator", "cl-proxy", "builder-hub-postgres"} :
             "http" \notin PortsOf(n, FALSE)
    BY DEF PortsOf
  <2>3. /\ {"el", "beacon", "mev-boost"} \subseteq names
        /\ "mev-boost-relay" \in names <=> separate
        /\ "builder-hub" \in names <=> hub # {}
    BY DEF L1Names, When
  <2> HIDE DEF names, separate
  <2> QED
    BY <2>1, <2>2, <2>3
<1>2. "op-node" \notin names
  BY DEF L1Names, When
<1> HIDE DEF names, separate
<1>3. Suits(c, names, FALSE) <=>
        (c.enabled => /\ ~c.rpcUrl => target \in names /\ "http" \in PortsOf(target, FALSE)
                      /\ c.target # "op-geth")
  BY <1>2 DEF Suits
<1> QED
  BY <1>1, <1>3 DEF names, separate

LEMMA OpSuits ==
  ASSUME NEW c \in ContenderFlags, NEW flags, NEW externalBuilder
  PROVE  Suits(IF c.target = "" THEN [c EXCEPT !.target = "op-geth"] ELSE c,
               OpNames(flags, externalBuilder), "flashblocks" \in flags) <=>
           (c.enabled =>
              \/ c.target \in {"", "el", "beacon", "op-geth", "op-node"}
              \/ c.target \in OwnBuilders \cap {externalBuilder}
              \/ c.target = "flashblocks-rpc" /\ "flashblocks" \in flags
              \/ c.rpcUrl)
<1> DEFINE names == OpNames(flags, externalBuilder)
           flashblocks == "flashblocks" \in flags
           target == IF c.target = "" THEN "op-geth" ELSE c.target
           given == IF c.target = "" THEN [c EXCEPT !.target = "op-geth"] ELSE c
<1>1. /\ given.target = target /\ given.enabled = c.enabled /\ given.rpcUrl = c.rpcUrl
      /\ target # ""
  BY DEF ContenderFlags
<1>2. ASSUME NEW name
      PROVE  name \in names /\ "http" \in PortsOf(name, flashblocks) <=>
               \/ name \in {"el", "beacon", "op-geth", "op-node"}
               \/ name \in OwnBuilders \cap {externalBuilder}
               \/ name = "flashblocks-rpc" /\ flashblocks
  <2>1. name \in names =>
          name \in {"el", "beacon", "validator", "op-geth", "op-node", "op-batcher", "op-reth",
                    "op-rbuilder", "bproxy", "flashblocks-rpc", "websocket-proxy", "rollup-boost"}
    BY DEF OpNames, OwnBuilders, When
  <2>2. /\ {"el", "beacon", "op-geth", "op-node"} \subseteq names
        /\ "flashblocks-rpc" \in names <=> flashblocks
        /\ \A n \in {"op-reth", "op-rbuilder"} :
             n \in names <=> n \in OwnBuilders \cap {externalBuilder}
    BY DEF OpNames, OwnBuilders, When
  <2>3. OwnBuilders = {"op-reth", "op-rbuilder"}
    BY DEF OwnBuilders
  <2> HIDE DEF names, flashblocks
  <2>4. /\ \A n \in {"el", "beacon", "op-geth", "op-node", "op-reth", "op-rbuilder",
                     "flashblocks-rpc"} : "http" \in PortsOf(n, flashblocks)
        /\ \A n \in {"validator", "op-batcher", "bproxy", "websocket-proxy", "rollup-boost"} :
             "http" \notin PortsOf(n, flashblocks)
    BY DEF PortsOf, ExecutionPorts, FlashblocksPort, When
  <2> QED
    BY <2>1, <2>2, <2>3, <2>4
<1>3. "op-node" \in names
  BY DEF OpNames
<1> HIDE DEF names, flashblocks, given
<1>4. Suits(given, names, flashblocks) <=>
        (c.enabled => (~c.rpcUrl => target \in names /\ "http" \in PortsOf(target, flashblocks)))
  BY <1>1, <1>3 DEF Suits
<1> QED
  BY <1>2, <1>4 DEF names, flashblocks, given

LEMMA RequestFits ==
  ASSUME FromRecipes, request \in Requests, services = Apply(request)
  PROVE  Valid <=> Fits
<1> DEFINE flags == request.flags
           c == request.contender
           flashblocks == request.recipe = "opstack" /\ "flashblocks" \in flags
<1>1. /\ services \in Seq(Service) /\ services = ApplyRecipeOf(request)
      /\ request.recipe \in {"l1", "buildernet", "opstack"}
      /\ flags \subseteq FlagsOf(request.recipe)
      /\ c \in ContenderFlags
      /\ request.recipe # "opstack" => request.externalBuilder = ""
  BY ManifestAssumption DEF FromRecipes
<1>2. AllSound(services)
  BY <1>1, L1Sound, BuilderNetSound, OpSound DEF ApplyRecipeOf
<1>3. CASE request.recipe = "l1"
  <2>1. services = L1Base(flags) \o RunContenderIfEnabled(c)
    BY <1>1, <1>3 DEF ApplyRecipeOf, L1Recipe, L1Base
  <2>2. Regular(services, FALSE)
    <3>1. Regular(L1Base(flags), FALSE) /\ Regular(RunContenderIfEnabled(c), FALSE)
      BY L1BaseFits, ContenderRegular
    <3> QED
      BY <2>1, <3>1, BothRegular
  <2>3. Valid <=> Suits(c, L1Names(flags), FALSE)
    <3>1. "beacon" \in L1Names(flags)
      BY DEF L1Names
    <3>2. Resolved(services, FALSE) /\ Awaited(services) <=> Suits(c, L1Names(flags), FALSE)
      BY <2>1, <3>1, L1BaseFits, WithContender
    <3> QED
      BY <1>1, <1>2, <2>2, <3>2, ValidByName
  <2>4. flags \subseteq L1Flags
    BY <1>1, <1>3 DEF FlagsOf
  <2>5. "mock-proxy" \notin flags /\ "flashblocks" \notin flags
        /\ "enable-websocket-proxy" \notin flags
    BY <2>4 DEF L1Flags
  <2>6. Fits <=> ContenderFits
    BY <2>5 DEF Fits
  <2>7. Spammable = L1Spammable
    BY <1>3 DEF Spammable
  <2>8. ContenderFits <=> Suits(c, L1Names(flags) \cup {}, FALSE)
    BY <2>7, L1Suits DEF ContenderFits, L1Spammable, When
  <2> QED
    BY <2>3, <2>6, <2>8
<1>4. CASE request.recipe = "buildernet"
  <2> DEFINE hub == {"builder-hub", "builder-hub-postgres"}
  <2>1. services = BuilderNetRecipe(flags, c)
    BY <1>1, <1>4 DEF ApplyRecipeOf
  <2>2. /\ Regular(services, FALSE)
        /\ Resolved(services, FALSE) /\ Awaited(services) <=>
             "mock-proxy" \notin flags /\ Suits(c, L1Names(flags) \cup hub, FALSE)
    BY <2>1, BuilderNetFits
  <2>3. Valid <=> "mock-proxy" \notin flags /\ Suits(c, L1Names(flags) \cup hub, FALSE)
    BY <1>1, <1>2, <2>2, ValidByName
  <2>4. flags \subseteq L1Flags \cup {"mock-proxy"}
    BY <1>1, <1>4 DEF FlagsOf
  <2>5. "flashblocks" \notin flags /\ "enable-websocket-proxy" \notin flags
    BY <2>4 DEF L1Flags
  <2>6. Fits <=> ContenderFits /\ "mock-proxy" \notin flags
    BY <2>5 DEF Fits
  <2>7. "mock-proxy" \notin flags =>
          Spammable = {"", "el", "beacon", "mev-boost", "builder-hub"} \cup
            When("use-separate-mev-boost" \in flags, {"mev-boost-relay"})
    BY <1>4 DEF Spammable, L1Spammable, When
  <2>8. "mock-proxy" \notin flags =>
          (ContenderFits <=> Suits(c, L1Names(flags) \cup hub, FALSE))
    <3>1. hub # {} /\ hub \in SUBSET {"builder-hub", "builder-hub-postgres"}
          /\ hub \in {{}, {"builder-hub", "builder-hub-postgres"}}
      OBVIOUS
    <3>2. Suits(c, L1Names(flags) \cup hub, FALSE) <=>
            (c.enabled =>
               \/ c.target \in {"", "el", "beacon", "mev-boost"}
               \/ c.target = "mev-boost-relay" /\ "use-separate-mev-boost" \in flags
               \/ c.target = "builder-hub" /\ hub # {}
               \/ c.rpcUrl /\ c.target # "op-geth")
      BY <3>1, L1Suits
    <3> HIDE DEF hub
    <3> QED
      BY <2>7, <3>1, <3>2 DEF ContenderFits, When
  <2> QED
    BY <2>3, <2>6, <2>8
<1>5. CASE request.recipe = "opstack"
  <2> DEFINE builder == request.externalBuilder
             given == IF c.target = "" THEN [c EXCEPT !.target = "op-geth"] ELSE c
             suits == Suits(given, OpNames(flags, builder), "flashblocks" \in flags)
  <2>1. services = OpRecipe(flags, builder, c)
    BY <1>1, <1>5 DEF ApplyRecipeOf
  <2>2. /\ Regular(services, "flashblocks" \in flags)
        /\ Resolved(services, "flashblocks" \in flags) /\ Awaited(services) <=>
             OpFlagsFit(flags, builder) /\ suits
    BY <2>1, OpFits
  <2>3. Valid <=> OpFlagsFit(flags, builder) /\ suits
    <3> DEFINE streamed == "flashblocks" \in flags
    <3> HIDE DEF streamed, suits
    <3> QED
      BY <1>1, <1>2, <2>2, ValidByName DEF streamed
  <2>4. "mock-proxy" \notin flags
    BY <1>1, <1>5 DEF FlagsOf
  <2>5. Fits <=> ContenderFits /\ OpFlagsFit(flags, builder)
    BY <2>4 DEF Fits, OpFlagsFit
  <2>6. Spammable = {"", "el", "beacon", "op-geth", "op-node"} \cup
          (OwnBuilders \cap {builder}) \cup When("flashblocks" \in flags, {"flashblocks-rpc"})
    BY <1>5 DEF Spammable
  <2>7. ContenderFits <=> suits
    BY <1>1, <2>6, OpSuits DEF ContenderFits, When
  <2> QED
    BY <2>3, <2>5, <2>7
<1> QED
  BY <1>1, <1>3, <1>4, <1>5

\* Until they are validated the services are those of the recipe.
Built == pc = "validate" => services = Apply(request)

RejectedIf == Decided => (pc = "rejected") = ~Fits

LEMMA RejectedStep ==
  ASSUME FromRecipes, Inv, Built, RejectedIf, [Next]_vars
  PROVE  Built' /\ RejectedIf'
<1>1. request' = request /\ request \in Requests
  BY DEF Inv, Requested, Next, vars, Goto, ApplyRecipe, Validate, CreatePrometheusServices,
         NewLocalRunner, generateDockerCompose, ValidateFails, WithoutPrometheus, DryRun,
         OverrideUnknown, OverridesKnown, DownloadFails, NewLocalRunnerFails, ImageMissing,
         ComposeUp, ComposeRefuses, RunOnHost
<1>2. Fits' = Fits
  BY <1>1 DEF Fits, ContenderFits, Spammable, L1Spammable
<1>3. CASE ApplyRecipe
  BY <1>3 DEF ApplyRecipe, Built, RejectedIf, Decided
<1>4. CASE Validate \/ ValidateFails
  <2>1. Valid <=> Fits
    BY <1>1, <1>4, RequestFits DEF Built, Validate, ValidateFails
  <2>2. pc' \in {"prometheus", "rejected"} /\ (pc' = "rejected" <=> ~Valid)
    BY <1>4 DEF Validate, ValidateFails, Goto
  <2> QED
    BY <1>2, <2>1, <2>2 DEF Built, RejectedIf
<1>5. CASE UNCHANGED vars
  BY <1>2, <1>5 DEF vars, Built, RejectedIf, Decided
<1>6. CASE ~(ApplyRecipe \/ Validate \/ ValidateFails \/ UNCHANGED vars)
  <2>1. Decided /\ pc # "rejected" /\ Decided' /\ pc' # "rejected" /\ pc' # "validate"
    BY <1>6
       DEF Decided, Next, Goto, CreatePrometheusServices, NewLocalRunner,
           generateDockerCompose, WithoutPrometheus, DryRun, OverrideUnknown, OverridesKnown,
           DownloadFails, NewLocalRunnerFails, ImageMissing, ComposeUp, ComposeRefuses, RunOnHost
  <2> QED
    BY <1>2, <2>1 DEF Built, RejectedIf
<1> QED
  BY <1>3, <1>4, <1>5, <1>6

\* Whatever the flags of the three recipes, Validate rejects exactly those that do not go
\* together, and what it lets pass fails only for an override the user got wrong
\* (manifest.go Validate, recipe_*.go, components.go).
THEOREM RejectionsExplained ==
  ASSUME FromRecipes
  PROVE  Spec => []FailuresExplained
<1>1. Spec => [](Built /\ RejectedIf)
  <2>1. Init => Built /\ RejectedIf
    BY DEF Init, Built, RejectedIf, Decided
  <2> QED
    BY <2>1, RejectedStep, Invariance, PTL DEF Spec
<1>2. RejectedIf /\ OverrideAtFault /\ NoPanic => FailuresExplained
  BY DEF RejectedIf, OverrideAtFault, NoPanic, FailuresExplained
<1> QED
  BY <1>1, <1>2, OnlyOverridesFail, NeverPanics, PTL

\* No command line with --mock-proxy makes an environment, whatever else it says: its
\* service waits for builder-hub to be healthy, which has no ready check
\* (components.go:694, Validate; recipe_buildernet.go:33 offers the flag).
THEOREM MockProxyRejected ==
  ASSUME FromRecipes
  PROVE  Spec => [](Decided /\ "mock-proxy" \in request.flags => pc = "rejected")
<1>1. FailuresExplained => (Decided /\ "mock-proxy" \in request.flags => pc = "rejected")
  BY DEF FailuresExplained, Fits
<1> QED
  BY <1>1, RejectionsExplained, PTL

-----------------------------------------------------------------------------
(* Who builds the blocks.                                                  *)

IsList(list) == list \in Seq(Listed(list))

\* A service of the list refers to another.
Refers(list, name, service, label) ==
  \E s \in Listed(list) :
    s.name = name /\ [service |-> service, label |-> label] \in s.refs

LEMMA RefersOne ==
  ASSUME NEW s, NEW service, NEW label, Connect(service, label) \subseteq s.refs
  PROVE  Refers(<<s>>, s.name, service, label)
<1>1. Listed(<<s>>) = {s}
  BY DEF Listed
<1> QED
  BY <1>1 DEF Refers, Connect, ConnectAll

LEMMA RefersEither ==
  ASSUME NEW list1, NEW list2, IsList(list1), IsList(list2),
         NEW name, NEW service, NEW label,
         Refers(list1, name, service, label) \/ Refers(list2, name, service, label)
  PROVE  Refers(list1 \o list2, name, service, label)
  BY BothListed DEF Refers, IsList

LEMMA OnlyIsList ==
  ASSUME NEW given, NEW s
  PROVE  IsList(Only(given, s)) /\ (given => s \in Listed(Only(given, s)))
<1>1. CASE given
  BY <1>1 DEF Only, IsList, Listed
<1>2. CASE ~given
  BY <1>2 DEF Only, IsList, Listed
<1> QED
  BY <1>1, <1>2

LEMMA L1Refers ==
  ASSUME NEW flags
  PROVE  LET elService == IF "secondary-el" \in flags THEN "cl-proxy" ELSE "el"
         IN  /\ Refers(L1Base(flags), "beacon", elService, "authrpc")
             /\ "secondary-el" \in flags => Refers(L1Base(flags), "cl-proxy", "el", "authrpc")
<1> DEFINE given == "secondary-el" \in flags
           elService == IF given THEN "cl-proxy" ELSE "el"
           proxy == ClProxy("cl-proxy", "el")
           beacon == LighthouseBeaconNode("beacon", elService, {"mev-boost"})
           validator == LighthouseValidator("validator", "beacon")
           list1 == <<RethEL("el", "use-native-reth" \in flags)>>
           list2 == Only(given, proxy)
           list3 == <<beacon, validator>>
           list4 == MevBoostServices(flags)
<1>1. L1Base(flags) = list1 \o list2 \o list3 \o list4
  BY DEF L1Base
<1>2. IsList(list1) /\ IsList(list2) /\ IsList(list3) /\ IsList(list4)
  <2>1. IsList(list2)
    BY OnlyIsList
  <2>2. IsList(list4)
    BY MevBoostRegular DEF Regular, IsList
  <2> HIDE DEF beacon, validator, list2, list4
  <2>3. IsList(list1) /\ IsList(list3)
    BY DEF IsList, Listed
  <2> QED
    BY <2>1, <2>2, <2>3
<1>3. given => Refers(list2, "cl-proxy", "el", "authrpc")
  <2>1. proxy.name = "cl-proxy" /\ proxy.refs = Connect("el", "authrpc")
    BY DEF ClProxy, NewService
  <2> HIDE DEF proxy
  <2> QED
    BY <2>1, RefersOne DEF Only
<1>4. Refers(list3, "beacon", elService, "authrpc")
  <2> HIDE DEF elService
  <2>1. beacon.name = "beacon" /\ Connect(elService, "authrpc") \subseteq beacon.refs
    BY DEF LighthouseBeaconNode, WithReady, NewService
  <2> HIDE DEF beacon, validator
  <2>2. beacon \in Listed(list3)
    BY DEF Listed
  <2> QED
    BY <2>1, <2>2 DEF Refers, Connect, ConnectAll
<1> HIDE DEF list1, list2, list3, list4
<1> DEFINE list12 == list1 \o list2
           list123 == list12 \o list3
<1>5. IsList(list12) /\ (given => Refers(list12, "cl-proxy", "el", "authrpc"))
  BY <1>2, <1>3, RefersEither, BothListed DEF IsList
<1> HIDE DEF list12
<1>6. /\ IsList(list123)
      /\ given => Refers(list123, "cl-proxy", "el", "authrpc")
      /\ Refers(list123, "beacon", elService, "authrpc")
  <2> HIDE DEF elService
  <2> QED
    BY <1>2, <1>4, <1>5, RefersEither, BothListed DEF IsList
<1> HIDE DEF list123
<1>7. /\ given => Refers(list123 \o list4, "cl-proxy", "el", "authrpc")
      /\ Refers(list123 \o list4, "beacon", elService, "authrpc")
  <2> HIDE DEF elService
  <2> QED
    BY <1>2, <1>6, RefersEither
<1> QED
  BY <1>1, <1>7 DEF list123, list12

\* More services after those change nothing.
LEMMA L1RecipeRefers ==
  ASSUME NEW flags, NEW c, NEW list \in {L1Recipe(flags, c), BuilderNetRecipe(flags, c)}
  PROVE  /\ Refers(list, "beacon", IF "secondary-el" \in flags THEN "cl-proxy" ELSE "el", "authrpc")
         /\ "secondary-el" \in flags => Refers(list, "cl-proxy", "el", "authrpc")
<1> DEFINE given == "secondary-el" \in flags
           elService == IF given THEN "cl-proxy" ELSE "el"
           base == L1Base(flags)
           spam == RunContenderIfEnabled(c)
           hub == <<BuilderHubPostgres("builder-hub-postgres"),
                    BuilderHub("builder-hub", "builder-hub-postgres")>>
           proxy == Only("mock-proxy" \in flags,
                         BuilderHubMockProxy("builder-hub-proxy", "builder-hub"))
           has(l) == /\ IsList(l)
                     /\ Refers(l, "beacon", elService, "authrpc")
                     /\ given => Refers(l, "cl-proxy", "el", "authrpc")
<1>1. has(base)
  BY L1Refers, L1BaseFits DEF Regular, IsList
<1>2. IsList(spam) /\ IsList(hub) /\ IsList(proxy)
  <2>1. IsList(spam)
    BY ContenderRegular DEF Regular, IsList
  <2>2. IsList(hub)
    BY DEF IsList, Listed
  <2>3. IsList(proxy)
    BY OnlyIsList
  <2> QED
    BY <2>1, <2>2, <2>3
<1>3. /\ L1Recipe(flags, c) = base \o spam
      /\ BuilderNetRecipe(flags, c) = base \o spam \o hub \o proxy \o spam
  BY DEF L1Recipe, BuilderNetRecipe, L1Base
<1> HIDE DEF base, spam, hub, proxy, elService, given
<1>4. ASSUME NEW l, has(l), NEW more, IsList(more)
      PROVE  has(l \o more)
  BY <1>4, RefersEither, BothListed DEF IsList
<1> HIDE DEF has
<1>5. has(base \o spam)
  BY <1>1, <1>2, <1>4
<1>6. has(base \o spam \o hub)
  BY <1>2, <1>4, <1>5
<1>7. has(base \o spam \o hub \o proxy)
  BY <1>2, <1>4, <1>6
<1>8. has(base \o spam \o hub \o proxy \o spam)
  BY <1>2, <1>4, <1>7
<1> QED
  BY <1>3, <1>5, <1>8 DEF has, elService, given

\* The way from op-node to the builder, and from a flashblocks node to the stream.
LEMMA OpRefers ==
  ASSUME NEW flags, NEW externalBuilder, NEW c,
         NEW list, list = OpRecipe(flags, externalBuilder, c)
  PROVE  /\ Refers(list, "beacon", "el", "authrpc")
         /\ externalBuilder # "" => Refers(list, "op-node", "rollup-boost", "authrpc")
         /\ externalBuilder # "" /\ "flashblocks" \in flags =>
              /\ Refers(list, "rollup-boost", "bproxy", "authrpc")
              /\ Refers(list, "rollup-boost", "bproxy", "flashblocks")
         /\ externalBuilder \in OwnBuilders /\ "flashblocks" \in flags =>
              Refers(list, "bproxy", externalBuilder, "authrpc")
         /\ externalBuilder \in OwnBuilders /\ "flashblocks" \notin flags
              /\ externalBuilder # "" =>
                Refers(list, "rollup-boost", externalBuilder, "authrpc")
         /\ "flashblocks" \in flags /\ externalBuilder = "op-rbuilder" =>
              Refers(list, "bproxy", "op-rbuilder", "flashblocks")
         /\ "flashblocks" \in flags /\ "enable-websocket-proxy" \in flags =>
              Refers(list, "flashblocks-rpc", "websocket-proxy", "flashblocks")
         /\ "flashblocks" \in flags /\ "enable-websocket-proxy" \notin flags =>
              Refers(list, "flashblocks-rpc", "rollup-boost", "flashblocks")
         /\ "enable-websocket-proxy" \in flags =>
              Refers(list, "websocket-proxy", "rollup-boost", "flashblocks")
<1> DEFINE flashblocks == "flashblocks" \in flags
           proxied     == "enable-websocket-proxy" \in flags
           boosted     == externalBuilder # ""
           builder     == BuilderRefs(externalBuilder)
           stream      == StreamRefs(flags, externalBuilder)
           target      == IF c.target = "" THEN [c EXCEPT !.target = "op-geth"] ELSE c
           boostRefs1  == IF flashblocks THEN Connect("bproxy", "authrpc") ELSE builder
           boostRefs2  == IF flashblocks THEN Connect("bproxy", "flashblocks") ELSE stream
           upstream    == IF proxied THEN "websocket-proxy" ELSE "rollup-boost"
           l2Node      == IF boosted THEN "rollup-boost" ELSE "op-geth"
           el          == RethEL("el", FALSE)
           beacon      == LighthouseBeaconNode("beacon", "el", {})
           validator   == LighthouseValidator("validator", "beacon")
           opGeth      == OpGeth("op-geth")
           bproxy      == BProxy("bproxy", builder, {"flashblocks-rpc"}, TRUE, stream)
           wsProxy     == WebsocketProxy("websocket-proxy", "rollup-boost")
           boost       == RollupBoost("rollup-boost", "op-geth", boostRefs1, flashblocks, boostRefs2)
           rpc         == FlashblocksRPC("flashblocks-rpc", upstream)
           node        == OpNode("op-node", "el", "beacon", l2Node)
           batcher     == OpBatcher("op-batcher", "el", "op-geth", "op-node")
           p1 == <<el, beacon, validator, opGeth>>
           p2 == Builder(flags, externalBuilder)
           p3 == Only(flashblocks, bproxy)
           p4 == Only(proxied, wsProxy)
           p5 == Only(boosted, boost)
           p6 == Only(flashblocks, rpc)
           p7 == <<node, batcher>>
           p8 == RunContenderIfEnabled(target)
<1>0. OpRecipe(flags, externalBuilder, c) = p1 \o p2 \o p3 \o p4 \o p5 \o p6 \o p7 \o p8
  BY DEF OpRecipe, BuilderRefs, StreamRefs
<1> HIDE DEF target
<1>1. /\ beacon.name = "beacon" /\ Connect("el", "authrpc") \subseteq beacon.refs
      /\ wsProxy.name = "websocket-proxy"
      /\ Connect("rollup-boost", "flashblocks") \subseteq wsProxy.refs
  BY DEF LighthouseBeaconNode, WithReady, WebsocketProxy, NewService
<1>2. bproxy.name = "bproxy" /\ builder \subseteq bproxy.refs /\ stream \subseteq bproxy.refs
  <2> HIDE DEF builder, stream
  <2>1. /\ bproxy.name = "bproxy"
        /\ bproxy.refs = builder \cup Connect("flashblocks-rpc", "authrpc") \cup stream
    BY BProxyParts
  <2> QED
    BY <2>1
<1>3. boost.name = "rollup-boost" /\ boostRefs1 \subseteq boost.refs /\ boostRefs2 \subseteq boost.refs
  <2> HIDE DEF boostRefs1, boostRefs2, flashblocks
  <2> QED
    BY DEF RollupBoost, NewService
<1>4. rpc.name = "flashblocks-rpc" /\ Connect(upstream, "flashblocks") \subseteq rpc.refs
  <2> HIDE DEF upstream
  <2> QED
    BY DEF FlashblocksRPC, NewService
<1>5. node.name = "op-node" /\ Connect(l2Node, "authrpc") \subseteq node.refs
  <2> HIDE DEF l2Node
  <2> QED
    BY DEF OpNode, NewService
<1>6. IsList(p2) /\ IsList(p8)
  BY BuilderRegular, ContenderRegular DEF Regular, IsList
<1> HIDE DEF el, beacon, validator, opGeth, bproxy, wsProxy, boost, rpc, node, batcher, p2, p8,
             flashblocks, proxied, boosted, upstream, l2Node, builder, stream,
             boostRefs1, boostRefs2
<1>7. IsList(p1) /\ beacon \in Listed(p1)
  BY DEF IsList, Listed
<1>8. IsList(p7) /\ node \in Listed(p7)
  BY DEF IsList, Listed
<1>10. /\ IsList(p3) /\ (flashblocks => bproxy \in Listed(p3))
       /\ IsList(p4) /\ (proxied => wsProxy \in Listed(p4))
       /\ IsList(p5) /\ (boosted => boost \in Listed(p5))
       /\ IsList(p6) /\ (flashblocks => rpc \in Listed(p6))
  BY OnlyIsList
<1> HIDE DEF p1, p3, p4, p5, p6, p7
<1> DEFINE q2 == p1 \o p2
           q3 == q2 \o p3
           q4 == q3 \o p4
           q5 == q4 \o p5
           q6 == q5 \o p6
           q7 == q6 \o p7
           q8 == q7 \o p8
<1>11. ASSUME NEW list1, IsList(list1), NEW list2, IsList(list2)
       PROVE  IsList(list1 \o list2) /\ Listed(list1 \o list2) = Listed(list1) \cup Listed(list2)
  BY <1>11, BothListed DEF IsList
<1>12. IsList(q2) /\ Listed(q2) = Listed(p1) \cup Listed(p2)
  BY <1>6, <1>7, <1>11
<1> HIDE DEF q2
<1>13. IsList(q3) /\ Listed(q3) = Listed(q2) \cup Listed(p3)
  BY <1>10, <1>11, <1>12
<1> HIDE DEF q3
<1>14. IsList(q4) /\ Listed(q4) = Listed(q3) \cup Listed(p4)
  BY <1>10, <1>11, <1>13
<1> HIDE DEF q4
<1>15. IsList(q5) /\ Listed(q5) = Listed(q4) \cup Listed(p5)
  BY <1>10, <1>11, <1>14
<1> HIDE DEF q5
<1>16. IsList(q6) /\ Listed(q6) = Listed(q5) \cup Listed(p6)
  BY <1>10, <1>11, <1>15
<1> HIDE DEF q6
<1>17. IsList(q7) /\ Listed(q7) = Listed(q6) \cup Listed(p7)
  BY <1>8, <1>11, <1>16
<1> HIDE DEF q7
<1>18. IsList(q8) /\ Listed(q8) = Listed(q7) \cup Listed(p8)
  BY <1>6, <1>11, <1>17
<1>19. OpRecipe(flags, externalBuilder, c) = q8
  BY <1>0 DEF q7, q6, q5, q4, q3, q2
<1> HIDE DEF q8
<1>20. /\ beacon \in Listed(q8) /\ node \in Listed(q8)
       /\ flashblocks => bproxy \in Listed(q8) /\ rpc \in Listed(q8)
       /\ proxied => wsProxy \in Listed(q8)
       /\ boosted => boost \in Listed(q8)
  BY <1>7, <1>8, <1>10, <1>12, <1>13, <1>14, <1>15, <1>16, <1>17, <1>18
<1>21. ASSUME NEW s \in Listed(q8), NEW service, NEW label, Connect(service, label) \subseteq s.refs
       PROVE  Refers(q8, s.name, service, label)
  BY <1>21 DEF Refers, Connect, ConnectAll
<1>22. Refers(q8, "beacon", "el", "authrpc")
  BY <1>1, <1>20, <1>21
<1>23. boosted => Refers(q8, "op-node", "rollup-boost", "authrpc")
  <2>1. ASSUME boosted PROVE Refers(q8, "op-node", "rollup-boost", "authrpc")
    <3>1. l2Node = "rollup-boost"
      BY <2>1 DEF l2Node
    <3> QED
      BY <1>5, <1>20, <1>21, <3>1
  <2> QED
    BY <2>1
<1>24. boosted /\ flashblocks =>
         /\ Refers(q8, "rollup-boost", "bproxy", "authrpc")
         /\ Refers(q8, "rollup-boost", "bproxy", "flashblocks")
  <2>1. ASSUME boosted, flashblocks
        PROVE  /\ Refers(q8, "rollup-boost", "bproxy", "authrpc")
               /\ Refers(q8, "rollup-boost", "bproxy", "flashblocks")
    <3>1. /\ Connect("bproxy", "authrpc") \subseteq boost.refs
          /\ Connect("bproxy", "flashblocks") \subseteq boost.refs
      BY <1>3, <2>1 DEF boostRefs1, boostRefs2
    <3> QED
      BY <1>3, <1>20, <1>21, <2>1, <3>1
  <2> QED
    BY <2>1
<1>25. externalBuilder \in OwnBuilders /\ flashblocks =>
         Refers(q8, "bproxy", externalBuilder, "authrpc")
  <2>1. ASSUME externalBuilder \in OwnBuilders, flashblocks
        PROVE  Refers(q8, "bproxy", externalBuilder, "authrpc")
    <3>1. Connect(externalBuilder, "authrpc") \subseteq bproxy.refs
      BY <1>2, <2>1 DEF builder, BuilderRefs, When
    <3> QED
      BY <1>2, <1>20, <1>21, <2>1, <3>1
  <2> QED
    BY <2>1
<1>26. externalBuilder \in OwnBuilders /\ ~flashblocks /\ boosted =>
         Refers(q8, "rollup-boost", externalBuilder, "authrpc")
  <2>1. ASSUME externalBuilder \in OwnBuilders, ~flashblocks, boosted
        PROVE  Refers(q8, "rollup-boost", externalBuilder, "authrpc")
    <3>1. Connect(externalBuilder, "authrpc") \subseteq boost.refs
      BY <1>3, <2>1 DEF boostRefs1, builder, BuilderRefs, When
    <3> QED
      BY <1>3, <1>20, <1>21, <2>1, <3>1
  <2> QED
    BY <2>1
<1>27. flashblocks /\ externalBuilder = "op-rbuilder" =>
         Refers(q8, "bproxy", "op-rbuilder", "flashblocks")
  <2>1. ASSUME flashblocks, externalBuilder = "op-rbuilder"
        PROVE  Refers(q8, "bproxy", "op-rbuilder", "flashblocks")
    <3>1. Connect("op-rbuilder", "flashblocks") \subseteq bproxy.refs
      BY <1>2, <2>1 DEF stream, StreamRefs, When, flashblocks
    <3> QED
      BY <1>2, <1>20, <1>21, <2>1, <3>1
  <2> QED
    BY <2>1
<1>28. /\ flashblocks /\ proxied => Refers(q8, "flashblocks-rpc", "websocket-proxy", "flashblocks")
       /\ flashblocks /\ ~proxied => Refers(q8, "flashblocks-rpc", "rollup-boost", "flashblocks")
  <2>1. flashblocks => Refers(q8, "flashblocks-rpc", upstream, "flashblocks")
    BY <1>4, <1>20, <1>21
  <2> QED
    BY <2>1 DEF upstream
<1>29. proxied => Refers(q8, "websocket-proxy", "rollup-boost", "flashblocks")
  BY <1>1, <1>20, <1>21
<1> QED
  BY <1>19, <1>22, <1>23, <1>24, <1>25, <1>26, <1>27, <1>28, <1>29
     DEF flashblocks, proxied, boosted

LEMMA Stay ==
  ASSUME NEW names
  PROVE  names \subseteq Near(names)
  BY DEF Near

LEMMA Hop ==
  ASSUME NEW names, NEW name \in names, NEW service, NEW label,
         Refers(services, name, service, label)
  PROVE  service \in Near(names)
<1>1. PICK i \in DOMAIN services :
        services[i].name = name /\ [service |-> service, label |-> label] \in services[i].refs
  BY DEF Refers, Listed
<1> QED
  BY <1>1 DEF Near

\* Three hops.
LEMMA Reached ==
  ASSUME NEW from, NEW to,
         \/ \E l1 : Refers(services, from, to, l1)
         \/ \E s1, l1, l2 : Refers(services, from, s1, l1) /\ Refers(services, s1, to, l2)
         \/ \E s1, s2, l1, l2, l3 :
              /\ Refers(services, from, s1, l1)
              /\ Refers(services, s1, s2, l2)
              /\ Refers(services, s2, to, l3)
  PROVE  to \in ReachedFrom(from)
<1>1. from \in {from} /\ from \in Near({from}) /\ from \in Near(Near({from}))
  BY Stay
<1>2. CASE \E l1 : Refers(services, from, to, l1)
  BY <1>1, <1>2, Hop DEF ReachedFrom
<1>3. CASE \E s1, l1, l2 : Refers(services, from, s1, l1) /\ Refers(services, s1, to, l2)
  <2>1. PICK s1, l1, l2 : Refers(services, from, s1, l1) /\ Refers(services, s1, to, l2)
    BY <1>3
  <2>2. s1 \in Near(Near({from}))
    BY <1>1, <2>1, Hop
  <2> QED
    BY <2>1, <2>2, Hop DEF ReachedFrom
<1>4. CASE \E s1, s2, l1, l2, l3 :
             /\ Refers(services, from, s1, l1)
             /\ Refers(services, s1, s2, l2)
             /\ Refers(services, s2, to, l3)
  <2>1. PICK s1, s2, l1, l2, l3 :
          /\ Refers(services, from, s1, l1)
          /\ Refers(services, s1, s2, l2)
          /\ Refers(services, s2, to, l3)
    BY <1>4
  <2>2. s1 \in Near({from})
    BY <1>1, <2>1, Hop
  <2>3. s2 \in Near(Near({from}))
    BY <2>1, <2>2, Hop
  <2> QED
    BY <2>1, <2>3, Hop DEF ReachedFrom
<1> QED
  BY <1>2, <1>3, <1>4

LEMMA RequestReaches ==
  ASSUME FromRecipes, request \in Requests, services = Apply(request), Fits
  PROVE  /\ "el" \in ReachedFrom("beacon")
         /\ "secondary-el" \in request.flags => "cl-proxy" \in ReachedFrom("beacon")
         /\ request.externalBuilder # "" => "rollup-boost" \in ReachedFrom("op-node")
         /\ request.externalBuilder \in OwnBuilders =>
              request.externalBuilder \in ReachedFrom("op-node")
         /\ "flashblocks" \in request.flags => "bproxy" \in ReachedFrom("op-node")
         /\ "flashblocks" \in request.flags /\ request.externalBuilder = "op-rbuilder" =>
              \E i \in DOMAIN services :
                /\ services[i].name \in ReachedFrom("flashblocks-rpc")
                /\ [service |-> "op-rbuilder", label |-> "flashblocks"] \in services[i].refs
<1> DEFINE flags == request.flags
           c == request.contender
           builder == request.externalBuilder
<1>1. /\ services = ApplyRecipeOf(request)
      /\ request.recipe \in {"l1", "buildernet", "opstack"}
      /\ flags \subseteq FlagsOf(request.recipe)
      /\ request.recipe # "opstack" => builder = ""
  BY DEF FromRecipes
<1>2. "" \notin OwnBuilders /\ "op-rbuilder" # ""
  BY DEF OwnBuilders
<1>3. CASE request.recipe \in {"l1", "buildernet"}
  <2>1. services \in {L1Recipe(flags, c), BuilderNetRecipe(flags, c)}
    BY <1>1, <1>3 DEF ApplyRecipeOf
  <2>2. "flashblocks" \notin flags /\ builder = ""
    BY <1>1, <1>3 DEF FlagsOf, L1Flags
  <2>3. CASE "secondary-el" \in flags
    <3>1. /\ Refers(services, "beacon", "cl-proxy", "authrpc")
          /\ Refers(services, "cl-proxy", "el", "authrpc")
      BY <2>1, <2>3, L1RecipeRefers
    <3> QED
      BY <1>2, <2>2, <3>1, Reached
  <2>4. CASE "secondary-el" \notin flags
    <3>1. Refers(services, "beacon", "el", "authrpc")
      BY <2>1, <2>4, L1RecipeRefers
    <3> QED
      BY <1>2, <2>2, <2>4, <3>1, Reached
  <2> QED
    BY <2>3, <2>4
<1>4. CASE request.recipe = "opstack"
  <2> DEFINE flashblocks == "flashblocks" \in flags
             proxied == "enable-websocket-proxy" \in flags
             boosted == builder # ""
  <2>1. services = OpRecipe(flags, builder, c)
    BY <1>1, <1>4 DEF ApplyRecipeOf
  <2>2. /\ Refers(services, "beacon", "el", "authrpc")
        /\ boosted => Refers(services, "op-node", "rollup-boost", "authrpc")
        /\ boosted /\ flashblocks =>
             /\ Refers(services, "rollup-boost", "bproxy", "authrpc")
             /\ Refers(services, "rollup-boost", "bproxy", "flashblocks")
        /\ builder \in OwnBuilders /\ flashblocks =>
             Refers(services, "bproxy", builder, "authrpc")
        /\ builder \in OwnBuilders /\ ~flashblocks /\ boosted =>
             Refers(services, "rollup-boost", builder, "authrpc")
        /\ flashblocks /\ builder = "op-rbuilder" =>
             Refers(services, "bproxy", "op-rbuilder", "flashblocks")
        /\ flashblocks /\ proxied =>
             Refers(services, "flashblocks-rpc", "websocket-proxy", "flashblocks")
        /\ flashblocks /\ ~proxied =>
             Refers(services, "flashblocks-rpc", "rollup-boost", "flashblocks")
        /\ proxied => Refers(services, "websocket-proxy", "rollup-boost", "flashblocks")
    BY <2>1, OpRefers
  <2>3. /\ flashblocks => boosted
        /\ "secondary-el" \notin flags
        /\ builder \in OwnBuilders => boosted
    BY <1>1, <1>2, <1>4 DEF Fits, FlagsOf
  <2> HIDE DEF flashblocks, proxied, boosted, flags, builder
  <2>4. "el" \in ReachedFrom("beacon")
    BY <2>2, Reached
  <2>5. boosted => "rollup-boost" \in ReachedFrom("op-node")
    BY <2>2, Reached
  <2>6. flashblocks => "bproxy" \in ReachedFrom("op-node")
    BY <2>2, <2>3, Reached
  <2>7. builder \in OwnBuilders => builder \in ReachedFrom("op-node")
    <3>1. CASE flashblocks
      BY <2>2, <2>3, <3>1, Reached
    <3>2. CASE ~flashblocks
      BY <2>2, <2>3, <3>2, Reached
    <3> QED
      BY <3>1, <3>2
  <2>8. ASSUME flashblocks, builder = "op-rbuilder"
        PROVE  \E i \in DOMAIN services :
                 /\ services[i].name \in ReachedFrom("flashblocks-rpc")
                 /\ [service |-> "op-rbuilder", label |-> "flashblocks"] \in services[i].refs
    <3>1. "bproxy" \in ReachedFrom("flashblocks-rpc")
      <4>1. CASE proxied
        BY <2>2, <2>3, <2>8, <4>1, Reached
      <4>2. CASE ~proxied
        BY <2>2, <2>3, <2>8, <4>2, Reached
      <4> QED
        BY <4>1, <4>2
    <3>2. Refers(services, "bproxy", "op-rbuilder", "flashblocks")
      BY <2>2, <2>8
    <3> QED
      BY <3>1, <3>2 DEF Refers, Listed
  <2> QED
    BY <2>3, <2>4, <2>5, <2>6, <2>7, <2>8 DEF flashblocks, proxied, boosted, flags, builder
<1> QED
  BY <1>1, <1>3, <1>4

\* Whatever flags pass Validate, the node that drives the chain reaches the builder they
\* name, and a flashblocks node the stream (OpRecipe.Apply, L1Recipe.Apply).
THEOREM BlocksAreBuilt ==
  ASSUME FromRecipes
  PROVE  Spec => []BuilderReached
<1>1. ASSUME Inv, Built, BuilderReached, [Next]_vars
      PROVE  BuilderReached'
  <2>1. request' = request /\ request \in Requests
    BY <1>1 DEF Inv, Requested, Next, vars, Goto, ApplyRecipe, Validate,
           CreatePrometheusServices, NewLocalRunner, generateDockerCompose, ValidateFails,
           WithoutPrometheus, DryRun, OverrideUnknown, OverridesKnown, DownloadFails,
           NewLocalRunnerFails, ImageMissing, ComposeUp, ComposeRefuses, RunOnHost
  <2>2. CASE Validate
    <3>1. services' = services /\ services = Apply(request) /\ Valid
      BY <1>1, <2>2 DEF Validate, Built
    <3>2. Fits
      BY <2>1, <3>1, RequestFits
    <3>3. \A name : ReachedFrom(name)' = ReachedFrom(name)
      BY <3>1 DEF ReachedFrom, Near
    <3> QED
      BY <2>1, <3>1, <3>2, <3>3, RequestReaches DEF BuilderReached
  <2>3. CASE UNCHANGED vars
    <3>1. UNCHANGED <<pc, request, services>>
      BY <2>3 DEF vars
    <3>2. \A name : ReachedFrom(name)' = ReachedFrom(name)
      BY <3>1 DEF ReachedFrom, Near
    <3> QED
      BY <1>1, <3>1, <3>2 DEF BuilderReached
  <2>4. CASE ~(Validate \/ UNCHANGED vars)
    <3>1. pc' # "prometheus"
      BY <1>1, <2>4
         DEF Next, Goto, ApplyRecipe, CreatePrometheusServices, NewLocalRunner,
             generateDockerCompose, ValidateFails, WithoutPrometheus, DryRun, OverrideUnknown,
             OverridesKnown, DownloadFails, NewLocalRunnerFails, ImageMissing, ComposeUp,
             ComposeRefuses, RunOnHost
    <3> QED
      BY <3>1 DEF BuilderReached
  <2> QED
    BY <2>2, <2>3, <2>4
<1>2. Init => Built /\ RejectedIf /\ BuilderReached
  BY DEF Init, Built, RejectedIf, Decided, BuilderReached
<1> QED
  BY <1>1, <1>2, RejectedStep, Invariance, PTL DEF Spec
=============================================================================
