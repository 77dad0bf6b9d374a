------------------------------ MODULE Delivery ------------------------------
(***************************************************************************)
(* How a release gets out: what the pipes and the publishers work through, *)
(* what survives them when a run ends, and what the next run finds.        *)
(*                                                                         *)
(* A stage turns its configurations into jobs. Some stages do theirs one   *)
(* after the other and stop at the first that fails; some start them all   *)
(* and fail at the end. What a failed publisher does to the others is      *)
(* publish.Pipe's: some end the run, some let the others publish first.    *)
(***************************************************************************)
EXTENDS Images, Uploads, Setup, PipelineOrder

CONSTANTS
  Scenarios,    \* records of cfg, built, tools and world to start from
  Faulty,       \* the steps that may fail for a reason outside the model
  MaxFaults,    \* bound: how many of them do, in the first run
  MaxRuns,      \* bound: how often the release is run
  Repos         \* the repositories taps are committed to

Config == INSTANCE Configuration
ASSUME DeliveryAssumption ==
  /\ MaxFaults \in Nat /\ MaxRuns \in Nat \ {0} /\ \A step \in Faulty : step \in STRING
  /\ \A s \in Scenarios :
       /\ s.cfg \in Config!Project
       /\ IsFiniteSet(s.built) /\ \A a \in s.built : a.type \in Types

VARIABLES
  world,        \* flags, environment and git repository: see Setup
  ctx,          \* what the setup pipes found out of it
  built,        \* the artifacts of the pipes before
  manifests,    \* the artifacts of the package managers
  files,        \* the manifests in dist: path to the archives they list
  stage, at,    \* the stage at work, and how many configurations it began
  todo,         \* its jobs under way
  failed,       \* one of them failed
  memo,         \* a publisher failed that lets the others go on
  result,       \* of the run
  cause,        \* of its first failure: "config", "state", "assets", "fault"
  faults, run,
  clones,       \* checkouts under dist/git
  remote,       \* repository to branch to pairs of path and content
  pulls,        \* pull requests
  registry,     \* images in the container registry, and their digests
  sent,         \* what other places have taken
  apps,         \* Custom Apps created at Iru
  released,     \* the assets of the release, by path
  digests, signatures, announced

place == <<stage, at, todo, failed>>
outcome == <<memo, result, cause, faults>>
dist == <<manifests, files, clones>>
forges == <<remote, pulls>>
stores == <<registry, sent, apps>>
records == <<released, digests, signatures, announced>>
fixed == <<cfg, tools, world, ctx, built, run>>
vars == <<fixed, arts, place, outcome, dist, forges, stores, records>>

Kinds == {"aur", "aursources", "nix", "winget", "brew", "cask", "krew", "scoop", "chocolatey"}
Running ==
  <<"aur", "aursources", "nix", "winget", "brew", "cask", "krew", "scoop", "chocolatey",
    "docker", "dockerv2.Snapshot", "ko">>
ASSUME RunningAssumption ==
  Running = SelectSeq(ReleasePipeline, LAMBDA p : p \in Kinds \cup {"docker", "dockerv2.Snapshot", "ko"})
Stages ==
  <<<<"run", "setup">>>> \o [i \in DOMAIN Running |-> <<"run", Running[i]>>]
  \o [i \in DOMAIN PublishPipeline |-> <<"publish", PublishPipeline[i]>>]
  \o <<<<"run", "metadata.Artifacts">>, <<"run", "announce">>>>
Ended == result # "none"
Now == Stages[stage]
Pipe == Now[2]
Publishes == Now[1] = "publish"
Setting == Pipe = "setup"

Field(p) ==
  CASE p = "docker" -> "dockers" [] p = "docker.Manifest" -> "dockerManifests"
    [] p \in {"dockerv2.Publish", "dockerv2.Snapshot"} -> "dockersV2" [] p = "ko" -> "kos"
    [] p = "sign.Docker" -> "dockerSigns" [] OTHER -> p
Configured == cfg[Field(Pipe)]

(* A pipe's own Skip: --skip, or a tool it cannot do without. The keys are *)
(* those of internal/skips; some pipes have none.                          *)
SkipKeyOf(p) ==
  CASE p \in {"brew", "cask"} -> "homebrew" [] p = "aursources" -> "aur-source"
    [] p \in {"docker.Manifest", "dockerv2.Publish", "dockerv2.Snapshot", "dockerdigest"} -> "docker"
    [] p = "sign.Docker" -> "sign" [] OTHER -> p
Unskippable == {"krew", "blob", "upload", "artifactory", "release", "milestone", "custompublishers"}
Skipped ==
  \/ Pipe \notin Unskippable /\ SkipKeyOf(Pipe) \in ctx.skips
  \/ Publishes /\ "publish" \in ctx.skips
  \/ Pipe = "dockerv2.Snapshot" /\ ~ctx.snapshot
  \/ Pipe = "ko" /\ ~Publishes /\ ~ctx.snapshot
  \/ Pipe = "nix" /\ "nix-hash" \notin tools
  \/ Pipe = "release" /\ cfg.release.disable
  \/ Pipe = "dockerdigest" /\ cfg.dockerDigest.disable
-----------------------------------------------------------------------------
Job(i, what, phase) == [at |-> i, what |-> what, left |-> {}, phase |-> phase]
Alone(i) == {Job(i, {}, "start")}
Each(i, things) == {Job(i, x, "start") : x \in things}
OfType(t) == {a \in arts : a.type = t}

(* Stages that start everything they have, and go on when a job fails.     *)
AllAtOnce ==
  \/ Pipe \in {"blob", "iru", "docker.Manifest", "dockerv2.Publish", "dockerv2.Snapshot", "ko",
               "sign.Docker", "announce"}
  \/ Pipe = "docker" /\ ~Publishes
GoesOnAnyway == AllAtOnce \/ Pipe \in {"upload", "artifactory", "custompublishers"}
FromArtifacts == Publishes /\ Pipe \in Kinds \cup {"docker", "snapcraft"}

Number ==
  IF Skipped THEN 0
  ELSE IF FromArtifacts \/ Pipe \in {"release", "dockerdigest", "metadata.Artifacts"} THEN 1
  ELSE Len(Configured)
JobsOf(i) ==
  IF ~Publishes THEN Alone(i) ELSE
  CASE Pipe \in Kinds -> Each(i, Units(manifests, Pipe))
    [] Pipe = "docker" -> Each(i, OfType("PublishableDockerImage"))
    [] Pipe = "snapcraft" -> Each(i, OfType("PublishableSnapcraft"))
    [] Pipe = "blob" -> Each(i, blobFiles(Configured[i]))
    [] Pipe \in {"upload", "artifactory"} ->
         IF CheckConfig(Configured[i]) THEN Each(i, uploadWithFilter(Configured[i])) ELSE {}
    [] Pipe = "custompublishers" -> Each(i, executePublisher(Configured[i]))
    [] Pipe = "iru" ->
         IF iruErrs(Configured[i]) THEN {Job(i, Blank, "refused")} ELSE Each(i, CustomApps(Configured[i]))
    [] OTHER -> Alone(i)

Begin ==
  /\ ~Ended /\ ~Setting /\ todo = {} /\ ~failed /\ at < Number
  /\ at' = IF AllAtOnce THEN Number ELSE at + 1
  /\ todo' = UNION {JobsOf(i) : i \in (at + 1)..at'}
  /\ UNCHANGED <<fixed, arts, stage, failed, outcome, dist, forges, stores, records>>
-----------------------------------------------------------------------------
(* Manifests are published in the order of their configurations, but for   *)
(* those that are grouped by id.                                           *)
Sorted(j) ==
  Publishes /\ Pipe \in Kinds \ {"winget", "aur", "aursources"} =>
    \A k \in todo : First(j.what).at <= First(k.what).at
Turn(j) ==
  /\ ~Ended /\ ~Setting
  /\ GoesOnAnyway \/ (Sorted(j) /\ \A k \in todo : k.phase # "start" => k = j)

Done(j) == todo' = todo \ {j} /\ UNCHANGED <<stage, at, failed, outcome>>
Proceeds(j, left, phase) ==
  /\ todo' = (todo \ {j}) \cup {[j EXCEPT !.left = left, !.phase = phase]}
  /\ UNCHANGED <<stage, at, failed, outcome>>
Because(why) == cause' = IF cause = "none" THEN why ELSE cause
Breaks(j, why) ==
  /\ todo' = IF GoesOnAnyway THEN todo \ {j} ELSE {}
  /\ failed' = TRUE /\ Because(why)
  /\ UNCHANGED <<stage, at, memo, result>>
Refused(j, why) == Breaks(j, why) /\ UNCHANGED faults
Unlucky(step) == step \in Faulty /\ faults > 0 /\ faults' = faults - 1
Unfortunate(j, step) == Unlucky(step) /\ Breaks(j, "fault")
(* A failure the code puts up with.                                        *)
Shrugged(j, step) ==
  Unlucky(step) /\ todo' = todo \ {j} /\ UNCHANGED <<stage, at, failed, memo, result, cause>>

GoOn ==
  /\ stage' = stage + 1 /\ at' = 0 /\ todo' = {} /\ failed' = FALSE
  /\ UNCHANGED <<result, cause, faults>>
End(r) ==
  result' = r /\ todo' = {} /\ UNCHANGED <<stage, at, failed, memo, cause, faults>>

(* publish.Pipe: the memo is the error of the pipe when it is through.     *)
ContinuesOnError == Publishes /\ Pipe \in ContinuablePublishers /\ ~ctx.failFast
LastPublisher == Now = <<"publish", PublishPipeline[Len(PublishPipeline)]>>
Finish ==
  /\ ~Ended /\ ~Setting /\ todo = {} /\ (failed \/ at = Number)
  /\ IF failed /\ ContinuesOnError THEN memo' = TRUE /\ GoOn
     ELSE IF failed \/ (memo /\ LastPublisher) THEN End("err")
     ELSE IF stage = Len(Stages) THEN End("ok")
     ELSE GoOn /\ UNCHANGED memo
  /\ UNCHANGED <<fixed, arts, dist, forges, stores, records>>
-----------------------------------------------------------------------------
(* The setup pipes: dist is emptied with --clean, the defaults of all      *)
(* configurations are set, and the metadata is written.                    *)
Each_(seq, Default(_)) == [i \in DOMAIN seq |-> Default(seq[i])]
Defaults(c, env) ==
  [f \in DOMAIN c |->
     CASE f \in Kinds -> LET Default(t) == WithDefaults(f, t) IN Each_(c[f], Default)
       [] f = "dockers" -> Each_(c[f], dockerDefault) [] f = "dockersV2" -> Each_(c[f], dockerV2Default)
       [] f = "kos" -> LET Default(k) == koDefault(k, env) IN Each_(c[f], Default)
       [] f = "dockerSigns" -> Each_(c[f], dockerSignDefault)
       [] f \in {"upload", "artifactory"} -> Each_(c[f], uploadDefault)
       [] f = "mcp" -> Each_(c[f], mcpDefault) [] f = "milestone" -> Each_(c[f], milestoneDefault)
       [] OTHER -> c[f]]
DefaultErrs(c) == ~ValidImages(c) \/ \E i \in DOMAIN c.blob : ~validBlob(c.blob[i])

NotSetUp == [skips |-> {}]
Used == run > 1
SetUp ==
  /\ ~Ended /\ Setting
  /\ LET c == Defaults(cfg, world.koRepo) IN
     IF SetupErrs(world, c, Used) \/ DefaultErrs(c)
       THEN /\ result' = "err" /\ cause' = "config"
            /\ UNCHANGED <<cfg, tools, world, ctx, built, run, place, memo, faults>>
       ELSE /\ cfg' = c /\ ctx' = Context(world, c) /\ stage' = stage + 1
            /\ UNCHANGED <<tools, world, built, run, at, todo, failed, outcome>>
  /\ IF world.clean THEN files' = <<>> /\ clones' = {} /\ digests' = {}
     ELSE UNCHANGED <<files, clones, digests>>
  /\ arts' = arts \cup {writeMetadata}
  /\ UNCHANGED <<manifests, forges, stores, released, signatures, announced>>

(* Someone stops the program; someone runs it again, on the same machine.  *)
Crash ==
  /\ ~Ended /\ ~Setting /\ Unlucky("crash") /\ result' = "killed" /\ Because("fault")
  /\ UNCHANGED <<fixed, arts, place, memo, dist, forges, stores, records>>
Again ==
  /\ result \in {"err", "killed"} /\ run < MaxRuns /\ run' = run + 1
  /\ stage' = 1 /\ at' = 0 /\ todo' = {} /\ failed' = FALSE
  /\ memo' = FALSE /\ result' = "none" /\ cause' = "none" /\ faults' = 0
  /\ arts' = built /\ manifests' = {} /\ ctx' = NotSetUp
  /\ UNCHANGED <<cfg, tools, world, built, files, clones, forges, stores, records>>

Init ==
  /\ \E s \in Scenarios : /\ cfg = s.cfg /\ built = s.built /\ tools = s.tools
                          /\ world = s.world /\ registry = s.registry
  /\ arts = built /\ ctx = NotSetUp
  /\ manifests = {} /\ files = <<>> /\ clones = {}
  /\ stage = 1 /\ at = 0 /\ todo = {} /\ failed = FALSE
  /\ memo = FALSE /\ result = "none" /\ cause = "none" /\ faults = MaxFaults /\ run = 1
  /\ remote = [r \in Repos |-> [b \in {"main"} |-> {}]] /\ pulls = {}
  /\ sent = {} /\ apps = {} /\ released = {}
  /\ digests = {} /\ signatures = {} /\ announced = {}
=============================================================================
