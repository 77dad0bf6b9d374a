----------------------------- MODULE Publishing -----------------------------
(***************************************************************************)
(* A release from its tag to its announcement, as far as others can see    *)
(* it: the setup pipes, the pipes that prepare manifests and images, every *)
(* publisher and every announcer, steps that fail, a program that is       *)
(* stopped, and the run after that.                                        *)
(***************************************************************************)
EXTENDS TapDelivery, ImageDelivery, UploadDelivery

(* It is the release command that publishes. Repos are the repositories    *)
(* that taps name, to be reached by git or by the API; krew and scoop do   *)
(* not look whether they name one, and the forge refuses what has no name. *)
(* An artifact has the fields of every artifact; images come only from the *)
(* pipes here, and those in the registry from a run before, which is run 0.*)
ASSUME PublishingAssumption ==
  \A s \in Scenarios :
    /\ s.world.command = "release" /\ \A x \in s.registry : x[2][3] = 0
    /\ \A a \in s.built : DOMAIN a = DOMAIN Blank /\ a.type \notin InDigests \cup {"PublishableDockerImage"}
    /\ \A k \in Kinds : \A i \in DOMAIN s.cfg[k] :
         LET repository == s.cfg[k][i].repository IN
         /\ {repository.name, repository.git} \subseteq Repos \cup {""}
         /\ k \in {"krew", "scoop"} => repository.name # "" \/ repository.git # ""

Step == \E j \in todo : Turn(j) /\ (TapStep(j) \/ ImageStep(j) \/ UploadStep(j))
Over == result = "ok" \/ (Ended /\ run = MaxRuns)
Next ==
  \/ SetUp \/ Begin \/ Step \/ Finish \/ Crash \/ Again
  \/ Over /\ UNCHANGED vars
Spec == Init /\ [][Next]_vars
-----------------------------------------------------------------------------
Trees == UNION {{remote[r][b] : b \in DOMAIN remote[r]} : r \in Repos}
Committed == UNION Trees
TapsOf == UNION {{<<k, cfg[k][i]>> : i \in DOMAIN cfg[k]} : k \in Kinds}
FilesOf(x) == {FileIn(x[1], x[2], part) : part \in Parts(x[1], x[2])}

(* What a tap in any repository lists can be downloaded: the archives it   *)
(* lists are assets of the release, in whatever order publishers fail and  *)
(* are run again. A release that is disabled, uploads nothing or is        *)
(* filtered by ids is left out: it does not have what the taps list.       *)
RefersToReleased ==
  ~cfg.release.disable /\ ~cfg.release.skipUpload /\ cfg.release.ids = {} =>
    \A f \in Committed : \A e \in f[2] : e[2] \in released

(* Every file of a manifest is on the branch a pull request is opened from.*)
PullRequestIsWhole ==
  \A p \in pulls :
    /\ p.head \in DOMAIN remote[p.repo]
    /\ p.unit \subseteq {f[1] : f \in remote[p.repo][p.head]}

(* No tap offers two archives for one platform. krew, which does not look, *)
(* is left out.                                                            *)
OnePerPlatform ==
  \A f \in Committed :
    f[1][1] # "krew" => \A e, g \in f[2] : e[1] = g[1] => e = g

(* PKGBUILD and .SRCINFO, which the AUR reads apart, tell the same.        *)
AurFilesAgree ==
  \A tree \in Trees : \A f \in tree :
    f[1][1] \in {"aur", "aursources"} =>
      \A part \in {"PKGBUILD", ".SRCINFO"} : <<<<f[1][1], f[1][2], part>>, f[2]>> \in tree

(* A tap that is not to be uploaded, always or for a pre-release, leaves   *)
(* nothing in any repository.                                              *)
SkippedLeavesNothing ==
  \A x \in TapsOf :
    x[2].skipUpload = "true" \/ (x[2].skipUpload = "auto" /\ Prerelease(world)) =>
      \A f \in Committed :
        f[1] \in FilesOf(x) => \E y \in TapsOf \ {x} : f[1] \in FilesOf(y)

(* What is not validated - a snapshot, a dirty tree, a tag that is not at  *)
(* HEAD - and what is not to be published leaves no trace outside: no      *)
(* commit, pull request, file, app, asset, post, image or signature. What  *)
(* was in the registry before is of run 0.                                 *)
Traces ==
  \/ Committed # {} \/ pulls # {} \/ sent # {} \/ apps # {} \/ released # {} \/ announced # {}
  \/ signatures # {} \/ \E x \in registry : x[2][3] # 0
Validated ==
  /\ ~impliedSnapshot(world) /\ "publish" \notin world.skips
  /\ "validate" \in world.skips \/ (~world.dirty /\ AtHead(world, getTag(world)))
OnlyValidatedLeaves == Traces => Validated

(* An image is written to the digests file and signed with the digest the  *)
(* registry has it under at that time.                                     *)
AttestsWhatIsThere ==
  [][(digests' \ digests) \cup (signatures' \ signatures) \subseteq registry]_vars

(* A Custom App is created once for an artifact, however the requests to   *)
(* create it fail.                                                         *)
NoDuplicateApps == \A x \in apps : x.n = 0

(* A manifest joins an image as this run pushed it, and only an image that *)
(* this run does not push - withheld by skip_push, or none it has built -  *)
(* as something else: as whatever the registry has under the name, which   *)
(* may be what an earlier run left there.                                  *)
ManifestJoinsThisRun ==
  \A m \in OfType("DockerManifest") : \A x \in m.of :
    \/ x[2] # NoDigest /\ x[2][3] = run
    \/ \A a \in OfType("PublishableDockerImage") :
         a.name = x[1] => SkipsUpload(cfg.dockers[a.format], ctx.prerelease)

(* In the context of a dockerv2 build no two files have one place, even    *)
(* for two levels of amd64. arm64, whose levels have no place of their     *)
(* own, is left out.                                                       *)
ContextKeepsApart ==
  \A i \in DOMAIN cfg.dockersV2 :
    \A e, f \in makeContext(cfg.dockersV2[i]) :
      e[1] = f[1] /\ e[2] = f[2] => e = f \/ e[1][2] = "arm64"

(* After a run that failed or was stopped anywhere, a second one in which  *)
(* nothing fails gets through what the first has left behind: branches,    *)
(* files, pull requests, images, and assets where they are to be replaced  *)
(* or where the forge takes them twice. Otherwise assets are refused; so   *)
(* is what repositories reached by git and the MCP registry have, and a    *)
(* manifest of images that nobody pushes.                                  *)
SecondRunGetsThrough ==
  run > 1 /\ result = "err" /\ cause # "config" =>
    \/ cause = "assets" /\ ~cfg.release.replaceExistingArtifacts /\ ctx.forge # "gitea"
    \/ cfg.mcp # <<>> \/ \E x \in TapsOf : x[2].repository.git # ""
    \/ \E i \in DOMAIN cfg.dockerManifests :
         \E image \in cfg.dockerManifests[i].images : \A x \in registry : x[1] # image

(* A file is on the branch the repository of its tap names.                *)
WhereConfigured ==
  \A r \in Repos : \A b \in DOMAIN remote[r] : \A f \in remote[r][b] :
    \E x \in TapsOf :
      f[1] \in FilesOf(x) /\ (b = Target(x[1], x[2]).branch \/ (b = "main" /\ Target(x[1], x[2]).branch = ""))

=============================================================================
