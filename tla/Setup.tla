------------------------------- MODULE Setup -------------------------------
(***************************************************************************)
(* What a command finds out before it builds: its flags (cmd/release.go    *)
(* and cmd/build.go), tokens (pipe/env), tags (pipe/git, pipe/semver), the *)
(* target of a partial build, and the checks that end it early.            *)
(*                                                                         *)
(* A world is a record of the flags, the environment and the repository.   *)
(* The history is linear: a sequence of the tags at each commit, in the    *)
(* order git.tag_sort gives, the last being HEAD. A tag is a record of its *)
(* name, whether it is semantic and whether that is a pre-release.         *)
(***************************************************************************)
EXTENDS Naturals, Sequences, FiniteSets

Forges == {"github", "gitlab", "gitea"}
Untagged == [name |-> "", semver |-> FALSE, pre |-> FALSE]
fakeTag == [name |-> "v0.0.0", semver |-> TRUE, pre |-> FALSE]
-----------------------------------------------------------------------------
impliedSnapshot(w) == w.snapshot \/ (w.autoSnapshot /\ w.dirty)

setupReleaseContext_Publishes(w) == w.skips
setupReleaseContext(w) ==
  LET implied == IF impliedSnapshot(w) THEN {"publish", "announce", "validate"} ELSE {} IN
  w.skips \cup implied \cup (IF "publish" \in w.skips \cup implied THEN {"announce"} ELSE {})
setupBuildContext(w) == w.skips \cup (IF impliedSnapshot(w) THEN {"validate"} ELSE {})
Skips(w) == IF w.command = "build" THEN setupBuildContext(w) ELSE setupReleaseContext(w)
SkipTokenCheck(w) == w.command = "build"

(* goreleaser build --id keeps some builds; --output needs a single one.   *)
setupBuildID(w, builds) ==
  IF w.ids = {} \/ Len(builds) < 2 THEN builds ELSE SelectSeq(builds, LAMBDA b : b.id \in w.ids)
errOutputSingleBuild(w, builds) ==
  w.output /\ w.single /\ w.ids # {} /\ Len(setupBuildID(w, builds)) > 1
setupPipeline(w, builds) == w.output /\ w.single /\ Len(setupBuildID(w, builds)) = 1
-----------------------------------------------------------------------------
(* env: a token for one forge, unless one is forced.                       *)
Considered(w) == IF w.force \in Forges THEN {w.force} ELSE Forges
Tokens(w) == w.tokens \cap Considered(w)
ErrMultipleTokens(w) == w.force \notin Forges /\ Cardinality(w.tokens) > 1
checkErrors(w, c) ==
  /\ ~SkipTokenCheck(w) /\ "publish" \notin Skips(w) /\ ~c.release.disable
  /\ Tokens(w) = {} \/ w.unreadable \cap Considered(w) # {}
TokenType(w) == IF Tokens(w) = {} THEN "github" ELSE CHOOSE f \in Tokens(w) : TRUE
-----------------------------------------------------------------------------
(* git: the tag of this release and of the one before.                     *)
filterOut(tags, excluding) ==
  LET left == SelectSeq(tags, LAMBDA t : t.name \notin excluding) IN
  IF left = <<>> THEN Untagged ELSE Head(left)
TagsAt(w, i) == IF i \in DOMAIN w.commits THEN w.commits[i] ELSE <<>>
Head1(w) == Len(w.commits)

(* gitDescribe: the latest commit up to here with a tag that is not        *)
(* ignored; 0 when there is none.                                          *)
gitDescribe(w, upto) ==
  LET tagged == {i \in 1..upto : filterOut(w.commits[i], w.ignore) # Untagged} IN
  IF tagged = {} THEN 0 ELSE CHOOSE i \in tagged : \A j \in tagged : j <= i

getTag(w) ==
  LET given == filterOut(w.currentTag, w.ignore)
      here == filterOut(TagsAt(w, Head1(w)), w.ignore) IN
  IF given # Untagged THEN given
  ELSE IF here # Untagged THEN here
  ELSE filterOut(TagsAt(w, gitDescribe(w, Head1(w))), w.ignore)

WhereIs(w, tag) == {i \in DOMAIN w.commits : \E j \in DOMAIN w.commits[i] : w.commits[i][j] = tag}
previousTagSha(w, tag) ==
  IF WhereIs(w, tag) = {} THEN 0 ELSE gitDescribe(w, (CHOOSE i \in WhereIs(w, tag) : TRUE) - 1)
getPreviousTag(w, tag) ==
  LET given == filterOut(w.previousTag, w.ignore) IN
  IF given # Untagged THEN given ELSE filterOut(TagsAt(w, previousTagSha(w, tag)), w.ignore)

(* A snapshot does without a repository and without tags.                  *)
getInfo(w) == IF w.isRepo /\ getTag(w) # Untagged THEN getTag(w) ELSE fakeTag
ErrNoTag(w) == (~w.isRepo \/ getTag(w) = Untagged) /\ ~impliedSnapshot(w)
AtHead(w, tag) == Head1(w) \in WhereIs(w, tag)
validate(w) ==
  \/ impliedSnapshot(w) \/ "validate" \in Skips(w)
  \/ ~w.dirty /\ AtHead(w, getInfo(w))

(* semver: what is no semantic version is no pre-release either.           *)
semverErrs(w) == ~getInfo(w).semver /\ "validate" \notin Skips(w)
Prerelease(w) == getInfo(w).semver /\ getInfo(w).pre
-----------------------------------------------------------------------------
(* partial: the target of --single-target; "" when it cannot be told.      *)
partialTarget(w, builds) ==
  LET gos == {i \in DOMAIN builds : builds[i].builder = "go"}
      own == {i \in DOMAIN builds : builds[i].runtime # "" /\ \A g \in gos : i < g} IN
  IF w.target # "" THEN w.target
  ELSE IF gos # {} THEN "go env"
  ELSE IF own # {} THEN builds[CHOOSE i \in own : \A j \in own : j <= i].runtime
  ELSE ""

(* release: one forge, and its pre-release marker.                         *)
ErrMultipleReleases(c) == ~c.release.disable /\ Cardinality(c.release.forges) > 1
PreRelease(w, c) ==
  ~c.release.disable /\ (c.release.prerelease = "true" \/ (c.release.prerelease = "auto" /\ Prerelease(w)))
projectErrs(w) == w.project = ""

preflightErrs(w, c) ==
  /\ ~SkipTokenCheck(w) /\ "publish" \notin Skips(w) /\ ~c.release.disable
  /\ ~w.canRelease /\ c.release.failOnError
beforeErrs(w) == ~w.hooksPass /\ "before" \notin Skips(w)
snapshotErrs(w) == impliedSnapshot(w) /\ w.snapshotName = ""
distErrs(w, used) == used /\ ~w.clean
gomodErrs(w, builds) == (\E i \in DOMAIN builds : builds[i].builder = "go") /\ w.gomod = "error"

(* The setup pipes as a whole: nothing they do but finding out is seen     *)
(* outside, so it does not matter which of them ends the run.              *)
SetupErrs(w, c, used) ==
  LET builds == setupBuildID(w, c.builds) IN
  \/ errOutputSingleBuild(w, c.builds) \/ (Len(c.builds) > 0 /\ Len(builds) = 0)
  \/ ErrMultipleTokens(w) \/ checkErrors(w, c)
  \/ ErrNoTag(w) \/ ~validate(w) \/ semverErrs(w)
  \/ projectErrs(w) \/ ErrMultipleReleases(c)
  \/ w.single /\ partialTarget(w, builds) = ""
  \/ snapshotErrs(w) \/ preflightErrs(w, c) \/ beforeErrs(w) \/ distErrs(w, used)
  \/ gomodErrs(w, builds)

Context(w, c) ==
  [command |-> w.command, snapshot |-> impliedSnapshot(w), failFast |-> w.failFast,
   skips |-> Skips(w), forge |-> TokenType(w), tag |-> getInfo(w),
   previous |-> getPreviousTag(w, getInfo(w)),
   prerelease |-> Prerelease(w), marked |-> PreRelease(w, c),
   target |-> IF w.single THEN partialTarget(w, setupBuildID(w, c.builds)) ELSE "",
   output |-> setupPipeline(w, c.builds)]
=============================================================================
