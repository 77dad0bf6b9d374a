---------------------------- MODULE MCPublishing ----------------------------
(* Small instances of a release that is published.                         *)
EXTENDS Publishing, TLC

Fields == {"goamd64", "goarm", "goarm64"}
Lvl(goarch) ==
  [f \in Fields |-> IF f = "goamd64" /\ goarch = "amd64" THEN "v1" ELSE IF f = "goarm64" /\ goarch = "arm64" THEN "v8.0" ELSE ""]
Arch(goos, goarch, id, format) ==
  [Blank EXCEPT !.type = "UploadableArchive", !.goos = goos, !.goarch = goarch, !.variant = Lvl(goarch),
                !.id = id, !.format = format, !.of = {<<"bin", goos, goarch, id>>},
                !.name = <<id, goos, goarch, format>>, !.path = <<id, goos, goarch, format>>]
Bin(goos, goarch, id) ==
  [Blank EXCEPT !.type = "Binary", !.goos = goos, !.goarch = goarch, !.variant = Lvl(goarch), !.id = id,
                !.name = <<id>>, !.path = <<"bin", goos, goarch, id>>]
Plain(type, id) == [Blank EXCEPT !.type = type, !.id = id, !.name = <<type>>, !.path = <<type>>]

Archives3 == {Arch("darwin", "arm64", "a", "tar.gz"), Arch("linux", "amd64", "a", "tar.gz"),
              Arch("windows", "amd64", "a", "zip"), Plain("UploadableSourceArchive", ""), Plain("Checksum", "")}
Twice == Archives3 \cup {Arch("darwin", "arm64", "b", "tar.gz"), Arch("linux", "amd64", "b", "tar.gz"),
                         Arch("windows", "amd64", "b", "zip")}
Bins == {Bin("linux", "amd64", "a"), Bin("linux", "arm64", "a"), Bin("linux", "amd64", "b")}
Modern == [Bin("linux", "amd64", "a") EXCEPT !.variant["goamd64"] = "v3", !.path = <<"bin", "v3">>]
Universal == {[Arch("darwin", "all", "a", "tar.gz") EXCEPT !.replaces = TRUE], Arch("windows", "amd64", "a", "zip")}

V(name, pre) == [name |-> name, semver |-> TRUE, pre |-> pre]
Clean ==
  [command |-> "release", snapshot |-> FALSE, autoSnapshot |-> FALSE, dirty |-> FALSE, skips |-> {},
   ids |-> {}, output |-> FALSE, single |-> FALSE, clean |-> TRUE, failFast |-> FALSE, force |-> "",
   tokens |-> {"github"}, unreadable |-> {}, ignore |-> {}, commits |-> <<<<V("v1", FALSE)>>>>,
   currentTag |-> <<>>, previousTag |-> <<>>, isRepo |-> TRUE, target |-> "", project |-> "app",
   canRelease |-> TRUE, hooksPass |-> TRUE, snapshotName |-> "next", gomod |-> "ok",
   env |-> {"DISCORD_WEBHOOK_ID", "DISCORD_WEBHOOK_TOKEN", "BLUESKY_APP_PASSWORD"}, koRepo |-> ""]
NoRelease == [disable |-> FALSE, forges |-> {"github"}, prerelease |-> "auto", failOnError |-> TRUE, ids |-> {},
              includeMeta |-> FALSE, extraFiles |-> {}, skipUpload |-> FALSE, replaceExistingArtifacts |-> TRUE]
None ==
  [aur |-> <<>>, aursources |-> <<>>, nix |-> <<>>, winget |-> <<>>, brew |-> <<>>, cask |-> <<>>,
   krew |-> <<>>, scoop |-> <<>>, chocolatey |-> <<>>, dockers |-> <<>>, dockerManifests |-> <<>>,
   dockersV2 |-> <<>>, kos |-> <<>>, dockerSigns |-> <<>>, dockerDigest |-> [disable |-> FALSE],
   blob |-> <<>>, upload |-> <<>>, artifactory |-> <<>>, iru |-> <<>>, mcp |-> <<>>,
   milestone |-> <<>>, custompublishers |-> <<>>, announce |-> <<>>, builds |-> <<>>, release |-> NoRelease]
Scenario(c, b, w) ==
  [cfg |-> c, built |-> b, tools |-> {"nix-hash"}, world |-> w, registry |-> {}]

Repo(name, branch, pr, git) == [name |-> name, branch |-> branch, pullRequest |-> pr, git |-> git, key |-> TRUE]
Tap1(name, repo) ==
  [name |-> name, ids |-> {"a"}, goamd64 |-> "", goarm |-> "", repository |-> repo, skipUpload |-> "",
   disable |-> FALSE, described |-> TRUE, locale |-> "", locales |-> <<>>]
Api == Repo("tap", "", FALSE, "")
ByPull == Repo("tap", "", TRUE, "")
ByGit == Repo("tap", "", FALSE, "tap")
OnBranch == Repo("tap", "next", FALSE, "tap")

(* Taps: by API, with pull requests, by git, several in one repository.    *)
ApiTaps ==
  {Scenario([None EXCEPT !.brew = <<Tap1("one", r), Tap1("two", Repo("tap", "dev", FALSE, ""))>>,
                         !.krew = <<Tap1("", r)>>], Archives3, Clean) : r \in {Api, ByPull}}
  \cup {Scenario([None EXCEPT !.winget = <<[Tap1("w", ByPull) EXCEPT !.locales = <<"pt-BR">>]>>,
                              !.cask = <<Tap1("c", Api)>>], Archives3, Clean)}
GitTaps ==
  {Scenario([None EXCEPT !.brew = <<Tap1("one", r)>>, !.cask = <<Tap1("c", r)>>,
                         !.scoop = <<Tap1("s", Repo("tap", "main", FALSE, "tap"))>>], Archives3, Clean)
     : r \in {ByGit, OnBranch}}
  \cup {Scenario([None EXCEPT !.brew = <<Tap1("one", ByGit), Tap1("two", Repo("tap", "main", FALSE, "tap")),
                                        Tap1("three", ByGit)>>], Archives3, Clean)}
AurTaps ==
  {Scenario([None EXCEPT !.aur = <<[Tap1("", ByGit) EXCEPT !.disable = d], Tap1("other", ByGit)>>,
                         !.aursources = <<Tap1("src", Repo("", "", FALSE, git))>>], Archives3, Clean)
     : d \in BOOLEAN, git \in {"", "tap"}}

(* Two archives for one platform, and taps that are not uploaded.          *)
Clashes ==
  {Scenario([None EXCEPT ![k] = <<[Tap1(k, IF k = "aur" THEN ByGit ELSE Api) EXCEPT !.ids = {}]>>], Twice, Clean)
     : k \in Kinds \ {"krew"}}
HeldBack ==
  {Scenario([None EXCEPT ![k] = <<[Tap1(k, IF k \in {"aur", "aursources"} THEN ByGit ELSE Api) EXCEPT !.skipUpload = s]>>],
            Archives3, [Clean EXCEPT !.commits = <<<<V("v1", FALSE)>>, <<V("v2-rc", TRUE), V("v0", FALSE)>>>>])
     : k \in Kinds, s \in {"auto", "true"}}
  \cup {Scenario([None EXCEPT !.nix = <<Tap1("", Api)>>, !.brew = <<Tap1("", Api)>>], Universal, Clean)}

(* Images: pushed one by one, joined, signed; and an earlier run's.        *)
Docker(id, images) ==
  [id |-> id, goos |-> "", goarch |-> IF id = "arm" THEN "arm64" ELSE "", goamd64 |-> "", goarm |-> "",
   ids |-> IF id = "none" THEN {"missing"} ELSE {}, images |-> images, skipUpload |-> ""]
Manifest(images) == [id |-> "", name |-> <<"app">>, images |-> images, skipUpload |-> ""]
DockerSign(what) == [id |-> "", artifacts |-> what, ids |-> {}]
Dockers ==
  {[Scenario([None EXCEPT !.dockers = <<Docker("amd", {<<"amd", "x">>}), [Docker(other, {<<"arm", "x">>}) EXCEPT !.skipUpload = s]>>,
                          !.dockerManifests = <<Manifest({<<"amd", "x">>, <<"arm", "x">>}),
                                                  [Manifest({<<"old", "x">>}) EXCEPT !.skipUpload = "true"]>>,
                          !.dockerSigns = <<DockerSign(what)>>], Bins, Clean)
      EXCEPT !.registry = old] :
     other \in {"arm", "none"}, s \in {"", "true"}, what \in {"all", "none"},
     old \in {{}, {<<<<"amd", "x">>, <<"docker", 1, 0>>>>, <<<<"arm", "x">>, <<"docker", 2, 0>>>>}}}
V2(images) ==
  [id |-> "", images |-> images, tags |-> {}, platforms |-> {}, ids |-> {"a"}, disable |-> FALSE,
   dockerfile |-> TRUE]
Ko(repos) == [id |-> "", repositories |-> repos, disable |-> FALSE]
OneGo ==
  {Scenario([None EXCEPT !.dockersV2 = <<V2({"v2"}), [V2({"off"}) EXCEPT !.id = "off", !.disable = TRUE]>>,
                         !.kos = <<Ko(<<"ghcr", "hub", "quay">>), [Ko(<<"ghcr">>) EXCEPT !.id = "off", !.disable = TRUE]>>,
                         !.dockerSigns = <<DockerSign(""), [DockerSign("manifests") EXCEPT !.id = "m"]>>], Bins, w)
     : w \in {Clean, [Clean EXCEPT !.snapshot = TRUE], [Clean EXCEPT !.koRepo = "local"]}}
  \cup {Scenario([None EXCEPT !.dockersV2 = <<[V2({"v2"}) EXCEPT !.platforms = {<<"linux", "amd64", "">>,
                                                                            <<"linux", "amd64", "v3">>, <<"linux", "arm64", "v9.0">>}]>>],
                 Bins \cup {Modern}, Clean)}
  \cup {Scenario([None EXCEPT !.dockersV2 = <<[V2({"v2"}) EXCEPT !.platforms = {<<"darwin", "arm64", "">>}],
                                              [V2({"bare"}) EXCEPT !.id = "bare", !.dockerfile = FALSE]>>],
                 {Bin("darwin", "arm64", "a")}, Clean)}

(* Files, snaps, apps and announcements.                                   *)
UploadTo(name) ==
  [name |-> name, target |-> "there", mode |-> "", method |-> "", username |-> "", password |-> "",
   clientCert |-> "", clientKey |-> "", skip |-> FALSE, checksum |-> FALSE, meta |-> TRUE, signature |-> FALSE,
   ids |-> {}, exts |-> {}, extraFilesOnly |-> FALSE, extraFiles |-> {}]
Blob == [bucket |-> "b", provider |-> "s3", disable |-> FALSE, includeMeta |-> FALSE, ids |-> {},
         extraFilesOnly |-> TRUE, extraFiles |-> {"x", "y"}]
Publisher == [name |-> "p", disable |-> FALSE, checksum |-> FALSE, meta |-> FALSE, signature |-> FALSE, ids |-> {"none"},
              extraFiles |-> {"z"}]
Files ==
  {Scenario([None EXCEPT !.blob = <<Blob, [Blob EXCEPT !.bucket = "c", !.extraFiles = {"x"}]>>,
                         !.upload = <<UploadTo("u"), [UploadTo("v") EXCEPT !.username = "me"]>>,
                         !.artifactory = <<[UploadTo("r") EXCEPT !.mode = "binary"]>>,
                         !.custompublishers = <<Publisher>>], {Arch("linux", "amd64", "a", "tar.gz")}, Clean)}
  \cup {Scenario([None EXCEPT !.release.skipUpload = TRUE, !.mcp = <<[name |-> "m", github |-> "", disable |-> "true"]>>],
                 {Plain("PublishableSnapcraft", "s")}, Clean)}
Iru(item) ==
  [libraryItem |-> item, installType |-> "", installEnforcement |-> "", token |-> "t", ids |-> {},
   unzip |-> "/Applications", audit |-> "unset", category |-> "unset", selfService |-> "unset", recommended |-> "unset"]
Announce(name, given) == [name |-> name, enabled |-> TRUE, given |-> given]
Apps ==
  {Scenario([None EXCEPT !.iru = <<Iru(item)>>, !.mcp = <<[name |-> "", github |-> "gh", disable |-> "auto"]>>,
                         !.milestone = <<[repo |-> "", close |-> TRUE, failOnError |-> f], [repo |-> "r", close |-> FALSE, failOnError |-> f]>>],
            {Arch("darwin", "arm64", "a", "zip"), Arch("darwin", "amd64", "b", x)}, Clean)
     : item \in {"", "lib"}, f \in BOOLEAN, x \in {"zip", "dmg"}}
  \cup {Scenario([None EXCEPT !.iru = <<Iru("lib")>>, !.release.extraFiles = {"notes"}, !.release.includeMeta = TRUE],
                 {Arch("darwin", "arm64", "a", "zip")}, [Clean EXCEPT !.failFast = TRUE])}
  \cup {Scenario([None EXCEPT !.announce = <<Announce("discord", {}), Announce("bluesky", {}), Announce("smtp", {"host"}),
                                             Announce("opencollective", {})>>], {}, Clean)}
  \cup {Scenario([None EXCEPT !.chocolatey = <<Tap1("ch", Api), Tap1("ch2", [Api EXCEPT !.key = FALSE])>>], Archives3, Clean)}

(* The assets of an earlier run: on the forges that show each of them.     *)
AssetsLeft ==
  {Scenario([None EXCEPT !.brew = <<Tap1("one", Api)>>, !.release.replaceExistingArtifacts = replace,
                         !.release.extraFiles = {"notes"}],
            Archives3, [Clean EXCEPT !.tokens = {forge}]) : forge \in Forges, replace \in BOOLEAN}

(* Worlds in which little or nothing is published.                         *)
Worlds ==
  {Clean, [Clean EXCEPT !.snapshot = TRUE], [Clean EXCEPT !.dirty = TRUE], [Clean EXCEPT !.dirty = TRUE, !.autoSnapshot = TRUE],
   [Clean EXCEPT !.skips = {"publish"}], [Clean EXCEPT !.skips = {"validate"}, !.dirty = TRUE],
   [Clean EXCEPT !.commits = <<<<V("v1", FALSE)>>, <<>>>>], [Clean EXCEPT !.commits = <<<<>>>>],
   [Clean EXCEPT !.tokens = {"github", "gitlab"}], [Clean EXCEPT !.tokens = {"github", "gitlab"}, !.force = "gitlab"],
   [Clean EXCEPT !.tokens = {}], [Clean EXCEPT !.ignore = {"v1"}], [Clean EXCEPT !.clean = FALSE],
   [Clean EXCEPT !.canRelease = FALSE], [Clean EXCEPT !.isRepo = FALSE, !.snapshot = TRUE],
   [Clean EXCEPT !.currentTag = <<V("v1", FALSE)>>, !.previousTag = <<V("v0", FALSE)>>],
   [Clean EXCEPT !.single = TRUE], [Clean EXCEPT !.hooksPass = FALSE]}
InWorlds ==
  {Scenario([None EXCEPT !.brew = <<Tap1("", Api)>>, !.dockers = <<Docker("amd", {<<"amd", "x">>})>>,
                         !.announce = <<Announce("discord", {})>>], Archives3 \cup Bins, w) : w \in Worlds}

AllScenarios ==
  ApiTaps \cup GitTaps \cup AurTaps \cup Clashes \cup HeldBack \cup Dockers \cup OneGo \cup Files \cup Apps \cup AssetsLeft \cup InWorlds
AllSteps ==
  {"pack", "push", "clone", "checkout", "commit", "file", "pull", "docker build", "docker push", "manifest push", "buildx",
   "post hook", "ko build", "copy", "cosign", "snap push", "upload", "s3", "create", "update", "release", "mcp",
   "milestone", "announce", "crash", "hash", "digests", "artifacts"}
AllRepos == {"tap"}
Branches == {Scenario([None EXCEPT !.brew = <<Tap1("one", OnBranch)>>, !.cask = <<Tap1("c", OnBranch)>>], Archives3, Clean)}
=============================================================================
