-------------------------------- MODULE Taps --------------------------------
(***************************************************************************)
(* What the pipes for package managers select from the list of artifacts,  *)
(* and the manifests they make of it: aur, aursources, nix, winget, brew,  *)
(* cask, krew, scoop and chocolatey. A configuration of any of them is a   *)
(* tap: its name stands for the directory and the name it writes to.       *)
(***************************************************************************)
EXTENDS Artifacts, Sequences

CONSTANT ProjectName

VARIABLES
  cfg,         \* the configuration, with its defaults
  tools,       \* what is in PATH on this machine
  arts         \* ctx.Artifacts

OrText(v, default) == IF v = "" THEN default ELSE v
AtLevel(a, t) == a.goarch = "amd64" => ByGoamd64s(a, {t.goamd64})
AtFloat(a, arms) == a.goarch = "arm" => ByGoarms(a, arms)
(* An archive that is more than a compressed binary.                       *)
Unpacks(a) == a.type = "UploadableArchive" /\ ~ByFormats(a, {"gz"})
expandGoarch(goarch) == IF goarch = "all" THEN {"amd64", "arm64"} ELSE {goarch}

(* RepoRef and its defaults: with a pull request, a branch for the version.*)
TemplateRef(ref) ==
  IF ref.branch = "" /\ ref.pullRequest THEN [ref EXCEPT !.branch = "version"] ELSE ref
-----------------------------------------------------------------------------
(* Defaults. The names of aur end in -bin, those of aursources do not.     *)
tapDefault(t) ==
  [t EXCEPT !.name = OrText(@, ProjectName), !.goamd64 = OrText(@, "v1"), !.goarm = OrText(@, "6")]
brewDefault(t) == tapDefault(t)
caskDefault(t) == [t EXCEPT !.name = OrText(@, ProjectName)]
nixDefault(t) == tapDefault(t)
wingetDefault(t) == [tapDefault(t) EXCEPT !.locale = OrText(@, "en-US")]
krewDefault(t) == tapDefault(t)
scoopDefault(t) == tapDefault(t)
aurDefault(t) == tapDefault(t)
aursourcesDefault(t) == [t EXCEPT !.name = OrText(@, ProjectName)]
chocolateyDefault(t) == tapDefault(t)
WithDefaults(kind, t) ==
  CASE kind = "brew" -> brewDefault(t) [] kind = "cask" -> caskDefault(t)
    [] kind = "nix" -> nixDefault(t) [] kind = "winget" -> wingetDefault(t)
    [] kind = "krew" -> krewDefault(t) [] kind = "scoop" -> scoopDefault(t)
    [] kind = "aur" -> aurDefault(t) [] kind = "aursources" -> aursourcesDefault(t)
    [] kind = "chocolatey" -> chocolateyDefault(t)
-----------------------------------------------------------------------------
(* The archives each manifest is made of.                                  *)
brewArchives(t) ==
  {a \in arts : /\ ByGooses(a, {"darwin", "linux"})
                /\ ByGoarches(a, {"amd64", "arm64", "all", "arm"})
                /\ AtLevel(a, t) /\ AtFloat(a, {t.goarm})
                /\ Unpacks(a) \/ a.type = "UploadableBinary"
                /\ OnlyReplacingUnibins(a) /\ ByIDs(a, t.ids)}
caskArchives(t) ==
  {a \in arts : /\ ByGooses(a, {"darwin", "linux"}) /\ ByGoarches(a, {"amd64", "arm64", "all"})
                /\ Unpacks(a) \/ a.type = "UploadableBinary"
                /\ OnlyReplacingUnibins(a) /\ ByIDs(a, t.ids)}
nixArchives(t) ==
  {a \in arts : /\ ByGooses(a, {"darwin", "linux"})
                /\ ByGoarches(a, {"amd64", "arm", "arm64", "386", "all"})
                /\ AtLevel(a, t) /\ AtFloat(a, {"6", "7"})
                /\ Unpacks(a) /\ OnlyReplacingUnibins(a) /\ ByIDs(a, t.ids)}
wingetArchives(t) ==
  {a \in arts : /\ ByGooses(a, {"windows"}) /\ ByGoarches(a, {"386", "arm64", "amd64"})
                /\ \/ a.type = "UploadableArchive" /\ ByFormats(a, {"zip"})
                   \/ a.type = "UploadableBinary"
                /\ AtLevel(a, t) /\ ByIDs(a, t.ids)}
krewArchives(t) ==
  {a \in arts : /\ ByGooses(a, {"darwin", "linux", "windows"})
                /\ ByGoarches(a, {"amd64", "arm64", "all", "arm"})
                /\ AtLevel(a, t) /\ AtFloat(a, {t.goarm})
                /\ a.type = "UploadableArchive" /\ OnlyReplacingUnibins(a) /\ ByIDs(a, t.ids)}
scoopArchives(t) ==
  {a \in arts : /\ ByGooses(a, {"windows"}) /\ ByGoarches(a, {"amd64", "arm64", "386"})
                /\ a.type = "UploadableArchive" /\ AtLevel(a, t) /\ ByIDs(a, t.ids)}
aurArchives(t) ==
  {a \in arts : /\ ByGooses(a, {"linux"}) /\ ByGoarches(a, {"amd64", "arm64", "386", "arm"})
                /\ AtLevel(a, t) /\ AtFloat(a, {"7"})
                /\ ByTypes(a, {"UploadableArchive", "UploadableBinary"}) /\ ByIDs(a, t.ids)}
aursourcesArchives(t) == {a \in arts : a.type = "UploadableSourceArchive" /\ ByIDs(a, t.ids)}
chocolateyArchives(t) ==
  {a \in arts : /\ ByGooses(a, {"windows"}) /\ ByGoarches(a, {"amd64", "386"})
                /\ a.type = "UploadableArchive" /\ AtLevel(a, t) /\ ByIDs(a, t.ids)}
Archives(kind, t) ==
  CASE kind = "brew" -> brewArchives(t) [] kind = "cask" -> caskArchives(t)
    [] kind = "nix" -> nixArchives(t) [] kind = "winget" -> wingetArchives(t)
    [] kind = "krew" -> krewArchives(t) [] kind = "scoop" -> scoopArchives(t)
    [] kind = "aur" -> aurArchives(t) [] kind = "aursources" -> aursourcesArchives(t)
    [] kind = "chocolatey" -> chocolateyArchives(t)
-----------------------------------------------------------------------------
(* Under which platforms a manifest lists an archive.                      *)
brewPlatforms(a) == {<<a.goos, a.goarch>>}
caskPlatforms(a) == {<<a.goos, a.goarch>>}
nixPlatforms(a) == {<<a.goos, g, a.variant["goarm"]>> : g \in expandGoarch(a.goarch)}
wingetPlatforms(a) == {<<a.goarch>>}
krewPlatforms(a) == {<<a.goos, g>> : g \in expandGoarch(a.goarch)}
scoopPlatforms(a) == {<<a.goarch>>}
aurPlatforms(a) == {<<a.goarch, a.variant["goarm"]>>}
chocolateyPlatforms(a) == {<<a.goarch>>}
PlatformsOf(kind, a) ==
  CASE kind = "brew" -> brewPlatforms(a) [] kind = "cask" -> caskPlatforms(a)
    [] kind = "nix" -> nixPlatforms(a) [] kind = "winget" -> wingetPlatforms(a)
    [] kind = "krew" -> krewPlatforms(a) [] kind = "scoop" -> scoopPlatforms(a)
    [] kind = "aur" -> aurPlatforms(a) [] kind = "aursources" -> {<<"source">>}
    [] kind = "chocolatey" -> chocolateyPlatforms(a)

Listed(kind, archives) == UNION {{<<p, a.path>> : p \in PlatformsOf(kind, a)} : a \in archives}
Clash_Never(kind, archives) == FALSE
Clash(kind, archives) ==
  \E a, b \in archives : a # b /\ PlatformsOf(kind, a) \cap PlatformsOf(kind, b) # {}

(* A source package and a scoop manifest keep the last archive of a        *)
(* platform; the others list them all, and most refuse a clash before.     *)
Last(listed) ==
  {s \in SUBSET listed : \A e \in listed : \E x \in s : \A y \in s : y[1] = e[1] <=> y = x}
Entries(kind, archives) ==
  IF kind \in {"scoop", "aursources"} THEN Last(Listed(kind, archives)) ELSE {Listed(kind, archives)}
-----------------------------------------------------------------------------
(* doRun of each pipe: whether a tap is passed over, ends the pipe in an   *)
(* error, or is made.                                                      *)
Verdict(passes, ends) == IF passes THEN "skip" ELSE IF ends THEN "error" ELSE "made"
NoneOf(archives) == archives = {}
Nowhere(t) == t.repository.name = ""

brewRun(t) ==
  LET archives == brewArchives(t) IN Verdict(Nowhere(t), NoneOf(archives) \/ Clash("brew", archives))
caskRun(t) ==
  LET archives == caskArchives(t) IN Verdict(Nowhere(t), NoneOf(archives) \/ Clash("cask", archives))

UnknownDarwin(archives) ==
  \E a \in archives : a.goos = "darwin" /\ a.goarch \notin {"amd64", "arm64", "all"}
nixRun(t) ==
  LET archives == nixArchives(t) IN
  Verdict(Nowhere(t), NoneOf(archives) \/ Clash("nix", archives) \/ UnknownDarwin(archives))

errMixedFormats(archives) == Cardinality({a.type : a \in archives}) > 1
prepareAdditionalLocales(t) ==
  \A i \in DOMAIN t.locales :
    /\ t.locales[i] \notin {"", t.locale}
    /\ \A j \in DOMAIN t.locales : t.locales[i] = t.locales[j] => i = j
wingetRun(t) ==
  LET archives == wingetArchives(t)
      refused == ~prepareAdditionalLocales(t) \/ errMixedFormats(archives) \/ Clash("winget", archives) IN
  Verdict(Nowhere(t) \/ ~t.described \/ (~NoneOf(archives) /\ refused), NoneOf(archives))

krewRun(t) ==
  LET archives == krewArchives(t)
      manyBinaries == \E a \in archives : Cardinality(a.of) # 1 IN
  Verdict(FALSE, ~t.described \/ NoneOf(archives) \/ manyBinaries)

ErrIncorrectArchiveCount(archives) == \E g \in GroupByPlatform(archives) : Cardinality(g) # 1
scoopRun(t) ==
  LET archives == scoopArchives(t) IN Verdict(FALSE, NoneOf(archives) \/ ErrIncorrectArchiveCount(archives))
aurRun(t) ==
  LET archives == aurArchives(t) IN Verdict(t.disable, NoneOf(archives) \/ Clash("aur", archives))
aursourcesRun(t) == Verdict(t.disable, NoneOf(aursourcesArchives(t)))
chocolateyRun(t) ==
  LET archives == chocolateyArchives(t) IN
  Verdict(Clash("chocolatey", archives), NoneOf(archives))
doRun(kind, t) ==
  CASE kind = "brew" -> brewRun(t) [] kind = "cask" -> caskRun(t)
    [] kind = "nix" -> nixRun(t) [] kind = "winget" -> wingetRun(t)
    [] kind = "krew" -> krewRun(t) [] kind = "scoop" -> scoopRun(t)
    [] kind = "aur" -> aurRun(t) [] kind = "aursources" -> aursourcesRun(t)
    [] kind = "chocolatey" -> chocolateyRun(t)
-----------------------------------------------------------------------------
(* The files of a tap: which, where in dist, and under which id in the     *)
(* list of artifacts.                                                      *)
wingetParts(t) ==
  {"version", "installer", t.locale} \cup {t.locales[i] : i \in DOMAIN t.locales}
Parts(kind, t) ==
  CASE kind = "winget" -> wingetParts(t)
    [] kind \in {"aur", "aursources"} -> {"PKGBUILD", ".SRCINFO"}
    [] OTHER -> {kind}
FileIn(kind, t, part) == <<kind, t.name, part>>
Manifests(kind, i, t) ==
  {[kind |-> kind, at |-> i, path |-> FileIn(kind, t, part),
    id |->
      CASE kind = "winget" -> <<kind, i>> [] kind \in {"aur", "aursources"} -> <<kind, t.name>>
        [] OTHER -> <<kind, i, "alone">>] : part \in Parts(kind, t)}
(* publishAll: one by one, or by id.                                       *)
Units_OneByOne(manifests, kind) == {{m} : m \in {x \in manifests : x.kind = kind}}
Units(manifests, kind) ==
  {{m \in manifests : m.kind = kind /\ m.id = id} :
     id \in {m.id : m \in {x \in manifests : x.kind = kind}}}
First(unit) == CHOOSE m \in unit : \A o \in unit : m.at <= o.at

(* doPublish of each pipe: what is done first with a unit, and where it    *)
(* goes. The configuration of its first file decides.                      *)
SkipsUpload_Always(t, prerelease) == t.skipUpload = "true"
SkipsUpload(t, prerelease) == t.skipUpload = "true" \/ (t.skipUpload = "auto" /\ prerelease)
ThroughForge(t, prerelease) ==
  IF SkipsUpload(t, prerelease) THEN "skip" ELSE IF t.repository.git # "" THEN "clone" ELSE "file"
ThroughGit(t, prerelease) == IF SkipsUpload(t, prerelease) \/ t.repository.git = "" THEN "skip" ELSE "clone"
brewPublish(t, prerelease) == ThroughForge(t, prerelease)
caskPublish(t, prerelease) == ThroughForge(t, prerelease)
nixPublish(t, prerelease) == ThroughForge(t, prerelease)
wingetPublish(t, prerelease) == ThroughForge(t, prerelease)
krewPublish(t, prerelease) == ThroughForge(t, prerelease)
scoopPublish(t, prerelease) == ThroughForge(t, prerelease)
aurPublish(t, prerelease) == ThroughGit(t, prerelease)
aursourcesPublish(t, prerelease) == ThroughGit(t, prerelease)
chocolateyPublish(t) == IF t.repository.key THEN "nupkg" ELSE "skip"
doPublish(kind, t, prerelease) ==
  CASE kind = "brew" -> brewPublish(t, prerelease) [] kind = "cask" -> caskPublish(t, prerelease)
    [] kind = "nix" -> nixPublish(t, prerelease) [] kind = "winget" -> wingetPublish(t, prerelease)
    [] kind = "krew" -> krewPublish(t, prerelease) [] kind = "scoop" -> scoopPublish(t, prerelease)
    [] kind = "aur" -> aurPublish(t, prerelease) [] kind = "aursources" -> aursourcesPublish(t, prerelease)
    [] kind = "chocolatey" -> chocolateyPublish(t)
Target(kind, t) ==
  IF kind \in {"aur", "aursources"} THEN [t.repository EXCEPT !.branch = "master", !.name = t.repository.git]
  ELSE TemplateRef(t.repository)
=============================================================================
