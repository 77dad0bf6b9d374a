----------------------------- MODULE Packagers -----------------------------
(***************************************************************************)
(* What each packaging pipe selects from the list of artifacts, and what   *)
(* it makes of that: universalbinary, upx, sign.Binary, notary, archive,   *)
(* sourcearchive, nfpm, srpm, makeself, snapcraft, flatpak and sbom, with  *)
(* the defaults each fills in. A name is the template it comes from and    *)
(* the fields of the artifact that template uses.                          *)
(***************************************************************************)
EXTENDS Artifacts, Sequences

CONSTANTS
  ProjectName

VARIABLES
  cfg,     \* ctx.Config, and from the defaults on with its defaults
  tools,   \* what is in PATH on this machine
  arts     \* ctx.Artifacts

OrText(v, default) == IF v = "" THEN default ELSE v
OrSet(v, default) == IF v = {} THEN default ELSE v
Each(seq, Op(_)) == [i \in DOMAIN seq |-> Op(seq[i])]
Paths(bins) == {b.path : b \in bins}

(* A task of a pipe: its configuration, the part of the work it is - a     *)
(* format or a step - and the artifacts it works on.                       *)
Task(pipe, i, part, bins) == [pipe |-> pipe, at |-> i, part |-> part, bins |-> bins]
ForEach(pipe, i, part, bins) == {Task(pipe, i, part, {b}) : b \in bins}

(* What a default name_template keeps of an artifact: not the levels of    *)
(* arm64, 386, ppc64 or riscv64, and v1 of amd64 is nothing.               *)
NamedFields == {"goarm", "gomips", "goamd64"}
PlatformName(a) ==
  <<a.goos, a.goarch,
    [f \in NamedFields \cap VariantFields |->
       IF f = "goamd64" /\ a.variant[f] = "v1" THEN NoVariant ELSE a.variant[f]]>>

(* An artifact made of others takes the platform of the first of them.     *)
MadeOf(head, bins) ==
  [Blank EXCEPT !.goos = head.goos, !.goarch = head.goarch, !.variant = head.variant,
     !.of = Paths(bins)]
Inheriting(head, bins) ==
  [MadeOf(head, bins) EXCEPT !.replaces = head.replaces, !.dynamic = \E b \in bins : b.dynamic]
-----------------------------------------------------------------------------
(* Defaults of each pipe, and the ids they refuse to see twice.            *)
UniqueIDs(seq) == \A i, j \in DOMAIN seq : seq[i].id = seq[j].id => i = j

unibinDefault(u) ==
  LET id == OrText(u.id, ProjectName) IN [u EXCEPT !.id = id, !.ids = OrSet(@, {id})]
notaryDefault(n) == [n EXCEPT !.ids = OrSet(@, {ProjectName})]
binarySignDefault(s) == [s EXCEPT !.artifacts = OrText(@, "binary"), !.id = OrText(@, "default")]
archiveDefault(a) ==
  [a EXCEPT !.id = OrText(@, "default"), !.formats = OrSet(@, {"tar.gz"}),
            !.template = OrText(@, IF "binary" \in a.formats THEN "Binary" ELSE "ProjectName")]
NoArchive == [id |-> "", ids |-> {}, formats |-> {}, overrides |-> <<>>, meta |-> FALSE,
              uneven |-> FALSE, template |-> ""]
archivesDefault(seq) == Each(IF seq = <<>> THEN <<NoArchive>> ELSE seq, archiveDefault)
nfpmDefault(n) == [n EXCEPT !.id = OrText(@, "default"), !.template = OrText(@, "PackageName")]
makeselfDefault(m) ==
  [m EXCEPT !.id = OrText(@, "default"), !.goos = OrSet(@, {"linux", "darwin"})]
snapDefault(s) ==
  [s EXCEPT !.channels = OrSet(@, IF s.grade = "devel" THEN {"edge", "beta"}
                                  ELSE {"edge", "beta", "candidate", "stable"})]
sbomDefault(s) == [s EXCEPT !.artifacts = OrText(@, "archive"), !.id = OrText(@, "default")]

(* A flatpak cannot do without its app, runtime and sdk, nor a snap        *)
(* without its texts.                                                      *)
Complete(seq) == \A i \in DOMAIN seq : seq[i].described

Defaulted(c) ==
  [c EXCEPT !.unibins = Each(@, unibinDefault), !.notary = Each(@, notaryDefault),
            !.binarySigns = Each(@, binarySignDefault), !.archives = archivesDefault(@),
            !.nfpms = Each(@, nfpmDefault), !.makeselfs = Each(@, makeselfDefault),
            !.snaps = Each(@, snapDefault), !.sboms = Each(@, sbomDefault)]
Valid(c) ==
  /\ UniqueIDs(c.unibins) /\ UniqueIDs(c.binarySigns) /\ UniqueIDs(c.archives)
  /\ UniqueIDs(c.nfpms) /\ UniqueIDs(c.makeselfs) /\ UniqueIDs(c.snaps)
  /\ UniqueIDs(c.flatpaks) /\ UniqueIDs(c.sboms)
  /\ Complete(c.snaps) /\ Complete(c.flatpaks)
-----------------------------------------------------------------------------
(* universalbinary. Two binaries for one processor are no slices of one    *)
(* file; the rest of its fields come from the first slice.                 *)
filterFor(u, a) == a.type = "Binary" /\ a.goos = "darwin" /\ ByIDs(a, u.ids)
slices(u) == {a \in arts : filterFor(u, a)}
DuplicateSlice(bins) == \E a, b \in bins : a # b /\ a.goarch = b.goarch
Universal(u, head, bins) ==
  [Inheriting(head, {head}) EXCEPT !.type = "UniversalBinary", !.goarch = "all",
     !.variant = Baseline, !.id = u.id, !.replaces = u.replace,
     !.name = <<u.id>>, !.path = <<u.id, "darwin_all">>, !.of = Paths(bins)]

(* upx packs what every one of its filters lets through.                   *)
findBinaries(u) ==
  {a \in arts : /\ ByTypes(a, {"Binary", "UniversalBinary"})
                /\ ByGooses(a, u.goos) /\ ByGoarches(a, u.goarch)
                /\ ByGoamd64s(a, u.goamd64) /\ ByIDs(a, u.ids)}
upxTasks(i) ==
  IF cfg.upxs[i].enabled /\ "upx" \in tools
    THEN ForEach("upx", i, "pack", findBinaries(cfg.upxs[i])) ELSE {}

(* binary_signs: a signature next to each binary.                          *)
signedBy(c) ==
  IF c.artifacts = "none" THEN {}
  ELSE {a \in arts : ByTypes(a, {"Binary", "UniversalBinary"}) /\ ByIDs(a, c.ids)}
signatureArtifact(c, b) ==
  [Blank EXCEPT !.type = "Signature", !.id = c.id, !.name = <<b.name, PlatformName(b), "sig">>,
     !.path = <<b.path, "sig">>, !.of = {b.path}]

(* notary: the darwin binaries of a configuration.                         *)
ofMacOS(n) ==
  {a \in arts : a.goos = "darwin" /\ ByTypes(a, {"Binary", "UniversalBinary"}) /\ ByIDs(a, n.ids)}
notaryTasks(i) ==
  IF cfg.notary[i].enabled THEN ForEach("notary", i, "notarize", ofMacOS(cfg.notary[i])) ELSE {}
-----------------------------------------------------------------------------
(* archive. An override applies when the goos starts with what it names;   *)
(* no goos considered starts with another, so it is equality.              *)
Packaged == {"Binary", "UniversalBinary", "Header", "CArchive", "CShared"}
archived_NoUniversal(c) == {a \in arts : ByTypes(a, Packaged \ {"UniversalBinary"}) /\ ByIDs(a, c.ids)}
archived(c) == {a \in arts : ByTypes(a, Packaged) /\ ByIDs(a, c.ids)}

Applies(o, goos) == o.goos # "" /\ o.formats # {} /\ o.goos = goos
packageFormats(c, goos) ==
  LET hits == {i \in DOMAIN c.overrides : Applies(c.overrides[i], goos)} IN
  IF hits = {} THEN c.formats
  ELSE c.overrides[CHOOSE i \in hits : \A j \in hits : i <= j].formats

checkArtifacts(groups) == \A g, h \in groups : Cardinality(g) = Cardinality(h)
validArchive(c) ==
  c.meta \/ c.uneven \/ "binary" \in c.formats \/ checkArtifacts(GroupByPlatform(archived(c)))

archiveTasks(i) ==
  LET c == cfg.archives[i]
      Formats(g) == packageFormats(c, (CHOOSE b \in g : TRUE).goos) \ {"none"} IN
  IF c.meta THEN {Task("archive", i, f, {}) : f \in c.formats}
  ELSE UNION {{Task("archive", i, f, g) : f \in Formats(g)} : g \in GroupByPlatform(archived(c))}

archivePath(c, head, format) == <<c.template, PlatformName(head), format>>
archiveArtifact(c, format, head, bins) ==
  [Inheriting(head, bins) EXCEPT !.type = "UploadableArchive", !.id = c.id, !.format = format,
     !.name = archivePath(c, head, format), !.path = archivePath(c, head, format)]

(* Format binary: each binary is uploaded from where it is.                *)
skip(c, bins) ==
  {[Inheriting(b, {b}) EXCEPT !.type = "UploadableBinary", !.id = c.id, !.format = "binary",
      !.name = <<c.template, b.name, PlatformName(b)>>, !.path = b.path] : b \in bins}
-----------------------------------------------------------------------------
(* nfpm. Which of its formats exist for a platform.                        *)
isSupportedTermuxArch(a) == a.goos = "android" /\ a.goarch \in {"all", "amd64", "arm64", "arm", "386"}
isSupportedArchlinuxArch(a) ==
  a.goarch \in {"all", "amd64", "arm64", "386"} \/ (a.goarch = "arm" /\ a.variant["goarm"] = "7")
Supports(format, a) ==
  /\ (a.goos = "windows") = (format = "msix")
  /\ a.goos = "ios" => format = "deb"
  /\ a.goos = "aix" => format = "rpm" /\ a.goarch = "ppc64"
  /\ a.goos = "android" => format = "termux.deb"
  /\ format = "archlinux" => isSupportedArchlinuxArch(a)
  /\ format = "termux.deb" => isSupportedTermuxArch(a)

(* A meta package is for any machine; else amd64 only at the given levels. *)
findArtifacts(c) ==
  IF c.meta THEN {{[Blank EXCEPT !.goos = s, !.goarch = "all"]} : s \in {"linux", "android"}}
  ELSE GroupByPlatform(
         {a \in arts : /\ ByTypes(a, {"Binary", "Header", "CArchive", "CShared"})
                       /\ ByGooses(a, {"linux", "ios", "android", "aix", "windows"})
                       /\ a.goarch = "amd64" => ByGoamd64s(a, c.goamd64)
                       /\ ByIDs(a, c.ids)})
nfpmTasks(i) ==
  LET c == cfg.nfpms[i] IN
  {t \in {Task("nfpm", i, f, g) : f \in c.formats, g \in findArtifacts(c)} :
     \E a \in t.bins : Supports(t.part, a)}

(* The package states its contents and, unless signing is skipped, is      *)
(* signed with the key configured for its format, where there is one.      *)
nfpmContents(c, bins) == IF c.meta THEN {} ELSE Paths(bins)
getKey(c, format) == IF "sign" \in cfg.skips THEN "" ELSE ExtraOr(c.keys, format, "")
nfpmPath(c, head, format) == <<c.template, PlatformName(head), format>>
nfpmArtifact(c, format, head, bins) ==
  [MadeOf(head, {}) EXCEPT
     !.type = (IF format = "msix" THEN "MSIX" ELSE "LinuxPackage"), !.id = c.id, !.format = format,
     !.variant = [f \in VariantFields |-> IF f \in NamedFields THEN head.variant[f] ELSE NoVariant],
     !.name = nfpmPath(c, head, format), !.path = nfpmPath(c, head, format),
     !.of = nfpmContents(c, bins), !.key = getKey(c, format)]

(* sourcearchive and srpm: one file each; the second packs the first.      *)
sourceArtifact == [Blank EXCEPT !.type = "UploadableSourceArchive", !.format = "tar.gz",
                                !.name = <<"source">>, !.path = <<"source">>]
Sources == {a \in arts : a.type = "UploadableSourceArchive"}
srpmArtifact == [Blank EXCEPT !.type = "SourceRPM", !.format = "src.rpm", !.name = <<"srpm">>,
                              !.path = <<"srpm">>, !.of = Paths(Sources)]

(* makeself: a directory per configuration and platform.                   *)
selfExtracting(c) ==
  {a \in arts : ByTypes(a, Packaged) /\ ByIDs(a, c.ids) /\ ByGooses(a, c.goos) /\ ByGoarches(a, c.goarch)}
makeselfTasks(i) ==
  IF cfg.makeselfs[i].disable THEN {}
  ELSE {Task("makeself", i, "makeself", g) : g \in GroupByPlatform(selfExtracting(cfg.makeselfs[i]))}
makeselfContext(c, key) == <<"makeself", c.id, key>>
makeselfArtifact(c, head, bins, dir) ==
  [MadeOf(head, bins) EXCEPT !.type = "Makeself", !.id = c.id, !.format = "makeself",
     !.replaces = head.replaces, !.name = <<"run", PlatformName(head)>>, !.path = dir]
-----------------------------------------------------------------------------
(* snapcraft takes the architecture from the name of the platform's group, *)
(* of which it cuts the levels it knows.                                   *)
isValidArch(arch) == arch \in {"s390x", "ppc64el", "arm64", "armhf", "i386", "amd64"}
archToSnap(arch) ==
  CASE arch = "386" -> "i386" [] arch = "ppc64le" -> "ppc64el" [] arch = "arm" -> "armhf"
    [] OTHER -> arch
Cut == {NoVariant, "hardfloat", "softfloat", "v1", "v2", "v3", "v4"}
linuxArch(key) ==
  IF \A f \in VariantFields : key[3][f] \in Cut \/ (f = "goarm" /\ key[3][f] \in {"6", "7"})
    THEN archToSnap(key[2]) ELSE "unknown"
snapped(c) == {a \in arts : a.goos = "linux" /\ a.type = "Binary" /\ ByIDs(a, c.ids)}
snapTasks(i) ==
  LET c == cfg.snaps[i] IN
  IF c.disable THEN {}
  ELSE {Task("snapcraft", i, "snap", Group(snapped(c), k)) :
          k \in {p \in Platforms(snapped(c)) : isValidArch(linuxArch(p))}}
snapPath(head) == <<"snap", PlatformName(head)>>
snapArtifact(head, contents) ==
  [MadeOf(head, {}) EXCEPT !.type = "PublishableSnapcraft", !.name = snapPath(head),
     !.path = snapPath(head), !.of = contents]

(* flatpak knows two architectures.                                        *)
bundled(c) ==
  {a \in arts : a.goos = "linux" /\ a.type = "Binary" /\ ByGoarches(a, {"amd64", "arm64"}) /\ ByIDs(a, c.ids)}
flatpakTasks(i) ==
  LET c == cfg.flatpaks[i] IN
  IF c.disable THEN {} ELSE {Task("flatpak", i, "flatpak", g) : g \in GroupByPlatform(bundled(c))}
flatpakArtifact(c, head, bins) ==
  [MadeOf(head, bins) EXCEPT !.type = "Flatpak", !.id = c.id, !.format = "flatpak",
     !.name = <<"flatpak", PlatformName(head)>>, !.path = <<"flatpak", PlatformName(head)>>]

(* sbom: what a configuration catalogs; "any" runs its command once, and a *)
(* kind of artifacts it does not know fails the configuration.             *)
validSBOM(c) == c.disable \/ c.artifacts \in {"source", "archive", "binary", "package", "any"}
catalogued(c) ==
  CASE c.artifacts = "source" -> {a \in arts : a.type = "UploadableSourceArchive" /\ ByIDs(a, c.ids)}
    [] c.artifacts = "archive" -> {a \in arts : a.type = "UploadableArchive" /\ ByIDs(a, c.ids)}
    [] c.artifacts = "binary" -> {a \in arts : ByBinaryLikeArtifacts(a, arts) /\ ByIDs(a, c.ids)}
    [] c.artifacts = "package" -> {a \in arts : a.type = "LinuxPackage" /\ ByIDs(a, c.ids)}
    [] OTHER -> {}
sbomTasks(i) ==
  LET c == cfg.sboms[i] IN
  IF c.disable THEN {}
  ELSE IF c.artifacts = "any" THEN {Task("sbom", i, "sbom", {})}
  ELSE ForEach("sbom", i, "sbom", catalogued(c))
sbomName(bins) == <<"sbom", {<<b.name, PlatformName(b)>> : b \in bins}>>
sbomArtifact(c, bins) ==
  [Blank EXCEPT !.type = "SBOM", !.id = c.id, !.name = sbomName(bins), !.path = sbomName(bins),
     !.of = Paths(bins)]
=============================================================================
