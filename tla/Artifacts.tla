----------------------------- MODULE Artifacts -----------------------------
(***************************************************************************)
(* The artifacts of a release and the list that holds them:                *)
(* internal/artifact. Pipes add what they make, and select what they work  *)
(* on with filters that combine. A filter is a predicate here; a filter    *)
(* made from an empty list of alternatives is nil in the code and lets     *)
(* everything through.                                                     *)
(*                                                                         *)
(* A list is a set: no pipe depends on its order, and two entries that     *)
(* agree in every field are one. goarm, gomips, goarm64 and the other      *)
(* variants of an architecture are one function over VariantFields.        *)
(***************************************************************************)
EXTENDS Naturals, FiniteSets

CONSTANTS
  VariantFields,   \* the fields that tell variants of an architecture apart
  NoVariant        \* the empty value of such a field

Baseline == [f \in VariantFields |-> NoVariant]

(* The fields of an artifact, empty; a pipe fills in what it knows: of is  *)
(* what it is made of, by path, and key what it is signed with inside, or  *)
(* the digest of an image.                                                 *)
Blank ==
  [type |-> "none", name |-> <<>>, path |-> <<>>, goos |-> "", goarch |-> "",
   variant |-> Baseline, id |-> "", format |-> "", replaces |-> TRUE,
   dynamic |-> FALSE, of |-> {}, key |-> ""]

Types ==
  {"UploadableArchive", "UploadableBinary", "UploadableFile", "Binary",
   "UniversalBinary", "LinuxPackage", "PublishableSnapcraft", "Snapcraft",
   "PublishableDockerImage", "DockerImage", "DockerManifest", "Checksum",
   "Signature", "Certificate", "UploadableSourceArchive", "BrewFormula",
   "BrewCask", "Nixpkg", "WingetInstaller", "WingetDefaultLocale",
   "WingetVersion", "WingetLocale", "PkgBuild", "SrcInfo", "SourcePkgBuild",
   "SourceSrcInfo", "KrewPluginManifest", "ScoopManifest", "SBOM",
   "PublishableChocolatey", "Header", "CArchive", "CShared", "PyWheel",
   "PySdist", "Metadata", "Makeself", "DockerImageV2", "Flatpak",
   "SourceRPM", "MSIX"}

ReleaseUploadableTypes ==
  {"UploadableArchive", "UploadableBinary", "UploadableFile",
   "UploadableSourceArchive", "Makeself", "LinuxPackage", "MSIX", "Flatpak",
   "SourceRPM", "SBOM", "PyWheel", "PySdist", "Checksum", "Signature",
   "Certificate"}

ExtraOr(e, key, or) == IF key \in DOMAIN e THEN e[key] ELSE or
-----------------------------------------------------------------------------
(* autoOr: any of the alternatives, of which some match; no alternative is  *)
(* no restriction.                                                         *)
autoOr(in, matching) == in = {} \/ matching # {}

ByGooses(a, in) == autoOr(in, {s \in in : a.goos = s})
ByGoarches(a, in) == autoOr(in, {s \in in : a.goarch = s})

(* An artifact that does not say which variant it is is the default one.   *)
ByVariant(a, f, arch, default, s) ==
  a.variant[f] = s \/ (a.goarch = arch /\ a.variant[f] = NoVariant /\ s = default)
ByGoamd64s(a, in) == autoOr(in, {s \in in : ByVariant(a, "goamd64", "amd64", "v1", s)})
ByGoarms(a, in) == autoOr(in, {s \in in : ByVariant(a, "goarm", "arm", "6", s)})

ByTypes(a, in) == autoOr(in, {t \in in : a.type = t})
ByFormats(a, in) == autoOr(in, {s \in in : a.format = s})

(* Checksums, sources and loose files belong to every id.                  *)
OfEveryID == {"Checksum", "UploadableSourceArchive", "SourceRPM", "UploadableFile", "Metadata"}
ByIDs(a, in) == autoOr(in, {id \in in : a.type \in OfEveryID \/ a.id = id})

OnlyReplacingUnibins(a) == a.replaces

(* The binaries, without those a binary that is uploaded as it is shares a *)
(* path with.                                                              *)
ByBinaryLikeArtifacts_Both(a, arts) ==
  ByTypes(a, {"Binary", "UploadableBinary", "UniversalBinary"})
ByBinaryLikeArtifacts(a, arts) ==
  /\ ByTypes(a, {"Binary", "UploadableBinary", "UniversalBinary"})
  /\ \/ a.type = "UploadableBinary"
     \/ ~\E b \in arts : b.type = "UploadableBinary" /\ b.path = a.path
-----------------------------------------------------------------------------
(* Add adds, also what has the name of another, with a warning.            *)
Add(arts, a) == arts \union {a}

(* GroupByID: artifacts without an id are in no group.                     *)
GroupByID(arts) ==
  {{a \in arts : a.id = id} : id \in {a.id : a \in arts} \ {""}}

(* GroupByPlatform: by goos and goarch, unless two variants of any field   *)
(* occur anywhere in the list; then by every field.                        *)
nonEmpty(arts, f) == {a.variant[f] : a \in arts} \ {NoVariant}
Specific_Never(arts) == FALSE
Specific(arts) == \E f \in VariantFields : Cardinality(nonEmpty(arts, f)) > 1
Simple(a) == <<a.goos, a.goarch, Baseline>>
Full(a) == <<a.goos, a.goarch, a.variant>>
Key(a, arts) == IF Specific(arts) THEN Full(a) ELSE Simple(a)
Group(arts, k) == {a \in arts : Key(a, arts) = k}
Platforms(arts) == {Key(a, arts) : a \in arts}
GroupByPlatform(arts) == {Group(arts, k) : k \in Platforms(arts)}
=============================================================================
