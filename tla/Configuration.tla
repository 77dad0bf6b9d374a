--------------------------- MODULE Configuration ---------------------------
(***************************************************************************)
(* .goreleaser.yaml: the types of pkg/config, with the settings that       *)
(* change what the program does and without those that only word it.       *)
(* A template is the value it has; "unset" is a pointer that is nil.       *)
(***************************************************************************)
EXTENDS Sequences

Texts == SUBSET STRING
Toggle == {"", "true", "auto"}
Tristate == {"unset", "", "true"} \cup STRING
-----------------------------------------------------------------------------
(* Manifests for package managers. What one of them does not have is "".   *)
RepoRef ==
  [name : STRING, branch : STRING, pullRequest : BOOLEAN, git : STRING, key : BOOLEAN]
Tap ==
  [name : STRING, ids : Texts, goamd64 : STRING, goarm : STRING, repository : RepoRef,
   skipUpload : Toggle, disable : BOOLEAN, described : BOOLEAN,
   locale : STRING, locales : Seq(STRING)]
(* Images.                                                                 *)
Docker ==
  [id : STRING, goos : STRING, goarch : STRING, goamd64 : STRING, goarm : STRING, ids : Texts,
   images : SUBSET Seq(STRING), skipUpload : Toggle]
DockerManifest == [id : STRING, name : Seq(STRING), images : SUBSET Seq(STRING), skipUpload : Toggle]
DockerV2 ==
  [id : STRING, images : Texts, tags : Texts, platforms : SUBSET (STRING \X STRING \X STRING),
   ids : Texts, disable : BOOLEAN, dockerfile : BOOLEAN]
Ko == [id : STRING, repositories : Seq(STRING), disable : BOOLEAN]
DockerSign == [id : STRING, artifacts : {"", "all", "images", "manifests", "none"}, ids : Texts]
DockerDigest == [disable : BOOLEAN]
(* Files and apps.                                                         *)
Upload ==
  [name : STRING, target : STRING, mode : STRING, method : STRING,
   username : STRING, password : STRING, clientCert : STRING, clientKey : STRING, skip : BOOLEAN,
   checksum : BOOLEAN, meta : BOOLEAN, signature : BOOLEAN, ids : Texts, exts : Texts,
   extraFilesOnly : BOOLEAN, extraFiles : Texts]
Blob ==
  [bucket : STRING, provider : STRING, disable : BOOLEAN, includeMeta : BOOLEAN, ids : Texts,
   extraFilesOnly : BOOLEAN, extraFiles : Texts]
Publisher ==
  [name : STRING, disable : BOOLEAN, checksum : BOOLEAN, meta : BOOLEAN, signature : BOOLEAN,
   ids : Texts, extraFiles : Texts]
Iru ==
  [libraryItem : STRING, installType : STRING, installEnforcement : STRING, token : STRING, ids : Texts,
   unzip : Tristate, audit : Tristate, category : Tristate, selfService : Tristate, recommended : Tristate]
MCP == [name : STRING, github : STRING, disable : Toggle]
Release ==
  [disable : BOOLEAN, forges : Texts, prerelease : Toggle, failOnError : BOOLEAN, ids : Texts,
   includeMeta : BOOLEAN, extraFiles : Texts, skipUpload : BOOLEAN, replaceExistingArtifacts : BOOLEAN]
Milestone == [repo : STRING, close : BOOLEAN, failOnError : BOOLEAN]
Announce == [name : STRING, enabled : BOOLEAN, given : Texts]
Build == [id : STRING, builder : STRING, runtime : STRING]
-----------------------------------------------------------------------------
(* What is packaged.                                                       *)
UniversalBinary == [id : STRING, ids : Texts, replace : BOOLEAN]
UPX == [enabled : BOOLEAN, goos : Texts, goarch : Texts, goamd64 : Texts, ids : Texts]
BinarySign == [id : STRING, ids : Texts, artifacts : STRING]
MacOSSignNotarize == [enabled : BOOLEAN, ids : Texts]
FormatOverride == [goos : STRING, formats : Texts]
Archive ==
  [id : STRING, ids : Texts, formats : Texts, overrides : Seq(FormatOverride), meta : BOOLEAN,
   uneven : BOOLEAN, template : STRING]
Keys == [{"deb"} -> STRING] \cup [{"deb", "rpm", "apk"} -> STRING]
NFPM ==
  [id : STRING, ids : Texts, formats : Texts, goamd64 : Texts, meta : BOOLEAN, template : STRING, keys : Keys]
Makeself ==
  [id : STRING, ids : Texts, goos : Texts, goarch : Texts, disable : BOOLEAN, script : BOOLEAN]
Snapcraft ==
  [id : STRING, ids : Texts, disable : BOOLEAN, publish : BOOLEAN, described : BOOLEAN, grade : STRING,
   channels : Texts]
Flatpak == [id : STRING, ids : Texts, disable : BOOLEAN, described : BOOLEAN]
SBOM == [id : STRING, ids : Texts, artifacts : STRING, disable : BOOLEAN]
-----------------------------------------------------------------------------
Packages ==
  [unibins : Seq(UniversalBinary), upxs : Seq(UPX), binarySigns : Seq(BinarySign), notary : Seq(MacOSSignNotarize),
   archives : Seq(Archive), source : BOOLEAN, nfpms : Seq(NFPM), srpm : BOOLEAN, makeselfs : Seq(Makeself),
   snaps : Seq(Snapcraft), flatpaks : Seq(Flatpak), sboms : Seq(SBOM), skips : Texts]
Project ==
  [aur : Seq(Tap), aursources : Seq(Tap), nix : Seq(Tap), winget : Seq(Tap), brew : Seq(Tap), cask : Seq(Tap),
   krew : Seq(Tap), scoop : Seq(Tap), chocolatey : Seq(Tap), dockers : Seq(Docker),
   dockerManifests : Seq(DockerManifest), dockersV2 : Seq(DockerV2), kos : Seq(Ko),
   dockerSigns : Seq(DockerSign), dockerDigest : DockerDigest, blob : Seq(Blob), upload : Seq(Upload),
   artifactory : Seq(Upload), iru : Seq(Iru), mcp : Seq(MCP), milestone : Seq(Milestone),
   custompublishers : Seq(Publisher), announce : Seq(Announce), builds : Seq(Build), release : Release]
=============================================================================
