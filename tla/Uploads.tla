------------------------------- MODULE Uploads -------------------------------
(***************************************************************************)
(* What goes to blob storage, http servers, Iru and custom publishers:     *)
(* internal/http and the pipes blob, upload, artifactory, iru, mcp,        *)
(* milestone and custompublishers (internal/exec).                         *)
(***************************************************************************)
EXTENDS Taps

(* An extra file is given to the release as it is.                         *)
UploadableFile(name) == [Blank EXCEPT !.type = "UploadableFile", !.name = <<name>>, !.path = <<"extra", name>>]
ExtraFiles(u) == {UploadableFile(name) : name \in u.extraFiles}

(* The one file the metadata pipe gives the release.                       *)
writeMetadata == [Blank EXCEPT !.type = "Metadata", !.name = <<"metadata.json">>, !.path = <<"metadata.json">>]
-----------------------------------------------------------------------------
(* blob: everything a release has, on any of several buckets at once.      *)
validBlob(b) == b.bucket # "" /\ b.provider # ""
artifactList(b) ==
  IF b.extraFilesOnly THEN {}
  ELSE {a \in arts : /\ ByTypes(a, ReleaseUploadableTypes \cup (IF b.includeMeta THEN {"Metadata"} ELSE {}))
                     /\ ByIDs(a, b.ids)}
blobFiles(b) == IF b.disable THEN {} ELSE artifactList(b) \cup ExtraFiles(b)
-----------------------------------------------------------------------------
(* http: credentials come in pairs, certificates too.                      *)
uploadDefault(u) == [u EXCEPT !.mode = OrText(@, "archive"), !.method = OrText(@, "PUT")]
CheckConfig(u) ==
  /\ u.target # "" /\ u.name # "" /\ u.mode \in {"archive", "binary"}
  /\ (u.username = "") = (u.password = "")
  /\ (u.clientCert = "") = (u.clientKey = "")

OfMode(mode) ==
  IF mode = "binary" THEN {"UploadableBinary"}
  ELSE {"UploadableArchive", "UploadableSourceArchive", "Makeself", "LinuxPackage", "Flatpak",
        "PySdist", "PyWheel", "SourceRPM"}
uploadTypes(u) ==
  OfMode(u.mode)
  \cup (IF u.checksum THEN {"Checksum"} ELSE {}) \cup (IF u.meta THEN {"Metadata"} ELSE {})
  \cup (IF u.signature THEN {"Signature", "Certificate"} ELSE {})
uploadOne(u) ==
  {a \in arts : ByTypes(a, uploadTypes(u)) /\ ByIDs(a, u.ids) /\ ByFormats(a, u.exts)}
uploadWithFilter(u) ==
  IF u.skip THEN {} ELSE ExtraFiles(u) \cup (IF u.extraFilesOnly THEN {} ELSE uploadOne(u))
-----------------------------------------------------------------------------
(* custompublishers: a command for each artifact.                          *)
filterArtifacts(p) ==
  {a \in arts :
     /\ ByTypes(a, {"UploadableArchive", "UploadableFile", "LinuxPackage", "UploadableBinary", "DockerImage",
                    "DockerManifest", "DockerImageV2", "UploadableSourceArchive", "SBOM", "PySdist", "PyWheel",
                    "SourceRPM"}
                   \cup (IF p.checksum THEN {"Checksum"} ELSE {}) \cup (IF p.meta THEN {"Metadata"} ELSE {})
                   \cup (IF p.signature THEN {"Signature", "Certificate"} ELSE {}))
     /\ ByIDs(a, p.ids)}
executePublisher(p) == IF p.disable THEN {} ELSE filterArtifacts(p) \cup ExtraFiles(p)
-----------------------------------------------------------------------------
(* iru: one Custom App for each macOS artifact. What an update leaves out  *)
(* keeps its value, which is not known here.                               *)
effectiveInstallType(c) == IF c.libraryItem = "" THEN OrText(c.installType, "zip") ELSE c.installType
effectiveInstallEnforcement(c) ==
  IF c.libraryItem = "" THEN OrText(c.installEnforcement, "install_once") ELSE c.installEnforcement
supportedExts == {"dmg", "pkg", "zip"}
installTypeExts == [package |-> "pkg", zip |-> "zip", image |-> "dmg"]
validateArtifact(c, a) ==
  LET type == effectiveInstallType(c) IN
  IF type = "" THEN a.format \in supportedExts
  ELSE type \in DOMAIN installTypeExts /\ a.format = installTypeExts[type]
Known(c, v) == v # "unset" \/ c.libraryItem = ""
Value(v) == IF v = "unset" THEN "" ELSE v
validateSettings(c) ==
  LET type == effectiveInstallType(c)
      enforcement == effectiveInstallEnforcement(c)
      hidden == Known(c, c.selfService) /\ Value(c.selfService) # "true"
      shown == Known(c, c.selfService) /\ Value(c.selfService) = "true" IN
  /\ type \in DOMAIN installTypeExts \cup {""}
  /\ enforcement \in {"", "install_once", "continuously_enforce", "no_enforcement"}
  /\ Known(c, c.unzip) /\ type # "" => (type = "zip") = (Value(c.unzip) # "")
  /\ Known(c, c.audit) /\ enforcement # "" =>
       (enforcement = "continuously_enforce") = (Value(c.audit) # "")
  /\ ~(enforcement = "no_enforcement" /\ hidden)
  /\ ~(Value(c.recommended) = "true" /\ hidden)
  /\ Known(c, c.category) => ~(shown /\ Value(c.category) = "") /\ ~(hidden /\ Value(c.category) # "")

CustomApps(c) ==
  {a \in arts : /\ ByTypes(a, {"UploadableArchive", "UploadableBinary"}) /\ ByIDs(a, c.ids)
                /\ a.goos = "darwin"}
iruErrs(c) ==
  \/ c.libraryItem = "templated empty" \/ c.token = "" \/ ~validateSettings(c)
  \/ c.libraryItem # "" /\ Cardinality(CustomApps(c)) > 1
  \/ \E a \in CustomApps(c) : ~validateArtifact(c, a)

(* What is known to have created nothing: 503 and 429.                     *)
isCleanRejection_Retriable(answer) == answer \in {"503", "429", "lost", "500"}
isCleanRejection(answer) == answer \in {"503", "429"}
-----------------------------------------------------------------------------
(* mcp: its deprecated place in the configuration is moved to the new one. *)
mcpDefault(c) == IF c.name = "" /\ c.github # "" THEN [c EXCEPT !.name = c.github] ELSE c
mcpDisabled(c, prerelease) == c.disable = "true" \/ (c.disable = "auto" /\ prerelease)

milestoneDefault(c) == [c EXCEPT !.repo = OrText(@, "origin")]
=============================================================================
