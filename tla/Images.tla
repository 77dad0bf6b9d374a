------------------------------- MODULE Images -------------------------------
(***************************************************************************)
(* Docker images: what goes into them, what they are called, what their    *)
(* manifests list and what is signed. docker, docker manifest, dockerv2,   *)
(* ko, docker digest and docker_signs.                                     *)
(***************************************************************************)
EXTENDS Taps

(* Defaults. An image is for linux/amd64 unless told otherwise; ko takes   *)
(* its repository from the environment when that names one.                *)
dockerDefault(d) ==
  [d EXCEPT !.goos = OrText(@, "linux"), !.goarch = OrText(@, "amd64"),
            !.goamd64 = OrText(@, "v1"), !.goarm = OrText(@, "6")]
dockerV2Default(d) ==
  [d EXCEPT !.id = OrText(@, ProjectName), !.tags = IF @ = {} THEN {"tag"} ELSE @,
            !.platforms = IF @ = {} THEN {<<"linux", "amd64", "">>, <<"linux", "arm64", "">>} ELSE @]
koDefault(k, env) ==
  [k EXCEPT !.id = OrText(@, ProjectName),
            !.repositories = IF env # "" THEN <<env>> ELSE @]
dockerSignDefault(s) == [s EXCEPT !.id = OrText(@, "default")]

(* An id is optional for an image and a manifest, and names one of them.   *)
DistinctIDs(seq) == \A i, j \in DOMAIN seq : seq[i].id = seq[j].id => i = j \/ seq[i].id = ""
ValidImages(c) ==
  /\ DistinctIDs(c.dockers) /\ DistinctIDs(c.dockerManifests) /\ DistinctIDs(c.dockersV2)
  /\ DistinctIDs(c.kos) /\ DistinctIDs(c.dockerSigns)
  /\ \A i \in DOMAIN c.kos : c.kos[i].repositories # <<>>
-----------------------------------------------------------------------------
NoDigest == <<>>
Copied == {"Binary", "LinuxPackage", "CArchive", "CShared"}
Wheels(ids) == {a \in arts : a.type = "PyWheel" /\ ByIDs(a, ids)}

(* docker: one platform; with ids, an artifact of every one of them.       *)
dockerArtifacts(d) ==
  {a \in arts : /\ a.goos = d.goos /\ a.goarch = d.goarch /\ ByTypes(a, Copied)
                /\ AtLevel(a, d) /\ AtFloat(a, {d.goarm}) /\ ByIDs(a, d.ids)}
  \cup Wheels(d.ids)
dockerSkips(d) ==
  \/ d.ids # {} /\ Cardinality(GroupByID(dockerArtifacts(d))) # Cardinality(d.ids)
  \/ d.images = {}
PublishableImages(d, i) ==
  {[Blank EXCEPT !.type = "PublishableDockerImage", !.name = img, !.path = img,
      !.goos = d.goos, !.goarch = d.goarch, !.format = i, !.key = NoDigest] : img \in d.images}

(* dockerv2: the platforms of a configuration, of which amd64 is v1 where  *)
(* it does not say, arm and arm64 any.                                     *)
parsePlatform(p) ==
  [os |-> p[1], arch |-> p[2], level |-> IF p[2] = "amd64" THEN OrText(p[3], "v1") ELSE p[3]]
byGoarm64(a, level) == a.variant["goarm64"] \in {level} \cup (IF level = "v8.0" THEN {NoVariant} ELSE {})
OnPlatform(a, p) ==
  LET plat == parsePlatform(p) IN
  /\ a.goos = plat.os /\ a.goarch = plat.arch
  /\ plat.arch = "amd64" => ByGoamd64s(a, {plat.level})
  /\ plat.arch = "arm" /\ plat.level # "" => ByGoarms(a, {plat.level})
  /\ plat.arch = "arm64" /\ plat.level # "" => byGoarm64(a, plat.level)
contextArtifacts(d) ==
  {a \in arts : (\E p \in d.platforms : OnPlatform(a, p)) /\ ByTypes(a, Copied) /\ ByIDs(a, d.ids)}
  \cup Wheels(d.ids)

(* Where an artifact is put in the context, for its Dockerfile to find it  *)
(* by platform; what runs anywhere is put under every one.                 *)
toPlatform_NoLevel(a) == <<a.goos, a.goarch, IF a.goarch = "arm" THEN a.variant["goarm"] ELSE NoVariant>>
toPlatform(a) ==
  <<a.goos, a.goarch,
    CASE a.goarch = "amd64" /\ a.variant["goamd64"] # "v1" -> a.variant["goamd64"]
      [] a.goarch = "arm" -> a.variant["goarm"]
      [] OTHER -> NoVariant>>
makeContext(d) ==
  UNION {IF a.goos = "all" THEN {<<p, a.name, a.path>> : p \in d.platforms}
         ELSE {<<toPlatform(a), a.name, a.path>>} : a \in contextArtifacts(d)}
makeImageList(imgs, tags) == {<<i, t>> : i \in imgs, t \in tags}
v2Skips(d) == d.disable \/ d.platforms = {} \/ d.images = {} \/ ~d.dockerfile
supported(a) ==
  /\ a.goos \in {"linux", "windows"}
  /\ a.goarch = "arm" => a.variant["goarm"] \in {"5", "6", "7"}
  /\ a.goarch \in {"arm64", "386", "ppc64le", "s390x", "riscv64", "amd64", "arm"}
v2Errs(d) == \E a \in contextArtifacts(d) : a.goos # "all" /\ ~supported(a)
V2Image(d, name, digest) ==
  [Blank EXCEPT !.type = "DockerImageV2", !.name = name, !.path = name, !.id = d.id, !.key = digest]
-----------------------------------------------------------------------------
(* An image that was pushed, and a manifest: which images by which digest. *)
(* A name that is not among the images pushed goes in without a digest.    *)
Pushed(image, d, digest) == [image EXCEPT !.type = "DockerImage", !.id = d.id, !.key = digest]
withDigest(name, images) ==
  LET known == {a \in images : a.name = name} IN
  <<name, IF known = {} THEN NoDigest ELSE (CHOOSE a \in known : TRUE).key>>
manifestImages(m) ==
  {withDigest(img, {a \in arts : a.type = "DockerImage"}) : img \in m.images}
manifestSkips(m, prerelease) ==
  SkipsUpload(m, prerelease) \/ m.name = <<>> \/ m.images = {}
ManifestArtifact(m, images, digest) ==
  [Blank EXCEPT !.type = "DockerManifest", !.name = m.name, !.path = m.name, !.id = m.id,
                !.of = images, !.key = digest]

(* The digests file, and what a docker_signs configuration signs.          *)
InDigests_Built == {"DockerImageV2", "PublishableDockerImage", "DockerManifest"}
InDigests == {"DockerImageV2", "DockerImage", "DockerManifest"}
Digests == {<<a.name, a.key>> : a \in {x \in arts : x.type \in InDigests}}
Signable(s) ==
  CASE s.artifacts = "images" -> {"DockerImage", "DockerImageV2"}
    [] s.artifacts = "manifests" -> {"DockerManifest", "DockerImageV2"}
    [] s.artifacts = "all" -> {"DockerImage", "DockerManifest", "DockerImageV2"}
    [] s.artifacts = "none" -> {}
    [] s.artifacts = "" -> {"DockerImageV2"}
SignedImages(s) == {a \in arts : a.type \in Signable(s) /\ ByIDs(a, s.ids)}
=============================================================================
