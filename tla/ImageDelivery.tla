--------------------------- MODULE ImageDelivery ---------------------------
(***************************************************************************)
(* Docker images on their way to a registry, and what is said about them   *)
(* there: built and pushed one by one (docker), joined in manifests        *)
(* (docker manifest), built and pushed in one go for several platforms     *)
(* (dockerv2, ko), written to the digests file and signed.                 *)
(*                                                                         *)
(* The registry is a set of pairs of name and digest, one for each name.   *)
(* What is built again has another digest.                                 *)
(***************************************************************************)
EXTENDS Delivery

DigestOf(i) == <<Pipe, i, run>>
Registered(new) == registry' = {x \in registry : \A n \in new : n[1] # x[1]} \cup new
Local == UNCHANGED <<fixed, dist, forges, sent, apps, released, announced>>
Quiet == UNCHANGED <<digests, signatures>>
-----------------------------------------------------------------------------
(* docker: build an image, whose names are pushed later, each on its own.  *)
BuildImage(j) ==
  LET d == Configured[j.at] IN
  /\ Pipe = "docker" /\ ~Publishes
  /\ \/ dockerSkips(d) /\ Done(j) /\ UNCHANGED arts
     \/ ~dockerSkips(d) /\ Done(j) /\ arts' = arts \cup PublishableImages(d, j.at)
     \/ ~dockerSkips(d) /\ Unfortunate(j, "docker build") /\ UNCHANGED arts
  /\ Local /\ Quiet /\ UNCHANGED registry

PushImage(j) ==
  LET i == j.what.format
      d == Configured[i]
      digest == DigestOf(i) IN
  /\ Pipe = "docker" /\ Publishes
  /\ \/ SkipsUpload(d, ctx.prerelease) /\ Done(j) /\ UNCHANGED <<arts, registry>>
     \/ /\ ~SkipsUpload(d, ctx.prerelease) /\ Done(j)
        /\ Registered({<<j.what.name, digest>>}) /\ arts' = arts \cup {Pushed(j.what, d, digest)}
     \/ /\ ~SkipsUpload(d, ctx.prerelease) /\ Unfortunate(j, "docker push") /\ UNCHANGED arts
        /\ UNCHANGED registry \/ Registered({<<j.what.name, digest>>})
  /\ Local /\ Quiet

(* docker manifest: an image goes in by the digest it was pushed with, or, *)
(* where that is not known, with what the registry has under its name.     *)
Resolved(images) ==
  {<<x[1], IF x[2] # NoDigest THEN x[2] ELSE (CHOOSE y \in registry : y[1] = x[1])[2]>> : x \in images}
InRegistry(x) == x[2] # NoDigest \/ \E y \in registry : y[1] = x[1]
PushManifest(j) ==
  LET m == Configured[j.at]
      images == manifestImages(m)
      skips == manifestSkips(m, ctx.prerelease)
      digest == DigestOf(j.at) IN
  /\ Pipe = "docker.Manifest"
  /\ \/ skips /\ Done(j) /\ UNCHANGED <<arts, registry>>
     \/ /\ ~skips /\ ~(\A x \in images : InRegistry(x)) /\ Refused(j, "state")
        /\ UNCHANGED <<arts, registry>>
     \/ /\ ~skips /\ \A x \in images : InRegistry(x)
        /\ \/ /\ Done(j) /\ Registered({<<m.name, digest>>})
              /\ arts' = arts \cup {ManifestArtifact(m, Resolved(images), digest)}
           \/ /\ Unfortunate(j, "manifest push") /\ UNCHANGED arts
              /\ UNCHANGED registry \/ Registered({<<m.name, digest>>})
  /\ Local /\ Quiet
-----------------------------------------------------------------------------
(* dockerv2: what is built is pushed with it, and the post hook runs only  *)
(* then; a snapshot keeps it on this machine.                              *)
BuildPush(j) ==
  LET d == Configured[j.at]
      digest == DigestOf(j.at)
      names == makeImageList(d.images, d.tags)
      pushed == {<<n, digest>> : n \in names}
      images == {V2Image(d, n, digest) : n \in names} IN
  /\ Pipe \in {"dockerv2.Publish", "dockerv2.Snapshot"}
  /\ \/ v2Skips(d) /\ Done(j) /\ UNCHANGED <<arts, registry>>
     \/ ~v2Skips(d) /\ v2Errs(d) /\ Refused(j, "config") /\ UNCHANGED <<arts, registry>>
     \/ /\ ~v2Skips(d) /\ ~v2Errs(d)
        /\ \/ Done(j) /\ arts' = arts \cup images
           \/ Unfortunate(j, "post hook") /\ UNCHANGED arts
        /\ IF Publishes THEN Registered(pushed) ELSE UNCHANGED registry
     \/ ~v2Skips(d) /\ ~v2Errs(d) /\ Unfortunate(j, "buildx") /\ UNCHANGED <<arts, registry>>
  /\ Local /\ Quiet

(* ko: the first repository gets the image, the others copies of it; a     *)
(* snapshot goes to the local daemon only.                                 *)
KoName(k, repo) == <<repo, k.id>>
KoArtifact(k, name, digest) ==
  [Blank EXCEPT !.type = "DockerManifest", !.name = name, !.path = name, !.id = k.id, !.key = digest]
KoBuild(j) ==
  LET k == Configured[j.at]
      name == KoName(k, k.repositories[1])
      digest == DigestOf(j.at)
      rest == IF ctx.snapshot THEN {} ELSE {KoName(k, k.repositories[i]) : i \in 2..Len(k.repositories)} IN
  /\ Pipe = "ko" /\ j.phase = "start"
  /\ \/ k.disable /\ Done(j) /\ UNCHANGED <<arts, registry>>
     \/ /\ ~k.disable /\ arts' = arts \cup {KoArtifact(k, name, digest)}
        /\ IF ctx.snapshot THEN UNCHANGED registry ELSE Registered({<<name, digest>>})
        /\ IF rest = {} THEN Done(j) ELSE Proceeds(j, rest, "copy")
     \/ ~k.disable /\ Unfortunate(j, "ko build") /\ UNCHANGED <<arts, registry>>
  /\ Local /\ Quiet
CopyImage(j, name) ==
  LET k == Configured[j.at]
      digest == DigestOf(j.at)
      left == j.left \ {name} IN
  /\ Pipe = "ko" /\ j.phase = "copy" /\ name \in j.left
  /\ \/ /\ IF left = {} THEN Done(j) ELSE Proceeds(j, left, "copy")
        /\ Registered({<<name, digest>>}) /\ arts' = arts \cup {KoArtifact(k, name, digest)}
     \/ Unfortunate(j, "copy") /\ UNCHANGED <<arts, registry>>
  /\ Local /\ Quiet
-----------------------------------------------------------------------------
(* The digests file, in dist; a write that fails may have emptied it.      *)
WriteDigests(j) ==
  /\ Pipe = "dockerdigest"
  /\ \/ Done(j) /\ digests' = Digests
     \/ Unfortunate(j, "digests") /\ digests' \in {digests, {}}
  /\ Local /\ UNCHANGED <<arts, registry, signatures>>

(* docker_signs: cosign signs by digest, and puts the signature next to    *)
(* the image.                                                              *)
SignImages(j) ==
  LET s == Configured[j.at]
      signed == {<<a.name, a.key>> : a \in SignedImages(s)} IN
  /\ Pipe = "sign.Docker"
  /\ \/ Done(j) /\ signatures' = signatures \cup signed
     \/ \E some \in SUBSET signed :
          some # signed /\ Unfortunate(j, "cosign") /\ signatures' = signatures \cup some
  /\ Local /\ UNCHANGED <<arts, registry, digests>>

(* snapcraft: a snap that waits for a review has been taken.               *)
PushSnap(j) ==
  LET snap == j.what IN
  /\ Pipe = "snapcraft"
  /\ \/ /\ Done(j) /\ sent' = sent \cup {<<"snap store", snap.path>>}
        /\ arts' = (arts \ {snap}) \cup {[snap EXCEPT !.type = "Snapcraft"]}
     \/ Unfortunate(j, "snap push") /\ UNCHANGED <<sent, arts>>
  /\ UNCHANGED <<fixed, dist, forges, registry, apps, records>>

ImageStep(j) ==
  \/ BuildImage(j) \/ PushImage(j) \/ PushManifest(j)
  \/ BuildPush(j) \/ KoBuild(j) \/ (\E name \in j.left : CopyImage(j, name))
  \/ WriteDigests(j) \/ SignImages(j) \/ PushSnap(j)
=============================================================================
