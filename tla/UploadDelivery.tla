--------------------------- MODULE UploadDelivery ---------------------------
(***************************************************************************)
(* The other ways out: files to buckets and servers, Custom Apps, the      *)
(* release itself as a whole, the MCP registry, milestones, custom         *)
(* publishers and announcements.                                           *)
(***************************************************************************)
EXTENDS Delivery, Announcers

Takes(to, what) == [to |-> to, what |-> what]
Sending(x) == sent' = sent \cup {x}
Elsewhere == UNCHANGED <<fixed, dist, forges, registry>>
Retries(j) == j \in todo /\ UNCHANGED <<place, memo, result, cause>>
-----------------------------------------------------------------------------
(* One file to one place: blob, upload, artifactory, custompublishers. A   *)
(* request that failed may have been taken.                                *)
PlaceOf ==
  [blob |-> "bucket", upload |-> "name", artifactory |-> "name", custompublishers |-> "name"]
Deliver(j) ==
  LET to == <<Pipe, Configured[j.at][PlaceOf[Pipe]]>> IN
  /\ Publishes /\ Pipe \in DOMAIN PlaceOf
  /\ \/ Done(j) /\ Sending(Takes(to, j.what.path))
     \/ Unfortunate(j, "upload") /\ (UNCHANGED sent \/ Sending(Takes(to, j.what.path)))
  /\ Elsewhere /\ UNCHANGED <<arts, apps, records>>
-----------------------------------------------------------------------------
(* iru: the place to upload to is asked for, the file uploaded, and an app *)
(* created of it, or one updated. Only creating is not done twice.         *)
Refuse(j) ==
  /\ Pipe = "iru" /\ j.phase = "refused" /\ Refused(j, "config")
  /\ Elsewhere /\ UNCHANGED <<arts, sent, apps, records>>
UploadFile(j) ==
  /\ Pipe = "iru" /\ j.phase = "start"
  /\ Proceeds(j, {}, "create") \/ Unfortunate(j, "s3")
  /\ Elsewhere /\ UNCHANGED <<arts, sent, apps, records>>

NewApp(a) ==
  LET n == Cardinality({x \in apps : x.of = a.path /\ x.run = run}) IN [of |-> a.path, run |-> run, n |-> n]
CreateApp(j) ==
  /\ Pipe = "iru" /\ j.phase = "create" /\ Configured[j.at].libraryItem = ""
  /\ \/ Done(j) /\ apps' = apps \cup {NewApp(j.what)}
     \/ \E answer \in {"503", "429", "500", "lost"} :
          /\ Unlucky("create")
          /\ \/ UNCHANGED apps
             \/ answer \notin {"503", "429"} /\ apps' = apps \cup {NewApp(j.what)}
          /\ (isCleanRejection(answer) /\ Retries(j)) \/ Breaks(j, "fault")
  /\ Elsewhere /\ UNCHANGED <<arts, sent, records>>
UpdateApp(j) ==
  LET x == Takes(<<"iru", Configured[j.at].libraryItem>>, j.what.path) IN
  /\ Pipe = "iru" /\ j.phase = "create" /\ Configured[j.at].libraryItem # ""
  /\ \/ Done(j) /\ Sending(x)
     \/ Unfortunate(j, "update") /\ (UNCHANGED sent \/ Sending(x))
  /\ Elsewhere /\ UNCHANGED <<arts, apps, records>>
-----------------------------------------------------------------------------
(* The release as a whole: see GitHubRelease and ForgeRelease for how it   *)
(* comes about. Its extra files become artifacts, unless nothing is        *)
(* uploaded. GitHub's is a draft until it has all its assets; the others   *)
(* show each asset. GitHub and GitLab refuse an asset that is there,       *)
(* unless the old one is to be replaced; Gitea keeps both.                 *)
Assets(c) ==
  {a \in arts \cup ExtraFiles(c) :
     /\ ByTypes(a, ReleaseUploadableTypes \cup (IF c.includeMeta THEN {"Metadata"} ELSE {}))
     /\ ByIDs(a, c.ids)}
Shown(assets) == IF ctx.forge = "github" /\ released = {} THEN {{}, assets} ELSE SUBSET assets
AlreadyExists(c, assets) ==
  ctx.forge # "gitea" /\ ~c.replaceExistingArtifacts /\ released \cap assets # {}
Release(j) ==
  LET c == cfg.release
      more == IF c.skipUpload THEN {} ELSE ExtraFiles(c)
      assets == IF c.skipUpload THEN {} ELSE {a.path : a \in Assets(c)} IN
  /\ Pipe = "release"
  /\ \/ /\ IF AlreadyExists(c, assets) THEN Refused(j, "assets") ELSE Done(j)
        /\ arts' = arts \cup more /\ released' = released \cup assets
     \/ /\ Unfortunate(j, "release") /\ arts' \in {arts, arts \cup more}
        /\ \E some \in Shown(assets) : released' = released \cup some
  /\ Elsewhere /\ UNCHANGED <<sent, apps, digests, signatures, announced>>

(* metadata: the list of artifacts is written when they are published. The *)
(* file is there, or cut short, when that fails; nothing here reads it.    *)
writeArtifacts(j) ==
  /\ Pipe = "metadata.Artifacts"
  /\ Done(j) \/ Unfortunate(j, "artifacts")
  /\ files' = [p \in DOMAIN files \cup {<<"artifacts.json">>} |-> IF p \in DOMAIN files THEN files[p] ELSE {}]
  /\ UNCHANGED <<fixed, arts, manifests, clones, forges, stores, records>>

(* mcp: the registry takes a version once, so after an answer that was     *)
(* lost the retry is refused.                                              *)
PublishServer(j) ==
  LET c == Configured[j.at]
      server == Takes(<<"mcp", c.name>>, <<ctx.tag.name>>)
      skips == c.name = "" \/ mcpDisabled(c, ctx.prerelease) IN
  /\ Pipe = "mcp"
  /\ \/ skips /\ Done(j) /\ UNCHANGED sent
     \/ ~skips /\ server \notin sent /\ Done(j) /\ Sending(server)
     \/ ~skips /\ server \in sent /\ Refused(j, "state") /\ UNCHANGED sent
     \/ ~skips /\ Unfortunate(j, "mcp") /\ (UNCHANGED sent \/ Sending(server))
  /\ Elsewhere /\ UNCHANGED <<arts, apps, records>>

CloseMilestone(j) ==
  LET c == Configured[j.at] IN
  /\ Pipe = "milestone"
  /\ \/ ~c.close /\ Done(j) /\ UNCHANGED sent
     \/ c.close /\ Done(j) /\ Sending(Takes(<<"milestone", c.repo>>, <<ctx.tag.name>>))
     \/ c.close /\ c.failOnError /\ Unfortunate(j, "milestone") /\ UNCHANGED sent
     \/ c.close /\ ~c.failOnError /\ Shrugged(j, "milestone") /\ UNCHANGED sent
  /\ Elsewhere /\ UNCHANGED <<arts, apps, records>>
-----------------------------------------------------------------------------
(* announce: an announcer's requests one after the other, each made again  *)
(* when it fails in a way the announcer retries.                           *)
Post(name) ==
  announced' = announced \cup {[by |-> name, n |-> Cardinality({x \in announced : x.by = name})]}
Announcing(j) == AnnouncerOf(Configured[j.at])
StartAnnouncing(j) ==
  LET c == Configured[j.at] IN
  /\ Pipe = "announce" /\ j.phase = "start"
  /\ IF Announcing(j).skip THEN Done(j)
     ELSE IF announceErrs(c, world.env) THEN Refused(j, "config")
     ELSE Proceeds(j, {}, Announcing(j).requests[1])
  /\ Elsewhere /\ UNCHANGED <<arts, sent, apps, records>>
Request(j) ==
  LET name == Configured[j.at].name IN
  /\ Pipe = "announce" /\ j.phase # "start"
  /\ \/ j.phase # "post" /\ Proceeds(j, {}, "post") /\ UNCHANGED announced
     \/ j.phase = "post" /\ Done(j) /\ Post(name)
     \/ \E failure \in Failures :
          /\ Unlucky("announce")
          /\ UNCHANGED announced \/ (j.phase = "post" /\ failure # "client" /\ Post(name))
          /\ IF failure \in Announcing(j).again THEN Retries(j) ELSE Breaks(j, "fault")
  /\ Elsewhere /\ UNCHANGED <<arts, sent, apps, released, digests, signatures>>

UploadStep(j) ==
  \/ Deliver(j) \/ Refuse(j) \/ UploadFile(j) \/ CreateApp(j) \/ UpdateApp(j)
  \/ Release(j) \/ writeArtifacts(j) \/ PublishServer(j) \/ CloseMilestone(j)
  \/ StartAnnouncing(j) \/ Request(j)
=============================================================================
