---------------------------- MODULE ForgeRelease ----------------------------
(***************************************************************************)
(* A release to GitLab or Gitea, with its notes: the changelog pipe, then  *)
(* doPublish of internal/pipe/release with the clients of                  *)
(* internal/client/gitlab.go and gitea.go against what the forge keeps for *)
(* one tag. Requests and replies get lost, requests are retried, uploads   *)
(* run concurrently, the command may be killed and started again.          *)
(*                                                                         *)
(* An asset of Gitea is a file. One of GitLab is a link to a file that was *)
(* uploaded before, either on its own address or, in the package registry, *)
(* on an address made from its name. A file is the run it comes from.      *)
(***************************************************************************)
EXTENDS Changelog, Integers, FiniteSets

CONSTANTS
  Artifacts,    \* the artifacts to upload, each with a name of its own
  Limit,        \* ctx.Parallelism
  MaxAttempts,  \* retry.attempts
  MaxFaults,    \* bound: requests and replies lost, and kills, in a history
  MaxRuns,      \* bound: how often the command is started
  Projects      \* configurations to consider, with the commits to tell of

VARIABLES
  cfg,       \* the configuration
  release,   \* the forge: what the tag has: none, draft or public
  notes,     \* the forge: its notes, a sequence of texts and who wrote each
  assets,    \* the forge: its assets
  packages,  \* the forge: GitLab's package registry, the run of each file
  serial,    \* the forge: assets created so far, their ids
  run,       \* which start of the command this is
  faults,    \* faults the rest of the history may still contain
  calm,      \* no fault in this run so far
  pc,        \* where the command is
  body,      \* ctx.ReleaseNotes, then the notes to send
  tries,     \* attempts used up of the current write request
  up,        \* client.Upload of each artifact
  result     \* what the run ended with

forge == <<release, notes, assets, packages, serial>>
vars == <<cfg, forge, run, faults, calm, pc, body, tries, up, result>>

Modes == {"", "keep-existing", "append", "prepend", "replace"}
ProjectRecord ==
  [forge : {"gitlab", "gitea"},
   draft : BOOLEAN,           \* release.draft, which GitLab does not have
   mode : Modes,              \* release.mode
   replaceAssets : BOOLEAN,   \* release.replace_existing_artifacts
   skipUpload : BOOLEAN,      \* release.skip_upload
   failOnError : BOOLEAN,     \* release.preflight.fail_on_error
   registry : BOOLEAN,        \* gitlab_urls.use_package_registry
   jobToken : BOOLEAN]        \* the token is GitLab's CI_JOB_TOKEN
Person == [username : STRING, email : STRING, name : STRING]
CommitRecord == [sha : STRING, message : Nat, authors : Seq(Person)]
GroupRecord == [title : STRING, regexp : SUBSET Nat, order : Int]
NotesRecord ==
  [skip : BOOLEAN, file : BOOLEAN, use : STRING, previous : BOOLEAN, sort : STRING,
   include : Seq(SUBSET Nat), exclude : Seq(SUBSET Nat), groups : Seq(GroupRecord)]

ASSUME ForgeAssumption ==
  /\ IsFiniteSet(Artifacts)
  /\ Limit \in Nat \ {0} /\ MaxAttempts \in Nat \ {0}
  /\ MaxFaults \in Nat /\ MaxRuns \in Nat \ {0}
  /\ \A p \in Projects :
       /\ p.release \in ProjectRecord
       /\ p.notes \in NotesRecord /\ p.log \in Seq(CommitRecord)
       \* A log has a commit once.
       /\ \A i, j \in DOMAIN p.log : p.log[i].sha = p.log[j].sha => i = j

opts == cfg.release
Idle == [at |-> "idle", outer |-> 0, target |-> 0, file |-> "none"]
Earlier == <<[run |-> 0, text |-> FromFile]>>
Named(u) == {a \in assets : a.name = u}

(* What somebody who downloads the asset gets.                             *)
InRegistry == opts.registry \/ opts.jobToken
Served(a) == IF a.file = "registry" THEN packages[a.name] ELSE a.run

(* Before the first run: nothing, or the release of an earlier attempt     *)
(* with notes and an asset.                                                *)
Init ==
  /\ cfg \in Projects
  /\ packages = [u \in Artifacts |-> 0]
  /\ \/ release = "none" /\ notes = <<>> /\ assets = {} /\ serial = 0
     \/ /\ release \in {"public"} \cup (IF opts.forge = "gitea" THEN {"draft"} ELSE {})
        /\ notes = Earlier /\ serial = 1
        /\ \E u \in Artifacts, f \in {"registry", "upload"} :
             /\ f = "registry" => opts.forge = "gitlab"
             /\ assets = {[id |-> 1, name |-> u, file |-> f, run |-> 0]}
  /\ run = 1 /\ faults = MaxFaults /\ calm = TRUE
  /\ pc = "preflight" /\ body = <<>> /\ tries = 0
  /\ up = [u \in Artifacts |-> Idle]
  /\ result = "none"
-----------------------------------------------------------------------------
End(r) == result' = r /\ pc' = "done" /\ UNCHANGED tries
Fault == faults > 0 /\ faults' = faults - 1 /\ calm' = FALSE
NoFault == UNCHANGED <<faults, calm>>
GoTo(p) == pc' = p /\ tries' = 0 /\ UNCHANGED result
RetryOrEnd ==
  \/ tries + 1 < MaxAttempts /\ tries' = tries + 1 /\ UNCHANGED <<pc, result>>
  \/ End("err")

(* CanRelease reads the project.                                           *)
Preflight ==
  /\ pc = "preflight"
  /\ \/ NoFault /\ GoTo("changelog")
     \/ Fault /\ (IF opts.failOnError THEN End("err") ELSE GoTo("changelog"))
  /\ UNCHANGED <<cfg, forge, run, body, up>>

(* The changelog pipe: the notes are in a file, or made of a log that git  *)
(* or the forge is asked for. To read any of them may fail.                *)
MakeNotes ==
  LET fails == ~cfg.notes.skip /\ ~cfg.notes.file
               /\ Fails(cfg.notes, cfg.log, opts.forge = "gitlab" /\ opts.jobToken) IN
  /\ pc = "changelog"
  /\ \/ /\ NoFault /\ fails /\ End("err") /\ UNCHANGED body
     \/ /\ NoFault /\ ~fails
        /\ \E text \in Texts(cfg.notes, cfg.log) : body' = <<[run |-> run, text |-> text]>>
        /\ GoTo("find")
     \/ Fault /\ ~cfg.notes.skip /\ End("err") /\ UNCHANGED body
  /\ UNCHANGED <<cfg, forge, run, up>>

(* getReleaseNotes: what becomes of the notes that are there.              *)
getReleaseNotes(existing, current) ==
  CASE opts.mode = "append" -> existing \o current
    [] opts.mode = "prepend" -> current \o existing
    [] opts.mode = "replace" -> current
    [] OTHER -> IF existing # <<>> THEN existing ELSE current

(* The release of the tag is read once, and the notes to send made from    *)
(* what it has; an error other than "not found" ends the command.          *)
FindRelease ==
  /\ pc = "find"
  /\ \/ /\ NoFault /\ release = "none"
        /\ GoTo("create") /\ UNCHANGED body
     \/ /\ NoFault /\ release # "none"
        /\ body' = getReleaseNotes(notes, body)
        /\ GoTo("update")
     \/ Fault /\ End("err") /\ UNCHANGED body
  /\ UNCHANGED <<cfg, forge, run, up>>

(* GitLab has no drafts; on Gitea release.draft decides at once.           *)
StartState == IF opts.forge = "gitea" /\ opts.draft THEN "draft" ELSE "public"
Opened ==
  /\ release' = StartState /\ notes' = body
  /\ UNCHANGED <<assets, packages, serial>>

(* A release that is there already, by a request whose reply was lost, is  *)
(* a conflict, and no reason to try again.                                 *)
CreateRelease ==
  /\ pc = "create"
  /\ \/ NoFault /\ release = "none" /\ Opened /\ GoTo("created")
     \/ NoFault /\ release # "none" /\ End("err") /\ UNCHANGED forge
     \/ Fault /\ (Opened \/ UNCHANGED forge) /\ RetryOrEnd
  /\ UNCHANGED <<cfg, run, body, up>>

(* Gitea's update also sends release.draft.                                *)
Sent_Again == getReleaseNotes(notes, body)
Sent == body
Edited ==
  /\ notes' = Sent
  /\ release' = IF opts.forge = "gitea" THEN StartState ELSE release
  /\ UNCHANGED <<assets, packages, serial>>

UpdateRelease ==
  /\ pc = "update"
  /\ \/ NoFault /\ Edited /\ GoTo("created")
     \/ Fault /\ (Edited \/ UNCHANGED forge) /\ RetryOrEnd
  /\ UNCHANGED <<cfg, run, body, up>>

(* PublishRelease of both does nothing.                                    *)
StartUploads ==
  /\ pc = "created"
  /\ IF opts.skipUpload THEN End("ok") ELSE GoTo("upload")
  /\ UNCHANGED <<cfg, forge, run, faults, calm, body, up>>
-----------------------------------------------------------------------------
(* client.Upload, one goroutine per artifact, Limit at a time.             *)
Active == {u \in Artifacts : up[u].at \notin {"idle", "ok", "failed"}}
Step(u, at) == up' = [up EXCEPT ![u].at = at]
InUpload(u, at) == pc = "upload" /\ up[u].at = at
Elsewhere == <<cfg, run, pc, body, tries, result>>

BeginUpload(u) ==
  /\ InUpload(u, "idle") /\ Cardinality(Active) < Limit
  /\ Step(u, "file")
  /\ UNCHANGED <<forge, faults, calm, Elsewhere>>

(* An attempt that failed in transit: from the start again, file and all.  *)
NextAttempt(u) ==
  \/ /\ up[u].outer + 1 < MaxAttempts
     /\ up' = [up EXCEPT ![u] = [Idle EXCEPT !.at = "file", !.outer = up[u].outer + 1]]
  \/ Step(u, "failed")

Attach(u, f) ==
  /\ assets' = assets \cup {[id |-> serial + 1, name |-> u, file |-> f, run |-> run]}
  /\ serial' = serial + 1
  /\ UNCHANGED <<release, notes, packages>>

(* Gitea's attachment, or the file the link is going to point to.          *)
FileThere(u) ==
  IF opts.forge = "gitea" THEN Attach(u, "upload")
  ELSE IF InRegistry THEN packages' = [packages EXCEPT ![u] = run] /\ UNCHANGED <<release, notes, assets, serial>>
  ELSE UNCHANGED forge

UploadFile(u) ==
  /\ InUpload(u, "file")
  /\ \/ /\ NoFault /\ FileThere(u)
        /\ up' = [up EXCEPT ![u].at = IF opts.forge = "gitea" THEN "ok" ELSE "link",
                            ![u].file = IF InRegistry THEN "registry" ELSE "upload"]
     \/ Fault /\ (FileThere(u) \/ UNCHANGED forge) /\ NextAttempt(u)
  /\ UNCHANGED Elsewhere

(* A release has one link of a name. A second one is refused with 400, and *)
(* takes the first one's place where release.replace_existing_artifacts    *)
(* asks for it; otherwise the refusal is final.                            *)
OnTaken_Keep(u) == Step(u, "ok")
OnTaken_Final(u) == Step(u, "failed")
OnTaken(u) == Step(u, IF opts.replaceAssets THEN "list" ELSE "failed")

CreateLink(u) ==
  /\ InUpload(u, "link")
  /\ \/ NoFault /\ Named(u) = {} /\ Attach(u, up[u].file) /\ Step(u, "ok")
     \/ NoFault /\ Named(u) # {} /\ OnTaken(u) /\ UNCHANGED forge
     \/ /\ Fault /\ NextAttempt(u)
        /\ \/ Named(u) = {} /\ Attach(u, up[u].file)
           \/ UNCHANGED forge
  /\ UNCHANGED Elsewhere

(* replaceReleaseLink.                                                     *)
FindLink(u) ==
  /\ InUpload(u, "list")
  /\ \/ /\ NoFault
        /\ \E a \in Named(u) : up' = [up EXCEPT ![u].at = "delete", ![u].target = a.id]
     \/ Fault /\ NextAttempt(u)
  /\ UNCHANGED <<forge, Elsewhere>>

Gone(u) ==
  /\ assets' = {a \in assets : a.id # up[u].target}
  /\ UNCHANGED <<release, notes, packages, serial>>

DeleteLink(u) ==
  /\ InUpload(u, "delete")
  /\ \/ NoFault /\ Gone(u) /\ Step(u, "relink")
     \/ Fault /\ (Gone(u) \/ UNCHANGED forge) /\ NextAttempt(u)
  /\ UNCHANGED Elsewhere

LinkAgain(u) ==
  /\ InUpload(u, "relink")
  /\ \/ NoFault /\ Attach(u, up[u].file) /\ Step(u, "ok")
     \/ Fault /\ (Attach(u, up[u].file) \/ UNCHANGED forge) /\ NextAttempt(u)
  /\ UNCHANGED Elsewhere

AllUploaded == \A u \in Artifacts : up[u].at = "ok"
WaitUploads ==
  /\ pc = "upload"
  /\ \A u \in Artifacts : up[u].at \in {"ok", "failed"}
  /\ End(IF AllUploaded THEN "ok" ELSE "err")
  /\ UNCHANGED <<cfg, forge, run, faults, calm, body, up>>
-----------------------------------------------------------------------------
(* The command is killed, or its timeout strikes, wherever it is.          *)
Kill ==
  /\ pc # "done" /\ Fault /\ End("killed")
  /\ UNCHANGED <<cfg, forge, run, body, up>>

(* Somebody starts it again for the same tag.                              *)
StartAgain ==
  /\ pc = "done" /\ run < MaxRuns
  /\ run' = run + 1 /\ calm' = TRUE
  /\ pc' = "preflight" /\ body' = <<>> /\ tries' = 0
  /\ up' = [u \in Artifacts |-> Idle]
  /\ result' = "none"
  /\ UNCHANGED <<cfg, forge, faults>>

(* The last run is over.                                                   *)
Rest == pc = "done" /\ run = MaxRuns /\ UNCHANGED vars

UploadStep(u) ==
  \/ BeginUpload(u) \/ UploadFile(u) \/ CreateLink(u)
  \/ FindLink(u) \/ DeleteLink(u) \/ LinkAgain(u)

Next ==
  \/ Preflight \/ MakeNotes \/ FindRelease \/ CreateRelease \/ UpdateRelease
  \/ StartUploads \/ WaitUploads \/ Kill \/ StartAgain \/ Rest
  \/ \E u \in Artifacts : UploadStep(u)

Spec == Init /\ [][Next]_vars
-----------------------------------------------------------------------------
(* A success means that whoever downloads an artifact can get the one this *)
(* run built: on GitLab the only link of its name serves it, whatever was  *)
(* linked before and wherever files are kept.                              *)
SuccessServesThisRun ==
  result = "ok" /\ ~opts.skipUpload =>
    \A u \in Artifacts :
      /\ \E a \in Named(u) : Served(a) = run
      /\ opts.forge = "gitlab" => Cardinality(Named(u)) = 1

(* In a mode that adds to the notes or keeps them, no text that was there  *)
(* is lost and no run adds its own twice, however often requests are sent. *)
NotesKeptOnce ==
  [][opts.mode # "replace" =>
       /\ ToSet(notes) \subseteq ToSet(notes')
       /\ Cardinality({i \in DOMAIN notes' : notes'[i].run = run}) <= 1]_notes

(* What the notes of a run should tell of: the commits the filter lets     *)
(* pass and, where there are groups, those a group asks for; each in the   *)
(* first group that does.                                                  *)
AsksFor(group, c) == group.regexp = {} \/ c.message \in group.regexp
Homes(c) == {i \in DOMAIN cfg.notes.groups : AsksFor(cfg.notes.groups[i], c)}
Home(c) == cfg.notes.groups[Min(Homes(c))].title
Passes(c) ==
  IF cfg.notes.include # <<>> THEN c.message \in UNION ToSet(cfg.notes.include)
  ELSE c.message \notin UNION ToSet(cfg.notes.exclude)
Wanted == {c \in ToSet(cfg.log) : Passes(c) /\ (cfg.notes.groups # <<>> => Homes(c) # {})}

Told(text) == FlattenSeq([i \in DOMAIN text |-> text[i].entries])
SamePerson(p, q) ==
  IF p.username # "" \/ q.username # "" THEN p.username = q.username
  ELSE p.email = q.email /\ (p.email # "" \/ p.name = q.name)

(* The notes that go public tell of each commit they should tell of, once, *)
(* and of no other; of a commit in its own section and, where nothing else *)
(* is asked for, in the order of the log; sections have entries and are in *)
(* the order configured; and nobody is credited twice for one commit.      *)
NotesTellEach ==
  ~cfg.notes.skip /\ ~cfg.notes.file =>
    \A k \in {j \in DOMAIN notes : notes[j].run > 0} :
      LET text == notes[k].text
          told == Told(text) IN
      /\ Len(told) = Cardinality(Wanted)
      /\ {e.sha : e \in ToSet(told)} = {c.sha : c \in Wanted}
      /\ \A e \in ToSet(told) : \A x, y \in DOMAIN e.authors :
           x # y => ~SamePerson(e.authors[x], e.authors[y])
      /\ \A i \in DOMAIN text : cfg.notes.groups # <<>> =>
           /\ text[i].entries # <<>>
           /\ \A j \in i..Len(text) : text[i].order <= text[j].order
           /\ \A c \in Wanted : c.sha \in {e.sha : e \in ToSet(text[i].entries)} => text[i].title = Home(c)
      /\ \A i \in DOMAIN text : \A x, y \in DOMAIN text[i].entries :
           \A c, d \in DOMAIN cfg.log :
             /\ x < y /\ cfg.log[c].sha = text[i].entries[x].sha /\ cfg.log[d].sha = text[i].entries[y].sha
             => CASE cfg.notes.sort = "asc" -> cfg.log[c].message <= cfg.log[d].message
                  [] cfg.notes.sort = "desc" -> cfg.log[c].message >= cfg.log[d].message
                  [] OTHER -> c < d

(* A run that meets no fault fails only where its changelog is configured  *)
(* wrongly, or where GitLab has a link of a name already and may not       *)
(* replace it. Gitea takes a file of any name.                             *)
CalmRunSucceeds ==
  result = "err" /\ calm =>
    \/ opts.forge = "gitlab" /\ ~opts.replaceAssets /\ \E a \in assets : a.run < run
    \/ /\ ~cfg.notes.skip /\ ~cfg.notes.file
       /\ Fails(cfg.notes, cfg.log, opts.forge = "gitlab" /\ opts.jobToken)
=============================================================================
