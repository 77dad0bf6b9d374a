--------------------------- MODULE GitHubRelease ---------------------------
(***************************************************************************)
(* Releasing to GitHub: the preflight check, internal/pipe/release's       *)
(* doPublish and the client of internal/client/github.go, against the      *)
(* releases and assets the forge keeps for one tag. Requests and replies   *)
(* get lost, requests are retried, uploads run concurrently, the command   *)
(* may be killed at any point and started again.                           *)
(*                                                                         *)
(* A request that only reads has no effect, so its retries are one step:   *)
(* it answers or it fails for good. A request that writes may be carried   *)
(* out although its reply is lost.                                         *)
(***************************************************************************)
EXTENDS Naturals, Sequences, FiniteSets, FiniteSetsExt

CONSTANTS
  Artifacts,    \* the artifacts to upload
  NameOf,       \* the name each is uploaded under
  Limit,        \* ctx.Parallelism
  MaxAttempts,  \* retry.attempts
  MaxFaults,    \* bound: requests and replies lost, and kills, in a history
  MaxRuns,      \* bound: how often the command is started
  Options       \* configurations to consider

OptionRecord ==
  [draft : BOOLEAN,          \* release.draft
   replaceDraft : BOOLEAN,   \* release.replace_existing_draft
   useExisting : BOOLEAN,    \* release.use_existing_draft
   replaceAssets : BOOLEAN,  \* release.replace_existing_artifacts
   skipUpload : BOOLEAN,     \* release.skip_upload
   failOnError : BOOLEAN,    \* release.preflight.fail_on_error
   freezes : BOOLEAN]        \* the repository makes its releases immutable

ASSUME ReleaseAssumption ==
  /\ IsFiniteSet(Artifacts) /\ DOMAIN NameOf = Artifacts
  /\ Limit \in Nat \ {0} /\ MaxAttempts \in Nat \ {0}
  /\ MaxFaults \in Nat /\ MaxRuns \in Nat \ {0}
  /\ Options \subseteq OptionRecord

VARIABLES
  opts,      \* the configuration
  releases,  \* the forge: releases of the tag, by id: draft, public, frozen, gone
  assets,    \* the forge: the assets of those releases
  serial,    \* the forge: assets created so far, their ids
  run,       \* which start of the command this is
  faults,    \* faults the rest of the history may still contain
  calm,      \* no fault in this run so far
  pc,        \* where doPublish is
  rel,       \* id of the release it works on, 0 when none yet
  tries,     \* attempts used up of the current write request
  up,        \* client.Upload of each artifact
  result     \* what the run ended with

forge == <<releases, assets, serial>>
vars == <<opts, releases, assets, serial, run, faults, calm, pc, rel, tries, up, result>>

Idle == [at |-> "idle", outer |-> 0, inner |-> 0, target |-> 0]
Published == {"public", "frozen"}
Drafts == {r \in DOMAIN releases : releases[r] = "draft"}
Tagged == {r \in DOMAIN releases : releases[r] \in Published}
FreshState(o) == IF o.freezes THEN "frozen" ELSE "public"
Found(r, u) == {a \in assets : a.rel = r /\ a.name = NameOf[u]}

(* Before the first run: nothing, or a release an earlier attempt or a     *)
(* maintainer left, with an asset of an earlier build or without.          *)
Init ==
  /\ opts \in Options
  /\ releases \in {<<>>, <<"draft">>, <<FreshState(opts)>>}
  /\ \/ assets = {} /\ serial = 0
     \/ /\ releases # <<>>
        /\ \E u \in Artifacts :
             assets = {[id |-> 1, rel |-> 1, name |-> NameOf[u], of |-> u, run |-> 0]}
        /\ serial = 1
  /\ run = 1 /\ faults = MaxFaults /\ calm = TRUE
  /\ pc = "preflight" /\ rel = 0 /\ tries = 0
  /\ up = [u \in Artifacts |-> Idle]
  /\ result = "none"
-----------------------------------------------------------------------------
(* The command ends.                                                       *)
End(r) == result' = r /\ pc' = "done"
Fault == faults > 0 /\ faults' = faults - 1 /\ calm' = FALSE
NoFault == UNCHANGED <<faults, calm>>
GoTo(p) == pc' = p /\ tries' = 0 /\ UNCHANGED result

(* A write request of doPublish failed: it is sent again while the error   *)
(* is transient and attempts are left.                                     *)
AttemptsLeft(n) == n + 1 < MaxAttempts

RetryOrEnd ==
  \/ AttemptsLeft(tries) /\ tries' = tries + 1 /\ UNCHANGED <<pc, result>>
  \/ End("err") /\ UNCHANGED tries

(* CanRelease: the repository and the release of the tag are read. Its     *)
(* failure ends the command only when preflight.fail_on_error is set.      *)
Preflight ==
  /\ pc = "preflight"
  /\ \/ /\ NoFault
        /\ IF opts.failOnError /\ \E r \in Tagged : releases[r] = "frozen"
             THEN End("err") /\ UNCHANGED tries
             ELSE GoTo("dropping")
     \/ /\ Fault
        /\ IF opts.failOnError THEN End("err") /\ UNCHANGED tries ELSE GoTo("dropping")
  /\ UNCHANGED <<opts, forge, run, rel, up>>

(* CreateRelease with draft and replace_existing_draft first looks for a   *)
(* draft of the same name; findDraftRelease answers with the first it sees. *)
DropsDraft == opts.draft /\ opts.replaceDraft

DraftsSeen_All == DOMAIN releases
DraftsSeen == Drafts

FindOldDraft ==
  /\ pc = "dropping"
  /\ \/ NoFault /\ ~DropsDraft /\ GoTo("find") /\ UNCHANGED rel
     \/ NoFault /\ DropsDraft /\ DraftsSeen = {} /\ GoTo("find") /\ UNCHANGED rel
     \/ NoFault /\ DropsDraft /\ rel' \in DraftsSeen /\ GoTo("delete")
     \/ Fault /\ DropsDraft /\ End("err") /\ UNCHANGED <<rel, tries>>
  /\ UNCHANGED <<opts, forge, run, up>>

(* What DeleteRelease does at the forge: the assets go with the release.   *)
Remove ==
  /\ releases' = [releases EXCEPT ![rel] = "gone"]
  /\ assets' = {a \in assets : a.rel # rel}
  /\ UNCHANGED serial

(* Its loop retries network errors only; the second answer after a lost    *)
(* reply is 404, an error.                                                 *)
DeleteOldDraft ==
  /\ pc = "delete"
  /\ \/ /\ NoFault /\ releases[rel] # "gone"
        /\ Remove /\ GoTo("find")
     \/ /\ NoFault /\ releases[rel] = "gone"
        /\ End("err") /\ UNCHANGED <<forge, tries>>
     \/ /\ Fault
        /\ Remove \/ UNCHANGED forge
        /\ RetryOrEnd
  /\ UNCHANGED <<opts, run, rel, up>>

(* createOrUpdateRelease: findRelease sees drafts only with                *)
(* use_existing_draft, and the published release of the tag only without.  *)
(* Any error of it is taken for "there is none".                           *)
Refused(r) == releases[r] = "frozen"

Seen_Swapped == IF opts.useExisting THEN Tagged ELSE Drafts
Seen == IF opts.useExisting THEN Drafts ELSE Tagged

FindRelease ==
  /\ pc = "find"
  /\ \/ /\ NoFault
        /\ rel' \in Seen
        /\ IF Refused(rel') THEN End("err") /\ UNCHANGED tries
                            ELSE GoTo("update")
     \/ NoFault /\ Seen = {} /\ GoTo("create") /\ UNCHANGED rel
     \/ Fault /\ GoTo("create") /\ UNCHANGED rel
  /\ UNCHANGED <<opts, forge, run, up>>

(* The release starts as a draft, whatever release.draft says.             *)
StartState_AsConfigured == IF opts.draft THEN "draft" ELSE FreshState(opts)
StartState == "draft"

CreateRelease ==
  /\ pc = "create"
  /\ \/ /\ NoFault
        /\ releases' = Append(releases, StartState)
        /\ rel' = Len(releases) + 1
        /\ GoTo("created")
     \/ /\ Fault
        /\ releases' \in {releases, Append(releases, StartState)}
        /\ RetryOrEnd
        /\ UNCHANGED rel
  /\ UNCHANGED <<opts, assets, serial, run, up>>

(* updateRelease with data.Draft = release.Draft: its notes change, its    *)
(* state does not.                                                         *)
UpdateRelease ==
  /\ pc = "update"
  /\ \/ NoFault /\ GoTo("created")
     \/ Fault /\ RetryOrEnd
  /\ UNCHANGED <<opts, forge, run, rel, up>>

StartUploads ==
  /\ pc = "created"
  /\ GoTo(IF opts.skipUpload THEN "publish" ELSE "upload")
  /\ UNCHANGED <<opts, forge, run, faults, calm, rel, up>>
-----------------------------------------------------------------------------
(* client.Upload, one goroutine per artifact, Limit at a time.             *)
Active == {u \in Artifacts : up[u].at \notin {"idle", "ok", "failed"}}

Step(u, at) == up' = [up EXCEPT ![u].at = at]
InUpload(u, at) == pc = "upload" /\ up[u].at = at

BeginUpload(u) ==
  /\ InUpload(u, "idle")
  /\ Cardinality(Active) < Limit
  /\ Step(u, "post")
  /\ UNCHANGED <<opts, forge, run, faults, calm, pc, rel, tries, result>>

(* The forge takes an asset when the release has none of that name.        *)
Store(u) ==
  /\ Found(rel, u) = {}
  /\ assets' = assets \cup {[id |-> serial + 1, rel |-> rel, name |-> NameOf[u],
                             of |-> u, run |-> run]}
  /\ serial' = serial + 1
  /\ UNCHANGED releases

Uploaded(u) ==
  /\ InUpload(u, "post") \/ InUpload(u, "again")
  /\ Store(u)
  /\ Step(u, "ok")
  /\ UNCHANGED <<opts, run, faults, calm, pc, rel, tries, result>>

(* 422: there is one of that name. Once, and only when asked to, it is     *)
(* replaced; the second 422 is not retriable.                              *)
OnTaken(u) ==
  Step(u, IF up[u].at = "post" /\ opts.replaceAssets THEN "list" ELSE "failed")

NameTaken(u) ==
  /\ InUpload(u, "post") \/ InUpload(u, "again")
  /\ Found(rel, u) # {}
  /\ OnTaken(u)
  /\ UNCHANGED <<opts, forge, run, faults, calm, pc, rel, tries, result>>

(* The attempt failed: from the start again if attempts are left and the   *)
(* error is transient. Unrecoverable(delErr) keeps none from being so.     *)
NextAttempt(u) ==
  \/ /\ AttemptsLeft(up[u].outer)
     /\ up' = [up EXCEPT ![u] = [Idle EXCEPT !.at = "post", !.outer = up[u].outer + 1]]
  \/ Step(u, "failed")

UploadLost(u) ==
  /\ InUpload(u, "post") \/ InUpload(u, "again")
  /\ Fault
  /\ Store(u) \/ UNCHANGED forge
  /\ NextAttempt(u)
  /\ UNCHANGED <<opts, run, pc, rel, tries, result>>

(* deleteReleaseArtifact: the first asset of that name, page by page.      *)
ListAssets(u) ==
  /\ InUpload(u, "list")
  /\ \/ /\ NoFault
        /\ \E a \in Found(rel, u) :
             up' = [up EXCEPT ![u].at = "delete", ![u].target = a.id]
     \/ NoFault /\ Found(rel, u) = {} /\ Step(u, "again")
     \/ Fault /\ NextAttempt(u)
  /\ UNCHANGED <<opts, forge, run, pc, rel, tries, result>>

(* DeleteReleaseAsset has a retry loop of its own. An asset that is gone,  *)
(* by another upload or by a request whose reply was lost, is a 404.       *)
Discard(u) ==
  /\ assets' = {a \in assets : a.id # up[u].target}
  /\ UNCHANGED <<releases, serial>>

DeleteAsset(u) ==
  /\ InUpload(u, "delete")
  /\ \/ /\ NoFault
        /\ \E a \in assets : a.id = up[u].target
        /\ Discard(u) /\ Step(u, "again")
     \/ /\ NoFault
        /\ ~\E a \in assets : a.id = up[u].target
        /\ Step(u, "failed") /\ UNCHANGED forge
     \/ /\ Fault
        /\ Discard(u) \/ UNCHANGED forge
        /\ IF AttemptsLeft(up[u].inner)
             THEN \/ up' = [up EXCEPT ![u].inner = up[u].inner + 1]
                  \/ Step(u, "failed")
             ELSE NextAttempt(u)
  /\ UNCHANGED <<opts, run, pc, rel, tries, result>>

(* g.Wait: every upload has answered, and one failure is a failure.        *)
AllAnswered == \A u \in Artifacts : up[u].at \in {"ok", "failed"}

MayPublish_AnyOK == \E u \in Artifacts : up[u].at = "ok"
MayPublish == \A u \in Artifacts : up[u].at = "ok"

WaitUploads ==
  /\ pc = "upload"
  /\ AllAnswered
  /\ IF MayPublish THEN GoTo("publish") ELSE End("err") /\ UNCHANGED tries
  /\ UNCHANGED <<opts, forge, run, faults, calm, rel, up>>
-----------------------------------------------------------------------------
(* The forge makes a release public unless another one has the tag.        *)
Undraft ==
  /\ Tagged \subseteq {rel}
  /\ releases' = [releases EXCEPT ![rel] =
                    IF @ = "draft" THEN FreshState(opts) ELSE @]
  /\ UNCHANGED <<assets, serial>>

StaysDraft == opts.draft

PublishRelease ==
  /\ pc = "publish"
  /\ \/ NoFault /\ StaysDraft /\ End("ok") /\ UNCHANGED <<forge, tries>>
     \/ NoFault /\ ~StaysDraft /\ Undraft /\ End("ok") /\ UNCHANGED tries
     \/ NoFault /\ ~StaysDraft /\ ~(Tagged \subseteq {rel})
        /\ End("err") /\ UNCHANGED <<forge, tries>>
     \/ Fault /\ ~StaysDraft /\ (Undraft \/ UNCHANGED forge) /\ RetryOrEnd
  /\ UNCHANGED <<opts, run, rel, up>>

(* The command is killed, or its timeout strikes, wherever it is.          *)
Kill ==
  /\ pc # "done" /\ Fault
  /\ End("killed")
  /\ UNCHANGED <<opts, forge, run, rel, tries, up>>

(* Somebody starts it again for the same tag.                              *)
StartAgain ==
  /\ pc = "done" /\ run < MaxRuns
  /\ run' = run + 1 /\ calm' = TRUE
  /\ pc' = "preflight" /\ rel' = 0 /\ tries' = 0
  /\ up' = [u \in Artifacts |-> Idle]
  /\ result' = "none"
  /\ UNCHANGED <<opts, forge, faults>>

UploadStep(u) ==
  \/ BeginUpload(u) \/ Uploaded(u) \/ NameTaken(u) \/ UploadLost(u)
  \/ ListAssets(u) \/ DeleteAsset(u)

Work ==
  \/ Preflight \/ FindOldDraft \/ DeleteOldDraft \/ FindRelease \/ CreateRelease
  \/ UpdateRelease \/ StartUploads \/ WaitUploads \/ PublishRelease
  \/ \E u \in Artifacts : UploadStep(u)

Next == Work \/ Kill \/ StartAgain

Spec == Init /\ [][Next]_vars
-----------------------------------------------------------------------------
TypeOK ==
  /\ opts \in Options
  /\ releases \in Seq({"draft", "public", "frozen", "gone"})
  /\ assets \subseteq [id : 1..serial, rel : 1..Len(releases),
                       name : {NameOf[u] : u \in Artifacts}, of : Artifacts, run : 0..MaxRuns]
  /\ serial \in Nat
  /\ run \in 1..MaxRuns /\ faults \in 0..MaxFaults /\ calm \in BOOLEAN
  /\ pc \in {"preflight", "dropping", "delete", "find", "create", "update",
             "created", "upload", "publish", "done"}
  /\ rel \in 0..Len(releases)
  /\ tries \in 0..MaxAttempts - 1
  /\ up \in [Artifacts -> [at : {"idle", "post", "list", "delete", "again", "ok", "failed"},
                           outer : 0..MaxAttempts - 1, inner : 0..MaxAttempts - 1,
                           target : 0..serial]]
  /\ result \in {"none", "ok", "err", "killed"}

(* Every name of release r holds an asset this run uploaded.               *)
Whole(r) ==
  \A u \in Artifacts : \E a \in Found(r, u) : a.run = run

(* The release pipe answers with success only when the release is out and  *)
(* holds what this run built, whatever was lost or found on the way: no    *)
(* asset of an earlier build stands in for one of this.                    *)
SuccessIsWhole ==
  result = "ok" =>
    /\ ~opts.skipUpload => Whole(rel)
    /\ ~opts.draft => releases[rel] \in Published

(* A draft becomes public only with every artifact of the run in it, and   *)
(* never when release.draft asks for a draft; a new release is a draft.    *)
PublishedWhole ==
  [][ \A r \in DOMAIN releases' :
        releases'[r] \in Published =>
          \/ r \in Tagged
          \/ r \in Drafts /\ ~opts.draft /\ (opts.skipUpload \/ Whole(r)) ]_vars

(* Replacing a draft never takes a published release away.                 *)
PublishedStays ==
  [][ \A r \in Tagged : releases'[r] = releases[r] ]_vars

(* Starting the command again is a way out of any trouble: a run that      *)
(* meets no fault itself succeeds, whatever earlier runs left behind,      *)
(* unless the tag is out and cannot be changed, or an asset is there and   *)
(* must not be replaced.                                                   *)
CalmRunSucceeds ==
  result = "err" /\ calm =>
    \/ \E r \in Tagged : releases[r] = "frozen" \/ opts.useExisting
    \/ ~opts.replaceAssets /\ \E u \in Artifacts : \E a \in Found(rel, u) : a.run < run

=============================================================================
