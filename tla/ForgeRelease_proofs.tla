------------------------- MODULE ForgeRelease_proofs -------------------------
(***************************************************************************)
(* A success on GitLab or Gitea serves what this run built, a run without  *)
(* faults succeeds, the notes of a run are kept and told once, and tell of *)
(* each commit once, for any artifacts, configurations and logs, and any   *)
(* number of attempts, of faults and of runs.                              *)
(***************************************************************************)
EXTENDS ForgeRelease, FiniteSetTheorems, SequenceTheorems, WellFoundedInduction, TLAPS

(* Where the command is.                                                   *)
AfterFind == {"create", "update"}
Early == {"preflight", "changelog", "find", "create", "update", "created"}

Links == {"link", "list", "delete", "relink"}

(* The release is to a forge that the command knows.                       *)
Known == cfg.release.forge \in {"gitlab", "gitea"}

AssetRecord == [id : Nat, name : Artifacts, file : {"registry", "upload"}, run : Nat]

UploadRecord ==
  [at : {"idle", "file", "ok", "failed"} \cup Links, outer : Nat, target : Nat,
   file : {"none", "registry", "upload"}]

Types ==
  /\ assets \subseteq AssetRecord
  /\ packages \in [Artifacts -> Nat]
  /\ serial \in Nat /\ run \in Nat
  /\ up \in [Artifacts -> UploadRecord]
  /\ pc \in Early \cup {"upload", "done"}

(* Ids tell the assets apart, and no run has files of a later one.         *)
Numbered ==
  /\ \A a, b \in assets : a.id = b.id => a = b
  /\ \A a \in assets : a.id <= serial /\ a.run <= run

(* GitLab has one link of a name.                                          *)
OneLink ==
  cfg.release.forge = "gitlab" => \A a, b \in assets : a.name = b.name => a = b

(* An upload links the file of this run, which is where the link says, and *)
(* deletes what has its own name.                                          *)
Place == IF InRegistry THEN "registry" ELSE "upload"

Linking ==
  \A u \in Artifacts :
    /\ up[u].at \in Links =>
         /\ cfg.release.forge = "gitlab"
         /\ up[u].file = Place
         /\ InRegistry => packages[u] = run
    /\ up[u].at = "delete" =>
         /\ \A a \in assets : a.id = up[u].target => a.name = u
         /\ \A a \in assets : a.name = u => a.id = up[u].target
         /\ up[u].target <= serial
    /\ up[u].at = "relink" => \A a \in assets : a.name # u

(* An upload that succeeded has its asset in the release, and whoever      *)
(* downloads it gets what this run built.                                  *)
Stored ==
  \A u \in Artifacts : up[u].at = "ok" => \E a \in assets : a.name = u /\ Served(a) = run

(* No upload begins before the release is there, and the command answers   *)
(* with success when all of them have succeeded.                           *)
Answer ==
  /\ pc \in Early => \A u \in Artifacts : up[u].at = "idle"
  /\ pc # "done" => result = "none"
  /\ result = "ok" => cfg.release.skipUpload \/ AllUploaded

UploadInv == Types /\ Numbered /\ OneLink /\ Linking /\ Stored /\ Answer
-----------------------------------------------------------------------------
LEMMA InitInv == Init => UploadInv
<1>. SUFFICES ASSUME Init PROVE UploadInv
  OBVIOUS
<1>1. CASE assets = {}
  BY <1>1 DEF Init, Idle, UploadInv, Types, Early, UploadRecord, Numbered,
       OneLink, Linking, Links, Stored, Answer
<1>2. CASE assets # {}
  <2>1. PICK u \in Artifacts, f \in {"registry", "upload"} :
          assets = {[id |-> 1, name |-> u, file |-> f, run |-> 0]}
    BY <1>2 DEF Init
  <2>2. serial = 1 /\ run = 1
    BY <1>2 DEF Init
  <2>3. Types
    BY <2>1, <2>2 DEF Init, Idle, Types, Early, UploadRecord, AssetRecord
  <2>4. Numbered /\ OneLink
    BY <2>1, <2>2 DEF Numbered, OneLink
  <2>5. Linking /\ Stored /\ Answer
    BY DEF Init, Idle, Early, Linking, Links, Stored, Answer
  <2>. QED
    BY <2>3, <2>4, <2>5 DEF UploadInv
<1>. QED
  BY <1>1, <1>2

(* The steps that touch neither the assets nor the uploads.                *)
LEMMA QuietInv ==
  ASSUME UploadInv, UNCHANGED <<cfg, assets, packages, serial, run, up>>,
         pc' \in Early \cup {"upload", "done"},
         pc' \in Early => pc \in Early,
         pc' # "done" => result' = "none",
         result' = "ok" => cfg.release.skipUpload \/ AllUploaded
  PROVE  UploadInv'
<1>1. Types' /\ Numbered' /\ OneLink' /\ Linking'
  BY DEF UploadInv, Types, Numbered, OneLink, Linking, Place, InRegistry, opts
<1>2. Stored' /\ Answer'
  BY DEF UploadInv, Stored, Answer, Served, AllUploaded
<1>. QED
  BY <1>1, <1>2 DEF UploadInv

LEMMA QuietSteps ==
  ASSUME UploadInv,
         \/ Preflight \/ MakeNotes \/ FindRelease
         \/ CreateRelease \/ UpdateRelease \/ StartUploads
         \/ WaitUploads \/ Kill
  PROVE  UploadInv'
<1>. USE DEF GoTo, End, RetryOrEnd, forge, opts, Opened,
             Edited, UploadInv, Answer, Types, Early
<1>1. CASE Preflight
  BY <1>1, QuietInv DEF Preflight
<1>2. CASE MakeNotes
  BY <1>2, QuietInv DEF MakeNotes
<1>3. CASE FindRelease
  BY <1>3, QuietInv DEF FindRelease
<1>4. CASE CreateRelease
  BY <1>4, QuietInv DEF CreateRelease
<1>5. CASE UpdateRelease
  BY <1>5, QuietInv DEF UpdateRelease
<1>6. CASE StartUploads
  BY <1>6, QuietInv DEF StartUploads
<1>7. CASE WaitUploads
  BY <1>7, QuietInv DEF WaitUploads
<1>8. CASE Kill
  BY <1>8, QuietInv DEF Kill
<1>. QED
  BY <1>1, <1>2, <1>3, <1>4, <1>5, <1>6, <1>7, <1>8

LEMMA StartAgainInv == ASSUME UploadInv, StartAgain PROVE UploadInv'
<1>1. /\ run' = run + 1 /\ pc' = "preflight" /\ result' = "none"
      /\ up' = [u \in Artifacts |-> Idle]
      /\ UNCHANGED <<cfg, assets, packages, serial>>
  BY DEF StartAgain, forge
<1>2. Types' /\ Numbered'
  BY <1>1 DEF UploadInv, Types, Numbered, AssetRecord, UploadRecord, Early, Idle
<1>3. OneLink' /\ Linking' /\ Stored' /\ Answer'
  BY <1>1 DEF UploadInv, OneLink, Linking, Links, Stored, Answer, Idle
<1>. QED
  BY <1>2, <1>3 DEF UploadInv
-----------------------------------------------------------------------------
(* What an upload does to the assets concerns those of its own name.       *)
OnlyOwn(u) ==
  /\ serial' \in Nat /\ serial <= serial'
  /\ \A a \in assets : a.name # u => a \in assets'
  /\ \A a \in assets' \ assets : a.name = u /\ a.id > serial
  /\ assets' \subseteq AssetRecord /\ Numbered' /\ OneLink'

LEMMA AttachOnlyOwn ==
  ASSUME UploadInv, NEW u \in Artifacts, NEW f \in {"registry", "upload"}, Attach(u, f),
         cfg.release.forge = "gitlab" => \A a \in assets : a.name # u, UNCHANGED <<cfg, run>>
  PROVE  OnlyOwn(u)
<1>. DEFINE new == [id |-> serial + 1, name |-> u, file |-> f, run |-> run]
<1>1. assets' = assets \cup {new} /\ serial' = serial + 1
  BY DEF Attach
<1>2. serial \in Nat /\ run \in Nat /\ assets \subseteq AssetRecord
  BY DEF UploadInv, Types
<1>3. new.id = serial + 1 /\ new.name = u /\ new.run = run
  OBVIOUS
<1>4. new \in AssetRecord
  BY <1>2 DEF AssetRecord
<1>. HIDE DEF new
<1>5. \A a \in assets : a.id \in Nat /\ a.id <= serial /\ a.run <= run
  BY <1>2 DEF UploadInv, Numbered, AssetRecord
<1>6. Numbered'
  BY <1>1, <1>2, <1>3, <1>5 DEF UploadInv, Numbered
<1>7. OneLink'
  BY <1>1, <1>3 DEF UploadInv, OneLink
<1>. QED
  BY <1>1, <1>2, <1>3, <1>4, <1>6, <1>7 DEF OnlyOwn

LEMMA GoneOnlyOwn ==
  ASSUME UploadInv, NEW u \in Artifacts, up[u].at = "delete", Gone(u), UNCHANGED <<cfg, run>>
  PROVE  OnlyOwn(u) /\ \A a \in assets' : a.name # u
<1>1. assets' = {a \in assets : a.id # up[u].target} /\ serial' = serial
  BY DEF Gone
<1>2. Numbered' /\ OneLink'
  BY <1>1 DEF UploadInv, Numbered, OneLink
<1>. QED
  BY <1>1, <1>2 DEF UploadInv, Types, Linking, OnlyOwn

LEMMA StillOnlyOwn ==
  ASSUME UploadInv, NEW u \in Artifacts, UNCHANGED <<cfg, run, assets, serial>>
  PROVE  OnlyOwn(u)
BY DEF UploadInv, Types, Numbered, OneLink, OnlyOwn

(* An upload in progress of the others is not disturbed.                   *)
LEMMA OwnStep ==
  ASSUME UploadInv, NEW u \in Artifacts, NEW x \in UploadRecord,
         pc = "upload", up[u].at \notin {"ok", "failed"},
         up' = [up EXCEPT ![u] = x], UNCHANGED <<cfg, run, pc, result>>,
         packages' = packages \/ packages' = [packages EXCEPT ![u] = run],
         OnlyOwn(u),
         x.at \in Links =>
           /\ cfg.release.forge = "gitlab" /\ x.file = Place
           /\ InRegistry => packages'[u] = run,
         x.at = "delete" =>
           /\ \A a \in assets' : a.name = u <=> a.id = x.target
           /\ x.target <= serial',
         x.at = "relink" => \A a \in assets' : a.name # u,
         x.at = "ok" => \E a \in assets' : a.name = u /\ Served(a)' = run
  PROVE  UploadInv'
<1>1. /\ up'[u] = x /\ \A v \in Artifacts : v # u => up'[v] = up[v]
      /\ \A v \in Artifacts : v # u => packages'[v] = packages[v]
  BY DEF UploadInv, Types
<1>2. Types'
  BY DEF UploadInv, Types, OnlyOwn
<1>3. Linking'
  <2>. SUFFICES ASSUME NEW v \in Artifacts
                PROVE  /\ up'[v].at \in Links =>
                            /\ cfg.release.forge = "gitlab"
                            /\ up'[v].file = Place
                            /\ InRegistry => packages'[v] = run
                       /\ up'[v].at = "delete" =>
                            /\ \A a \in assets' : a.id = up'[v].target => a.name = v
                            /\ \A a \in assets' : a.name = v => a.id = up'[v].target
                            /\ up'[v].target <= serial'
                       /\ up'[v].at = "relink" => \A a \in assets' : a.name # v
    BY DEF Linking, Place, InRegistry, opts
  <2>1. CASE v = u
    BY <1>1, <2>1
  <2>2. CASE v # u
    <3>. DEFINE t == up[v].target
    <3>1. up'[v] = up[v] /\ packages'[v] = packages[v]
      BY <1>1, <2>2
    <3>2. \A a \in assets' : a.name = v => a \in assets
      BY <2>2 DEF OnlyOwn
    <3>3. t \in Nat /\ serial \in Nat /\ serial' \in Nat /\ serial <= serial'
      BY DEF UploadInv, Types, UploadRecord, OnlyOwn
    <3>4. ASSUME up[v].at = "delete" PROVE t <= serial' /\ \A a \in assets' : a.id = t => a.name = v
      <4>1. t <= serial /\ \A a \in assets : a.id = t => a.name = v
        BY <3>4 DEF UploadInv, Linking
      <4>2. \A a \in assets' : a \in assets \/ (a.id > serial /\ a.id \in Nat)
        BY DEF OnlyOwn, AssetRecord
      <4>. QED
        BY <3>3, <4>1, <4>2
    <3>. QED
      BY <3>1, <3>2, <3>4 DEF UploadInv, Linking
  <2>. QED
    BY <2>1, <2>2
<1>4. Stored'
  <2>. SUFFICES ASSUME NEW v \in Artifacts, up'[v].at = "ok"
                PROVE  \E a \in assets' : a.name = v /\ Served(a)' = run
    BY DEF Stored
  <2>1. CASE v # u
    <3>1. PICK a \in assets : a.name = v /\ Served(a) = run
      BY <1>1, <2>1 DEF UploadInv, Stored
    <3>2. a \in assets' /\ packages'[a.name] = packages[a.name]
      BY <1>1, <2>1, <3>1 DEF OnlyOwn
    <3>. QED
      BY <3>1, <3>2 DEF Served
  <2>. QED
    BY <1>1, <2>1
<1>5. Answer'
  BY DEF UploadInv, Answer, Early
<1>. QED
  BY <1>2, <1>3, <1>4, <1>5 DEF UploadInv, OnlyOwn

(* An attempt that failed in transit leaves nothing to keep.               *)
LEMMA LostStep ==
  ASSUME UploadInv, NEW u \in Artifacts, pc = "upload", up[u].at \notin {"ok", "failed"},
         NextAttempt(u), UNCHANGED <<cfg, run, pc, result>>,
         packages' = packages \/ packages' = [packages EXCEPT ![u] = run],
         OnlyOwn(u)
  PROVE  UploadInv'
<1>1. up[u] \in UploadRecord
  BY DEF UploadInv, Types
<1>2. PICK x \in UploadRecord : up' = [up EXCEPT ![u] = x] /\ x.at \in {"file", "failed"}
  <2>1. CASE up' = [up EXCEPT ![u] = [Idle EXCEPT !.at = "file", !.outer = up[u].outer + 1]]
    <3>1. \A n \in Nat : LET x == [Idle EXCEPT !.at = "file", !.outer = n] IN
            x \in UploadRecord /\ x.at = "file"
      BY DEF Idle, UploadRecord
    <3>2. up[u].outer + 1 \in Nat
      BY <1>1 DEF UploadRecord
    <3>. QED
      BY <2>1, <3>1, <3>2
  <2>2. CASE up' = [up EXCEPT ![u].at = "failed"]
    <3>1. [up[u] EXCEPT !.at = "failed"] \in UploadRecord
      BY <1>1 DEF UploadRecord
    <3>2. up' = [up EXCEPT ![u] = [up[u] EXCEPT !.at = "failed"]]
      BY <2>2
    <3>3. [up[u] EXCEPT !.at = "failed"].at = "failed"
      BY <1>1 DEF UploadRecord
    <3>. QED
      BY <3>1, <3>2, <3>3
  <2>. QED
    BY <2>1, <2>2 DEF NextAttempt, Step
<1>. QED
  BY <1>2, OwnStep DEF Links
-----------------------------------------------------------------------------
LEMMA Places == Place \in {"registry", "upload"}
BY DEF Place

(* An upload that goes on keeps all but where it is.                       *)
LEMMA StepTo ==
  ASSUME UploadInv, NEW u \in Artifacts, NEW at \in {"file", "ok", "failed"} \cup Links,
         Step(u, at)
  PROVE  \E x \in UploadRecord : /\ up' = [up EXCEPT ![u] = x]
                                /\ x.at = at /\ x.file = up[u].file /\ x.target = up[u].target
<1>. DEFINE x == [up[u] EXCEPT !.at = at]
<1>1. up[u] \in UploadRecord
  BY DEF UploadInv, Types
<1>2. x \in UploadRecord
  BY <1>1 DEF UploadRecord
<1>3. x.at = at /\ x.file = up[u].file /\ x.target = up[u].target
  BY <1>1 DEF UploadRecord
<1>4. up' = [up EXCEPT ![u] = x]
  BY DEF Step
<1>. QED
  BY <1>2, <1>3, <1>4

LEMMA BeginUploadInv ==
  ASSUME UploadInv, NEW u \in Artifacts, BeginUpload(u) PROVE UploadInv'
<1>1. /\ pc = "upload" /\ up[u].at = "idle" /\ Step(u, "file")
      /\ UNCHANGED <<cfg, run, pc, result, assets, packages, serial>>
  BY DEF BeginUpload, InUpload, Elsewhere, forge
<1>2. PICK x \in UploadRecord : up' = [up EXCEPT ![u] = x] /\ x.at = "file"
  BY <1>1, StepTo
<1>3. OnlyOwn(u)
  BY <1>1, StillOnlyOwn
<1>. QED
  BY <1>1, <1>2, <1>3, OwnStep DEF Links

LEMMA FileThereOwn ==
  ASSUME UploadInv, Known, NEW u \in Artifacts, FileThere(u), UNCHANGED <<cfg, run>>
  PROVE  /\ OnlyOwn(u)
         /\ packages' = packages \/ packages' = [packages EXCEPT ![u] = run]
         /\ cfg.release.forge = "gitlab" /\ InRegistry => packages'[u] = run
         /\ cfg.release.forge = "gitea" =>
              \E a \in assets' : a.name = u /\ Served(a)' = run
<1>1. CASE cfg.release.forge = "gitea"
  <2>1. Attach(u, "upload") /\ packages' = packages
    BY <1>1 DEF FileThere, opts, Attach
  <2>2. OnlyOwn(u)
    BY <1>1, <2>1, AttachOnlyOwn
  <2>3. [id |-> serial + 1, name |-> u, file |-> "upload", run |-> run] \in assets'
    BY <2>1 DEF Attach
  <2>. QED
    BY <1>1, <2>1, <2>2, <2>3 DEF Served
<1>2. CASE cfg.release.forge = "gitlab"
  <2>1. UNCHANGED <<assets, serial>>
    BY <1>2 DEF FileThere, opts, forge
  <2>2. CASE InRegistry
    <3>1. packages' = [packages EXCEPT ![u] = run] /\ packages'[u] = run
      BY <1>2, <2>2 DEF FileThere, opts, UploadInv, Types
    <3>. QED
      BY <1>2, <2>1, <3>1, StillOnlyOwn
  <2>3. CASE ~InRegistry
    BY <1>2, <2>1, <2>3, StillOnlyOwn DEF FileThere, opts, forge
  <2>. QED
    BY <2>2, <2>3
<1>. QED
  BY <1>1, <1>2 DEF Known

LEMMA UploadFileInv ==
  ASSUME UploadInv, Known, NEW u \in Artifacts, UploadFile(u) PROVE UploadInv'
<1>1. pc = "upload" /\ up[u].at = "file" /\ UNCHANGED <<cfg, run, pc, result>>
  BY DEF UploadFile, InUpload, Elsewhere
<1>2. CASE /\ FileThere(u)
           /\ up' = [up EXCEPT ![u].at = IF opts.forge = "gitea" THEN "ok" ELSE "link",
                               ![u].file = IF InRegistry THEN "registry" ELSE "upload"]
  <2>. DEFINE to == IF cfg.release.forge = "gitea" THEN "ok" ELSE "link"
              x == [up[u] EXCEPT !.at = to, !.file = Place]
  <2>1. up[u] \in UploadRecord /\ up \in [Artifacts -> UploadRecord]
    BY DEF UploadInv, Types
  <2>2. to \in {"ok", "link"}
    OBVIOUS
  <2>3. up' = [up EXCEPT ![u] = x]
    BY <1>2, <2>1 DEF Place, opts
  <2>. HIDE DEF to
  <2>4. x \in UploadRecord
    BY <2>1, <2>2, Places DEF UploadRecord, Links
  <2>5. x.at = to /\ x.file = Place
    BY <2>1 DEF UploadRecord
  <2>. HIDE DEF x
  <2>6. /\ OnlyOwn(u)
        /\ packages' = packages \/ packages' = [packages EXCEPT ![u] = run]
        /\ cfg.release.forge = "gitlab" /\ InRegistry => packages'[u] = run
        /\ cfg.release.forge = "gitea" =>
             \E a \in assets' : a.name = u /\ Served(a)' = run
    BY <1>1, <1>2, FileThereOwn
  <2>7. x.at = "ok" <=> cfg.release.forge = "gitea"
    BY <2>5 DEF to
  <2>8. x.at \in {"ok", "link"}
    BY <2>2, <2>5
  <2>9. x.at = "link" => cfg.release.forge = "gitlab"
    BY <2>7, <2>8 DEF Known
  <2>10. CASE x.at = "ok"
    BY <1>1, <2>3, <2>4, <2>6, <2>7, <2>10, OwnStep DEF Links
  <2>11. CASE x.at = "link"
    <3>1. cfg.release.forge = "gitlab" /\ (InRegistry => packages'[u] = run)
      BY <2>6, <2>9, <2>11
    <3>. QED
      BY <1>1, <2>3, <2>4, <2>5, <2>6, <2>11, <3>1, OwnStep
  <2>. QED
    BY <2>8, <2>10, <2>11
<1>3. CASE (FileThere(u) \/ UNCHANGED forge) /\ NextAttempt(u)
  <2>1. OnlyOwn(u) /\ (packages' = packages \/ packages' = [packages EXCEPT ![u] = run])
    <3>1. CASE FileThere(u)
      BY <1>1, <3>1, FileThereOwn
    <3>2. CASE UNCHANGED forge
      BY <1>1, <3>2, StillOnlyOwn DEF forge
    <3>. QED
      BY <1>3, <3>1, <3>2
  <2>. QED
    BY <1>1, <1>3, <2>1, LostStep
<1>. QED
  BY <1>2, <1>3 DEF UploadFile

(* A link that is made, or made again, serves the file of this run.        *)
LEMMA AttachOwn ==
  ASSUME UploadInv, NEW u \in Artifacts, up[u].at \in Links, Attach(u, up[u].file),
         \A a \in assets : a.name # u, UNCHANGED <<cfg, run>>
  PROVE  /\ OnlyOwn(u) /\ packages' = packages
         /\ \E a \in assets' : a.name = u /\ Served(a)' = run
<1>1. up[u].file = Place /\ (InRegistry => packages[u] = run)
  BY DEF UploadInv, Linking
<1>2. OnlyOwn(u)
  BY <1>1, AttachOnlyOwn, Places
<1>3. /\ [id |-> serial + 1, name |-> u, file |-> Place, run |-> run] \in assets'
      /\ packages' = packages
  BY <1>1 DEF Attach
<1>. QED
  BY <1>1, <1>2, <1>3 DEF Served, Place

LEMMA CreateLinkInv ==
  ASSUME UploadInv, Known, NEW u \in Artifacts, CreateLink(u) PROVE UploadInv'
<1>1. pc = "upload" /\ up[u].at = "link" /\ UNCHANGED <<cfg, run, pc, result>>
  BY DEF CreateLink, InUpload, Elsewhere
<1>2. Named(u) = {} <=> \A a \in assets : a.name # u
  BY DEF Named
<1>3. CASE Named(u) = {} /\ Attach(u, up[u].file) /\ Step(u, "ok")
  <2>1. PICK x \in UploadRecord : up' = [up EXCEPT ![u] = x] /\ x.at = "ok"
    BY <1>3, StepTo
  <2>. QED
    BY <1>1, <1>2, <1>3, <2>1, AttachOwn, OwnStep DEF Links
<1>4. CASE OnTaken(u) /\ UNCHANGED forge
  <2>1. PICK x \in UploadRecord : up' = [up EXCEPT ![u] = x] /\ x.file = up[u].file
                                 /\ x.at \in {"list", "failed"}
    BY <1>4, StepTo DEF OnTaken, Links
  <2>2. UNCHANGED <<assets, serial, packages>>
    BY <1>4 DEF forge
  <2>3. /\ cfg.release.forge = "gitlab" /\ up[u].file = Place
        /\ InRegistry => packages[u] = run
    BY <1>1 DEF UploadInv, Linking, Links
  <2>. QED
    BY <1>1, <2>1, <2>2, <2>3, StillOnlyOwn, OwnStep
<1>5. CASE /\ NextAttempt(u)
           /\ \/ Named(u) = {} /\ Attach(u, up[u].file)
              \/ UNCHANGED forge
  <2>1. OnlyOwn(u) /\ packages' = packages
    BY <1>1, <1>2, <1>5, AttachOwn, StillOnlyOwn DEF Links, forge
  <2>. QED
    BY <1>1, <1>5, <2>1, LostStep
<1>. QED
  BY <1>3, <1>4, <1>5 DEF CreateLink

LEMMA FindLinkInv ==
  ASSUME UploadInv, Known, NEW u \in Artifacts, FindLink(u) PROVE UploadInv'
<1>1. /\ pc = "upload" /\ up[u].at = "list"
      /\ UNCHANGED <<cfg, run, pc, result, assets, serial, packages>>
  BY DEF FindLink, InUpload, Elsewhere, forge
<1>2. ASSUME NEW a \in Named(u), up' = [up EXCEPT ![u].at = "delete", ![u].target = a.id]
      PROVE  UploadInv'
  <2>. DEFINE x == [up[u] EXCEPT !.at = "delete", !.target = a.id]
  <2>1. up[u] \in UploadRecord /\ up \in [Artifacts -> UploadRecord] /\ a \in assets /\ a.name = u
        /\ a.id \in Nat /\ a.id <= serial
    BY <1>2 DEF UploadInv, Types, Numbered, AssetRecord, Named
  <2>2. x \in UploadRecord
    BY <2>1 DEF UploadRecord, Links
  <2>3. x.at = "delete" /\ x.target = a.id /\ x.file = up[u].file
    BY <2>1 DEF UploadRecord
  <2>4. up' = [up EXCEPT ![u] = x]
    BY <1>2, <2>1
  <2>. HIDE DEF x
  <2>5. /\ cfg.release.forge = "gitlab" /\ up[u].file = Place
        /\ InRegistry => packages[u] = run
    BY <1>1 DEF UploadInv, Linking, Links
  <2>6. \A b \in assets : b.name = u <=> b.id = a.id
    BY <2>1, <2>5 DEF UploadInv, Numbered, OneLink
  <2>7. OnlyOwn(u)
    BY <1>1, StillOnlyOwn
  <2>8. x.at # "relink" /\ x.at # "ok" /\ x.target <= serial'
    BY <1>1, <2>1, <2>3
  <2>9. \A b \in assets' : b.name = u <=> b.id = x.target
    BY <1>1, <2>3, <2>6
  <2>10. packages' = packages /\ (InRegistry => packages'[u] = run) /\ x.file = Place
    BY <1>1, <2>3, <2>5
  <2>. QED
    BY <1>1, <2>2, <2>4, <2>5, <2>7, <2>8, <2>9, <2>10, OwnStep
<1>. QED
  BY <1>1, <1>2, StillOnlyOwn, LostStep DEF FindLink

LEMMA DeleteLinkInv ==
  ASSUME UploadInv, Known, NEW u \in Artifacts, DeleteLink(u) PROVE UploadInv'
<1>1. /\ pc = "upload" /\ up[u].at = "delete" /\ packages' = packages
      /\ UNCHANGED <<cfg, run, pc, result>>
  BY DEF DeleteLink, InUpload, Elsewhere, forge, Gone
<1>2. CASE Gone(u) /\ Step(u, "relink")
  <2>1. PICK x \in UploadRecord : up' = [up EXCEPT ![u] = x] /\ x.at = "relink" /\ x.file = up[u].file
    BY <1>2, StepTo DEF Links
  <2>2. /\ cfg.release.forge = "gitlab" /\ up[u].file = Place
        /\ InRegistry => packages[u] = run
    BY <1>1 DEF UploadInv, Linking, Links
  <2>3. OnlyOwn(u) /\ \A a \in assets' : a.name # u
    BY <1>1, <1>2, GoneOnlyOwn
  <2>. QED
    BY <1>1, <2>1, <2>2, <2>3, OwnStep
<1>3. CASE (Gone(u) \/ UNCHANGED forge) /\ NextAttempt(u)
  BY <1>1, <1>3, GoneOnlyOwn, StillOnlyOwn, LostStep DEF forge
<1>. QED
  BY <1>2, <1>3 DEF DeleteLink

LEMMA LinkAgainInv ==
  ASSUME UploadInv, Known, NEW u \in Artifacts, LinkAgain(u) PROVE UploadInv'
<1>1. pc = "upload" /\ up[u].at = "relink" /\ UNCHANGED <<cfg, run, pc, result>>
  BY DEF LinkAgain, InUpload, Elsewhere
<1>2. \A a \in assets : a.name # u
  BY <1>1 DEF UploadInv, Linking
<1>3. CASE Attach(u, up[u].file) /\ Step(u, "ok")
  <2>1. PICK x \in UploadRecord : up' = [up EXCEPT ![u] = x] /\ x.at = "ok"
    BY <1>3, StepTo
  <2>. QED
    BY <1>1, <1>2, <1>3, <2>1, AttachOwn, OwnStep DEF Links
<1>4. CASE (Attach(u, up[u].file) \/ UNCHANGED forge) /\ NextAttempt(u)
  <2>1. OnlyOwn(u) /\ packages' = packages
    BY <1>1, <1>2, <1>4, AttachOwn, StillOnlyOwn DEF Links, forge
  <2>. QED
    BY <1>1, <1>4, <2>1, LostStep
<1>. QED
  BY <1>3, <1>4 DEF LinkAgain
LEMMA UploadStepInv ==
  ASSUME UploadInv, Known, NEW u \in Artifacts, UploadStep(u) PROVE UploadInv'
BY BeginUploadInv, UploadFileInv, CreateLinkInv, FindLinkInv, DeleteLinkInv, LinkAgainInv
DEF UploadStep

(* Every link and file that an upload handles is its own and of this run.  *)
THEOREM UploadInvHolds == Spec => [](UploadInv /\ Known)
<1>1. Init => UploadInv /\ Known
  <2>1. Init => cfg \in Projects
    BY DEF Init
  <2>. QED
    BY <2>1, InitInv, ForgeAssumption DEF Known, ProjectRecord
<1>2. UploadInv /\ Known /\ [Next]_vars => (UploadInv /\ Known)'
  <2>. SUFFICES ASSUME UploadInv, Known, [Next]_vars PROVE UploadInv' /\ Known'
    OBVIOUS
  <2>1. ASSUME NEW u \in Artifacts, UploadStep(u) PROVE UploadInv' /\ Known'
    <3>1. cfg' = cfg
      BY <2>1 DEF UploadStep, BeginUpload, UploadFile, CreateLink, FindLink,
                  DeleteLink, LinkAgain, Elsewhere
    <3>. QED
      BY <2>1, <3>1, UploadStepInv DEF Known
  <2>2. CASE StartAgain
    BY <2>2, StartAgainInv DEF StartAgain, Known
  <2>3. CASE UNCHANGED vars
    <3>1. UNCHANGED <<cfg, assets, packages, serial, run, up, pc, result>>
      BY <2>3 DEF vars, forge
    <3>. QED
      BY <3>1, QuietInv DEF Known, UploadInv, Types, Answer
  <2>4. CASE \/ Preflight \/ MakeNotes \/ FindRelease
             \/ CreateRelease \/ UpdateRelease \/ StartUploads
             \/ WaitUploads \/ Kill
    <3>1. cfg' = cfg
      BY <2>4 DEF Preflight, MakeNotes, FindRelease, CreateRelease,
                  UpdateRelease, StartUploads, WaitUploads, Kill
    <3>. QED
      BY <2>4, <3>1, QuietSteps DEF Known
  <2>. QED
    BY <2>1, <2>2, <2>3, <2>4 DEF Next, Rest
<1>. QED
  BY <1>1, <1>2, PTL DEF Spec

(* A success on GitLab or Gitea means that whoever downloads an artifact   *)
(* can get the one this run built, and on GitLab can get no other, for any *)
(* number of artifacts, attempts, faults and runs.                         *)
THEOREM SuccessIsServed == Spec => []SuccessServesThisRun
<1>1. ASSUME UploadInv PROVE SuccessServesThisRun
  <2>. SUFFICES ASSUME result = "ok", ~cfg.release.skipUpload, NEW u \in Artifacts
                PROVE  /\ \E a \in Named(u) : Served(a) = run
                       /\ cfg.release.forge = "gitlab" => Cardinality(Named(u)) = 1
    BY DEF SuccessServesThisRun, opts
  <2>1. up[u].at = "ok"
    BY <1>1 DEF UploadInv, Answer, AllUploaded
  <2>2. PICK a \in assets : a.name = u /\ Served(a) = run
    BY <1>1, <2>1 DEF UploadInv, Stored
  <2>3. ASSUME cfg.release.forge = "gitlab" PROVE Cardinality(Named(u)) = 1
    <3>1. Named(u) = {a}
      BY <1>1, <2>2, <2>3 DEF UploadInv, OneLink, Named
    <3>. QED
      BY <3>1, FS_Singleton
  <2>. QED
    BY <2>2, <2>3 DEF Named
<1>. QED
  BY <1>1, UploadInvHolds, PTL
-----------------------------------------------------------------------------
(* Links are taken away only where they may be replaced.                   *)
Replaces ==
  \A u \in Artifacts : up[u].at \in {"list", "delete", "relink"} => cfg.release.replaceAssets

(* Without a fault in the run there is no release where one is created, a  *)
(* file of this run belongs to an upload that succeeded, and one that      *)
(* failed found a link of an earlier run.                                  *)
LinkOfBefore ==
  /\ cfg.release.forge = "gitlab" /\ ~cfg.release.replaceAssets
  /\ \E a \in assets : a.run < run

Excused ==
  calm =>
    /\ pc = "create" => release = "none"
    /\ \A a \in assets : a.run = run => up[a.name].at = "ok"
    /\ \A u \in Artifacts : up[u].at = "failed" => LinkOfBefore

CalmInv == Replaces /\ Excused /\ CalmRunSucceeds

NotesFail ==
  /\ ~cfg.notes.skip /\ ~cfg.notes.file
  /\ Fails(cfg.notes, cfg.log, cfg.release.forge = "gitlab" /\ cfg.release.jobToken)

LEMMA CalmExcuses ==
  CalmRunSucceeds <=> (result = "err" /\ calm => LinkOfBefore \/ NotesFail)
BY DEF CalmRunSucceeds, LinkOfBefore, NotesFail, opts

LEMMA CalmExcusesNext ==
  CalmRunSucceeds' <=> (result' = "err" /\ calm' => LinkOfBefore' \/ NotesFail')
<1>1. (CalmRunSucceeds <=> (result = "err" /\ calm => LinkOfBefore \/ NotesFail))'
  BY CalmExcuses, PTL
<1>. QED
  BY <1>1

LEMMA CalmAfter == /\ Fault => ~calm'
                   /\ NoFault => (calm' <=> calm)
BY DEF Fault, NoFault

LEMMA CalmInit == Init => CalmInv
<1>. SUFFICES ASSUME Init PROVE CalmInv
  OBVIOUS
<1>1. \A a \in assets : a.run = 0
  BY DEF Init
<1>2. Replaces /\ Excused
  BY <1>1 DEF Init, Idle, Replaces, Excused
<1>3. result # "err"
  BY DEF Init
<1>. QED
  BY <1>2, <1>3 DEF CalmInv, CalmRunSucceeds
(* A step of the command that leaves uploads and assets alone.             *)
LEMMA CalmQuiet ==
  ASSUME UploadInv, CalmInv, UNCHANGED <<cfg, assets, run, up>>,
         calm' => /\ calm
                  /\ pc' = "create" => release' = "none"
                  /\ result' = "err" => LinkOfBefore \/ NotesFail
  PROVE  CalmInv'
<1>1. (LinkOfBefore' <=> LinkOfBefore) /\ (NotesFail' <=> NotesFail)
  BY DEF LinkOfBefore, NotesFail
<1>2. Replaces'
  BY DEF CalmInv, Replaces
<1>3. Excused'
  BY <1>1 DEF CalmInv, Excused
<1>4. CalmRunSucceeds'
  BY <1>1, CalmExcusesNext
<1>. QED
  BY <1>2, <1>3, <1>4 DEF CalmInv

LEMMA CalmQuietSteps ==
  ASSUME UploadInv, CalmInv, Known,
         \/ Preflight \/ MakeNotes \/ FindRelease
         \/ CreateRelease \/ UpdateRelease \/ StartUploads
         \/ WaitUploads \/ Kill
  PROVE  CalmInv'
<1>. USE CalmAfter DEF GoTo, End, forge, opts
<1>1. pc # "done" /\ result # "err"
  BY DEF UploadInv, Answer, Preflight, MakeNotes, FindRelease, CreateRelease,
         UpdateRelease, StartUploads, WaitUploads, Kill
<1>2. CASE Preflight
  BY <1>1, <1>2, CalmQuiet DEF Preflight
<1>3. CASE MakeNotes
  BY <1>1, <1>3, CalmQuiet DEF MakeNotes, NotesFail
<1>4. CASE FindRelease
  BY <1>1, <1>4, CalmQuiet DEF FindRelease
<1>5. CASE CreateRelease
  <2>1. calm => release = "none"
    BY <1>5 DEF CreateRelease, CalmInv, Excused
  <2>. QED
    BY <1>1, <1>5, <2>1, CalmQuiet DEF CreateRelease, Opened
<1>6. CASE UpdateRelease
  BY <1>1, <1>6, CalmQuiet DEF UpdateRelease, Edited
<1>7. CASE StartUploads
  BY <1>1, <1>7, CalmQuiet DEF StartUploads
<1>8. CASE WaitUploads
  <2>1. calm /\ ~AllUploaded => LinkOfBefore
    BY <1>8 DEF WaitUploads, AllUploaded, CalmInv, Excused
  <2>. QED
    BY <1>1, <1>8, <2>1, CalmQuiet DEF WaitUploads
<1>9. CASE Kill
  BY <1>1, <1>9, CalmQuiet DEF Kill
<1>. QED
  BY <1>2, <1>3, <1>4, <1>5, <1>6, <1>7, <1>8, <1>9

LEMMA CalmStartAgain == ASSUME UploadInv, StartAgain PROVE CalmInv'
<1>1. /\ run' = run + 1 /\ pc' = "preflight" /\ result' = "none" /\ assets' = assets
      /\ up' = [u \in Artifacts |-> Idle]
  BY DEF StartAgain, forge
<1>2. \A a \in assets' : a.run # run'
  BY <1>1 DEF UploadInv, Types, Numbered, AssetRecord
<1>3. \A u \in Artifacts : up'[u].at = "idle"
  BY <1>1 DEF Idle
<1>4. Replaces' /\ Excused'
  BY <1>1, <1>2, <1>3 DEF Replaces, Excused
<1>5. CalmRunSucceeds'
  BY <1>1, CalmExcusesNext
<1>. QED
  BY <1>4, <1>5 DEF CalmInv

(* A step of one upload, without a fault.                                  *)
LEMMA CalmOwn ==
  ASSUME UploadInv, CalmInv, NEW u \in Artifacts, NEW x \in UploadRecord,
         pc = "upload", up[u].at \notin {"ok", "failed"}, up' = [up EXCEPT ![u] = x],
         UNCHANGED <<cfg, run, pc, result>>,
         \A a \in assets' \ assets : a.name = u /\ x.at = "ok",
         \A a \in assets \ assets' : cfg.release.replaceAssets,
         x.at \in {"list", "delete", "relink"} => cfg.release.replaceAssets,
         calm' => calm,
         calm /\ x.at = "failed" => LinkOfBefore
  PROVE  CalmInv'
<1>1. up'[u] = x /\ \A v \in Artifacts : v # u => up'[v] = up[v]
  BY DEF UploadInv, Types
<1>2. Replaces'
  BY <1>1 DEF CalmInv, Replaces
<1>3. LinkOfBefore => LinkOfBefore'
  BY DEF LinkOfBefore
<1>4. Excused'
  <2>. SUFFICES ASSUME calm'
                PROVE  /\ pc' = "create" => release' = "none"
                       /\ \A a \in assets' : a.run = run' => up'[a.name].at = "ok"
                       /\ \A v \in Artifacts : up'[v].at = "failed" => LinkOfBefore'
    BY DEF Excused
  <2>1. \A v \in Artifacts : up'[v].at = "failed" => LinkOfBefore'
    BY <1>1, <1>3 DEF CalmInv, Excused
  <2>2. ASSUME NEW a \in assets', a.run = run PROVE up'[a.name].at = "ok"
    <3>1. CASE a \in assets
      <4>1. up[a.name].at = "ok" /\ a.name \in Artifacts
        BY <2>2, <3>1 DEF CalmInv, Excused, UploadInv, Types, AssetRecord
      <4>. QED
        BY <1>1, <4>1
    <3>2. CASE a \notin assets
      BY <1>1, <3>2
    <3>. QED
      BY <3>1, <3>2
  <2>. QED
    BY <2>1, <2>2
<1>5. CalmRunSucceeds'
  <2>1. result' # "err"
    BY DEF UploadInv, Answer
  <2>. QED
    BY <2>1, CalmExcusesNext
<1>. QED
  BY <1>2, <1>4, <1>5 DEF CalmInv

(* With a fault, nothing is promised of this run.                          *)
LEMMA CalmLost ==
  ASSUME UploadInv, CalmInv, NEW u \in Artifacts, Fault, NextAttempt(u),
         UNCHANGED cfg
  PROVE  CalmInv'
<1>1. ~calm'
  BY CalmAfter
<1>2. up'[u].at \in {"file", "failed"} /\ \A v \in Artifacts : v # u => up'[v] = up[v]
  <2>1. up \in [Artifacts -> UploadRecord] /\ up[u] \in UploadRecord
    BY DEF UploadInv, Types
  <2>2. CASE Step(u, "failed")
    BY <2>1, <2>2 DEF Step, UploadRecord
  <2>3. CASE up' = [up EXCEPT ![u] = [Idle EXCEPT !.at = "file", !.outer = up[u].outer + 1]]
    BY <2>1, <2>3 DEF Idle
  <2>. QED
    BY <2>2, <2>3 DEF NextAttempt
<1>3. Replaces'
  BY <1>2 DEF CalmInv, Replaces
<1>. QED
  BY <1>1, <1>3, CalmExcusesNext DEF CalmInv, Excused
LEMMA CalmStep ==
  ASSUME UploadInv, CalmInv, NEW u \in Artifacts, NEW at \in {"file", "ok", "failed"} \cup Links,
         Step(u, at), pc = "upload", up[u].at \notin {"ok", "failed"},
         UNCHANGED <<cfg, run, pc, result>>, calm' => calm,
         \A a \in assets' \ assets : a.name = u /\ at = "ok",
         \A a \in assets \ assets' : cfg.release.replaceAssets,
         at \in {"list", "delete", "relink"} => cfg.release.replaceAssets,
         calm /\ at = "failed" => LinkOfBefore
  PROVE  CalmInv'
<1>1. PICK x \in UploadRecord : up' = [up EXCEPT ![u] = x] /\ x.at = at
  BY StepTo
<1>. QED
  BY <1>1, CalmOwn

LEMMA CalmUploadStep ==
  ASSUME UploadInv, CalmInv, Known, NEW u \in Artifacts, UploadStep(u)
  PROVE  CalmInv'
<1>0. CASE Fault /\ NextAttempt(u)
  <2>1. cfg' = cfg
    BY DEF UploadStep, BeginUpload, UploadFile, CreateLink, FindLink,
           DeleteLink, LinkAgain, Elsewhere
  <2>. QED
    BY <1>0, <2>1, CalmLost
<1>1. CASE BeginUpload(u)
  <2>1. /\ pc = "upload" /\ up[u].at = "idle" /\ Step(u, "file")
        /\ UNCHANGED <<cfg, run, pc, result, calm, assets>>
    BY <1>1 DEF BeginUpload, InUpload, Elsewhere, forge
  <2>. QED
    BY <2>1, CalmStep
<1>2. CASE UploadFile(u) /\ ~(Fault /\ NextAttempt(u))
  <2>. DEFINE to == IF cfg.release.forge = "gitea" THEN "ok" ELSE "link"
              x == [up[u] EXCEPT !.at = to, !.file = Place]
  <2>1. /\ pc = "upload" /\ up[u].at = "file" /\ NoFault /\ FileThere(u)
        /\ UNCHANGED <<cfg, run, pc, result>>
        /\ up' = [up EXCEPT ![u].at = to, ![u].file = Place]
    BY <1>2 DEF UploadFile, InUpload, Elsewhere, Place, opts
  <2>2. up[u] \in UploadRecord /\ up \in [Artifacts -> UploadRecord] /\ to \in {"ok", "link"}
    BY DEF UploadInv, Types
  <2>3. (to = "ok" <=> cfg.release.forge = "gitea") /\ up' = [up EXCEPT ![u] = x]
    BY <2>1, <2>2
  <2>4. \A a \in assets' \ assets : a.name = u /\ to = "ok"
    BY <2>1, <2>3 DEF FileThere, Attach, opts, forge
  <2>5. assets \subseteq assets'
    BY <2>1 DEF FileThere, Attach, forge
  <2>. HIDE DEF to
  <2>6. x \in UploadRecord /\ x.at = to
    BY <2>2, Places DEF UploadRecord, Links
  <2>. HIDE DEF x
  <2>7. calm' => calm
    BY <2>1, CalmAfter
  <2>8. /\ x.at \notin {"list", "delete", "relink"} /\ x.at # "failed"
        /\ \A a \in assets' \ assets : a.name = u /\ x.at = "ok"
    BY <2>2, <2>4, <2>6
  <2>. QED
    BY <2>1, <2>3, <2>5, <2>6, <2>7, <2>8, CalmOwn
<1>3. CASE CreateLink(u) /\ ~(Fault /\ NextAttempt(u))
  <2>1. pc = "upload" /\ up[u].at = "link" /\ UNCHANGED <<cfg, run, pc, result>> /\ (calm' => calm)
    BY <1>3, CalmAfter DEF CreateLink, InUpload, Elsewhere
  <2>2. CASE Attach(u, up[u].file) /\ Step(u, "ok")
    <3>1. \A a \in assets' \ assets : a.name = u
      BY <2>2 DEF Attach
    <3>2. assets \subseteq assets'
      BY <2>2 DEF Attach
    <3>. QED
      BY <2>1, <2>2, <3>1, <3>2, CalmStep
  <2>3. CASE Named(u) # {} /\ OnTaken(u) /\ UNCHANGED forge
    <3>1. assets' = assets
      BY <2>3 DEF forge
    <3>2. PICK a \in assets : a.name = u
      BY <2>3 DEF Named
    <3>3. calm => a.run < run
      BY <2>1, <3>2 DEF UploadInv, Numbered, Types, AssetRecord, CalmInv, Excused
    <3>4. cfg.release.forge = "gitlab"
      BY <2>1 DEF UploadInv, Linking, Links
    <3>5. CASE cfg.release.replaceAssets
      BY <2>1, <2>3, <3>1, <3>5, CalmStep DEF OnTaken, opts, Links
    <3>6. CASE ~cfg.release.replaceAssets
      <4>1. calm => LinkOfBefore
        BY <3>3, <3>4, <3>6 DEF LinkOfBefore
      <4>. QED
        BY <2>1, <2>3, <3>1, <3>6, <4>1, CalmStep DEF OnTaken, opts
    <3>. QED
      BY <3>5, <3>6
  <2>. QED
    BY <1>3, <2>2, <2>3 DEF CreateLink
<1>4. CASE FindLink(u) /\ ~(Fault /\ NextAttempt(u))
  <2>1. /\ pc = "upload" /\ up[u].at = "list" /\ UNCHANGED <<cfg, run, pc, result, assets>>
        /\ calm' => calm
    BY <1>4, CalmAfter DEF FindLink, InUpload, Elsewhere, forge
  <2>2. PICK a \in Named(u) : up' = [up EXCEPT ![u].at = "delete", ![u].target = a.id]
    BY <1>4 DEF FindLink
  <2>. DEFINE x == [up[u] EXCEPT !.at = "delete", !.target = a.id]
  <2>3. up[u] \in UploadRecord /\ up \in [Artifacts -> UploadRecord] /\ a.id \in Nat
    BY <2>2 DEF UploadInv, Types, AssetRecord, Named
  <2>4. x \in UploadRecord /\ x.at = "delete" /\ up' = [up EXCEPT ![u] = x]
    BY <2>2, <2>3 DEF UploadRecord, Links
  <2>5. cfg.release.replaceAssets
    BY <2>1 DEF CalmInv, Replaces
  <2>. HIDE DEF x
  <2>. QED
    BY <2>1, <2>4, <2>5, CalmOwn
<1>5. CASE DeleteLink(u) /\ ~(Fault /\ NextAttempt(u))
  <2>1. /\ pc = "upload" /\ up[u].at = "delete" /\ UNCHANGED <<cfg, run, pc, result>>
        /\ calm' => calm
        /\ assets' \subseteq assets /\ Step(u, "relink")
    BY <1>5, CalmAfter DEF DeleteLink, InUpload, Elsewhere, Gone
  <2>2. cfg.release.replaceAssets
    BY <2>1 DEF CalmInv, Replaces
  <2>. QED
    BY <2>1, <2>2, CalmStep DEF Links
<1>6. CASE LinkAgain(u) /\ ~(Fault /\ NextAttempt(u))
  <2>1. /\ pc = "upload" /\ up[u].at = "relink" /\ UNCHANGED <<cfg, run, pc, result>>
        /\ calm' => calm
        /\ Attach(u, up[u].file) /\ Step(u, "ok")
    BY <1>6, CalmAfter DEF LinkAgain, InUpload, Elsewhere
  <2>2. assets \subseteq assets' /\ \A a \in assets' \ assets : a.name = u
    BY <2>1 DEF Attach
  <2>. QED
    BY <2>1, <2>2, CalmStep
<1>. QED
  BY <1>0, <1>1, <1>2, <1>3, <1>4, <1>5, <1>6 DEF UploadStep

(* A run to GitLab or Gitea that meets no fault fails only where its       *)
(* changelog is configured wrongly, or where GitLab has a link of a name   *)
(* from an earlier run and may not replace it.                             *)
THEOREM CalmRunsToForges == Spec => []CalmRunSucceeds
<1>1. UploadInv /\ Known /\ CalmInv /\ [Next]_vars => CalmInv'
  <2>. SUFFICES ASSUME UploadInv, Known, CalmInv, [Next]_vars PROVE CalmInv'
    OBVIOUS
  <2>1. ASSUME NEW u \in Artifacts, UploadStep(u) PROVE CalmInv'
    BY <2>1, CalmUploadStep
  <2>2. CASE StartAgain
    BY <2>2, CalmStartAgain
  <2>3. CASE UNCHANGED vars
    <3>1. UNCHANGED <<cfg, assets, release, run, up, pc, result, calm>>
      BY <2>3 DEF vars, forge
    <3>2. /\ calm /\ pc = "create" => release = "none"
          /\ calm /\ result = "err" => LinkOfBefore \/ NotesFail
      BY CalmExcuses DEF CalmInv, Excused
    <3>. QED
      BY <3>1, <3>2, CalmQuiet
  <2>4. CASE \/ Preflight \/ MakeNotes \/ FindRelease
             \/ CreateRelease \/ UpdateRelease \/ StartUploads
             \/ WaitUploads \/ Kill
    BY <2>4, CalmQuietSteps
  <2>. QED
    BY <2>1, <2>2, <2>3, <2>4 DEF Next, Rest
<1>2. CalmInv => CalmRunSucceeds
  BY DEF CalmInv
<1>. QED
  BY <1>1, <1>2, CalmInit, UploadInvHolds, PTL DEF Spec
-----------------------------------------------------------------------------
(* What the notes of a tag are made of: texts, and the run each is of.     *)
TheTexts == {FromFile} \cup UNION {Texts(p.notes, p.log) : p \in Projects}
Note == [run : Nat, text : TheTexts]
Notes == Seq(Note)

NoneOf(r, n) == \A i \in 1..Len(n) : n[i].run # r
OneOf(r, n) == \A i, j \in 1..Len(n) : n[i].run = r /\ n[j].run = r => i = j
UpTo(r, n) == \A i \in 1..Len(n) : n[i].run <= r
Within(n, m) == \A i \in 1..Len(n) : \E j \in 1..Len(m) : m[j] = n[i]

(* Until the release of the tag is looked for, none of its notes are of    *)
(* this run; the notes to send hold what it has, and one text of this run  *)
(* at most.                                                                *)
NotesInv ==
  /\ cfg \in Projects
  /\ notes \in Notes /\ body \in Notes
  /\ UpTo(run, notes) /\ UpTo(run, body)
  /\ release = "none" => notes = <<>>
  /\ pc \in {"preflight", "changelog", "find"} => NoneOf(run, notes)
  /\ pc = "find" => Len(body) = 1
  /\ pc = "update" => release # "none"
  /\ pc \in AfterFind =>
       /\ OneOf(run, body)
       /\ cfg.release.mode # "replace" => Within(notes, body)

LEMMA Appended ==
  ASSUME NEW r \in Nat, NEW old \in Notes, NEW new \in Notes, Len(new) = 1,
         NoneOf(r, old), UpTo(r, old), UpTo(r, new)
  PROVE  /\ old \o new \in Notes /\ UpTo(r, old \o new) /\ OneOf(r, old \o new)
         /\ Within(old, old \o new)
<1>. DEFINE n == old \o new
<1>0. old \in Seq(Note) /\ new \in Seq(Note) /\ Len(old) \in Nat
  BY DEF Notes
<1>1. /\ n \in Notes /\ Len(n) = Len(old) + 1
      /\ \A i \in 1..Len(old) + 1 : n[i] = IF i <= Len(old) THEN old[i] ELSE new[i - Len(old)]
  <2>1. /\ old \o new \in Seq(Note) /\ Len(old \o new) = Len(old) + Len(new)
        /\ \A i \in 1..Len(old) + Len(new) :
             (old \o new)[i] = IF i <= Len(old) THEN old[i] ELSE new[i - Len(old)]
    BY <1>0, ConcatProperties
  <2>. QED
    BY <1>0, <2>1 DEF Notes
<1>2. Len(old) \in Nat
  BY <1>0
<1>. HIDE DEF n
<1>3. n[Len(old) + 1] = new[1] /\ \A i \in 1..Len(old) : n[i] = old[i]
  BY <1>1, <1>2
<1>4. \A i \in 1..Len(n) : i = Len(old) + 1 \/ i \in 1..Len(old)
  BY <1>1, <1>2
<1>5. OneOf(r, n)
  BY <1>3, <1>4 DEF OneOf, NoneOf
<1>6. UpTo(r, n)
  BY <1>3, <1>4 DEF UpTo
<1>7. Within(old, n)
  BY <1>1, <1>2, <1>3 DEF Within
<1>. QED
  BY <1>1, <1>5, <1>6, <1>7 DEF n

LEMMA Prepended ==
  ASSUME NEW r \in Nat, NEW old \in Notes, NEW new \in Notes, Len(new) = 1,
         NoneOf(r, old), UpTo(r, old), UpTo(r, new)
  PROVE  /\ new \o old \in Notes /\ UpTo(r, new \o old) /\ OneOf(r, new \o old)
         /\ Within(old, new \o old)
<1>. DEFINE n == new \o old
<1>0. old \in Seq(Note) /\ new \in Seq(Note) /\ Len(old) \in Nat
  BY DEF Notes
<1>1. /\ n \in Notes /\ Len(n) = Len(old) + 1
      /\ \A i \in 1..Len(old) + 1 : n[i] = IF i <= 1 THEN new[i] ELSE old[i - 1]
  <2>1. /\ new \o old \in Seq(Note) /\ Len(new \o old) = Len(new) + Len(old)
        /\ \A i \in 1..Len(new) + Len(old) :
             (new \o old)[i] = IF i <= Len(new) THEN new[i] ELSE old[i - Len(new)]
    BY <1>0, ConcatProperties
  <2>. QED
    BY <1>0, <2>1 DEF Notes
<1>2. Len(old) \in Nat
  BY <1>0
<1>. HIDE DEF n
<1>3. n[1] = new[1] /\ \A i \in 1..Len(old) : n[i + 1] = old[i]
  BY <1>1, <1>2
<1>4. ASSUME NEW i \in 1..Len(n) PROVE i = 1 \/ \E k \in 1..Len(old) : i = k + 1
  <2>1. i # 1 => i - 1 \in 1..Len(old) /\ i = (i - 1) + 1
    BY <1>1, <1>2
  <2>. QED
    BY <2>1
<1>5. OneOf(r, n)
  <2>. SUFFICES ASSUME NEW i \in 1..Len(n), NEW j \in 1..Len(n), n[i].run = r, n[j].run = r
                PROVE  i = j
    BY DEF OneOf
  <2>1. i = 1 /\ j = 1
    BY <1>3, <1>4 DEF NoneOf
  <2>. QED
    BY <2>1
<1>6. UpTo(r, n)
  <2>. SUFFICES ASSUME NEW i \in 1..Len(n) PROVE n[i].run <= r
    BY DEF UpTo
  <2>1. CASE i = 1
    BY <1>3, <2>1 DEF UpTo
  <2>2. ASSUME NEW k \in 1..Len(old), i = k + 1 PROVE n[i].run <= r
    BY <1>3, <2>2 DEF UpTo
  <2>. QED
    BY <1>4, <2>1, <2>2
<1>7. Within(old, n)
  BY <1>1, <1>2, <1>3 DEF Within
<1>. QED
  BY <1>1, <1>5, <1>6, <1>7 DEF n

(* getReleaseNotes takes nothing away, and adds the text of this run once. *)
LEMMA NotesMerged ==
  ASSUME NEW r \in Nat, NEW old \in Notes, NEW new \in Notes, Len(new) = 1,
         NoneOf(r, old), UpTo(r, old), UpTo(r, new)
  PROVE  /\ getReleaseNotes(old, new) \in Notes
         /\ UpTo(r, getReleaseNotes(old, new))
         /\ OneOf(r, getReleaseNotes(old, new))
         /\ cfg.release.mode # "replace" => Within(old, getReleaseNotes(old, new))
<1>1. CASE cfg.release.mode = "append"
  BY <1>1, Appended DEF getReleaseNotes, opts
<1>2. CASE cfg.release.mode = "prepend"
  BY <1>2, Prepended DEF getReleaseNotes, opts
<1>3. OneOf(r, new) /\ OneOf(r, old) /\ Within(old, old) /\ (old = <<>> => Within(old, new))
  BY DEF OneOf, NoneOf, Within, Notes
<1>4. CASE cfg.release.mode = "replace"
  BY <1>3, <1>4 DEF getReleaseNotes, opts
<1>5. CASE cfg.release.mode \notin {"append", "prepend", "replace"}
  <2>1. getReleaseNotes(old, new) = IF old # <<>> THEN old ELSE new
    BY <1>5 DEF getReleaseNotes, opts
  <2>. QED
    BY <1>3, <2>1
<1>. QED
  BY <1>1, <1>2, <1>4, <1>5

LEMMA NotesInit == Init => NotesInv
<1>. SUFFICES ASSUME Init PROVE NotesInv
  OBVIOUS
<1>1. cfg \in Projects /\ pc = "preflight" /\ body = <<>> /\ run = 1
  BY DEF Init
<1>2. <<>> \in Notes /\ \A r \in Nat : UpTo(r, <<>>) /\ NoneOf(r, <<>>)
  BY DEF Notes, UpTo, NoneOf
<1>3. CASE notes = <<>>
  BY <1>1, <1>2, <1>3 DEF NotesInv, AfterFind
<1>4. CASE notes = Earlier /\ release # "none"
  <2>. DEFINE first == [run |-> 0, text |-> FromFile]
  <2>1. first \in Note /\ first.run = 0
    BY DEF Note, TheTexts
  <2>2. notes = <<first>>
    BY <1>4 DEF Earlier
  <2>. HIDE DEF first
  <2>3. notes \in Notes /\ Len(notes) = 1 /\ notes[1] = first
    BY <2>1, <2>2 DEF Notes
  <2>4. UpTo(run, notes) /\ NoneOf(run, notes)
    BY <1>1, <2>1, <2>3 DEF UpTo, NoneOf
  <2>. QED
    BY <1>1, <1>2, <1>4, <2>3, <2>4 DEF NotesInv, AfterFind
<1>5. notes = <<>> \/ (notes = Earlier /\ release # "none")
  BY DEF Init
<1>. QED
  BY <1>3, <1>4, <1>5

(* A step that neither sends nor makes notes.                              *)
LEMMA NotesQuiet ==
  ASSUME NotesInv, UNCHANGED <<cfg, release, notes, body, run>>,
         \/ pc' = pc
         \/ pc' \notin AfterFind \cup {"preflight", "changelog", "find"}
         \/ pc = "preflight" /\ pc' = "changelog"
  PROVE  NotesInv'
BY DEF NotesInv, NoneOf, OneOf, UpTo, Within, AfterFind

LEMMA MakeNotesInv ==
  ASSUME UploadInv, NotesInv, MakeNotes PROVE NotesInv'
<1>. USE DEF MakeNotes, GoTo, End, forge
<1>1. pc = "changelog" /\ UNCHANGED <<cfg, release, notes, run>>
  OBVIOUS
<1>2. CASE pc' = "done" /\ body' = body
  BY <1>1, <1>2, NotesQuiet DEF AfterFind
<1>3. ASSUME NEW text \in Texts(cfg.notes, cfg.log), body' = <<[run |-> run, text |-> text]>>,
             pc' = "find"
      PROVE  NotesInv'
  <2>. DEFINE it == [run |-> run, text |-> text]
  <2>1. text \in TheTexts /\ run \in Nat
    BY <1>3 DEF NotesInv, TheTexts, UploadInv, Types
  <2>2. it \in Note /\ it.run = run
    BY <2>1 DEF Note
  <2>. HIDE DEF it
  <2>3. body' \in Notes /\ Len(body') = 1 /\ body'[1] = it
    BY <1>3, <2>2 DEF Notes, it
  <2>4. UpTo(run, body')
    BY <2>1, <2>2, <2>3 DEF UpTo
  <2>. QED
    BY <1>1, <1>3, <2>3, <2>4 DEF NotesInv, AfterFind, NoneOf, UpTo
<1>. QED
  BY <1>2, <1>3

LEMMA FindReleaseNotes ==
  ASSUME UploadInv, NotesInv, FindRelease PROVE NotesInv'
<1>. USE DEF FindRelease, GoTo, End, forge
<1>1. /\ pc = "find" /\ UNCHANGED <<cfg, release, notes, run>>
      /\ Len(body) = 1 /\ NoneOf(run, notes) /\ run \in Nat
  BY DEF NotesInv, UploadInv, Types
<1>2. CASE pc' = "done" /\ body' = body
  BY <1>1, <1>2, NotesQuiet DEF AfterFind
<1>3. CASE release = "none" /\ pc' = "create" /\ body' = body
  <2>. HIDE DEF FindRelease, GoTo, End, forge
  <2>1. notes = <<>>
    BY <1>3 DEF NotesInv
  <2>2. OneOf(run, body) /\ Within(notes, body)
    BY <1>1, <2>1 DEF OneOf, Within
  <2>3. OneOf(run, body)' /\ Within(notes, body)' /\ UpTo(run, notes)' /\ UpTo(run, body)'
    BY <1>1, <1>3, <2>2 DEF OneOf, Within, UpTo, NotesInv
  <2>. QED
    BY <1>1, <1>3, <2>3 DEF NotesInv, AfterFind
<1>4. CASE release # "none" /\ pc' = "update" /\ body' = getReleaseNotes(notes, body)
  <2>1. notes \in Notes /\ body \in Notes /\ UpTo(run, notes) /\ UpTo(run, body)
    BY DEF NotesInv
  <2>2. /\ body' \in Notes /\ UpTo(run, body') /\ OneOf(run, body')
        /\ cfg.release.mode # "replace" => Within(notes, body')
    BY <1>1, <1>4, <2>1, NotesMerged
  <2>. QED
    BY <1>1, <1>4, <2>2 DEF NotesInv, AfterFind, UpTo, OneOf, Within
<1>. QED
  BY <1>2, <1>3, <1>4

(* A request leaves the notes as they are, or as they were sent.           *)
Sends ==
  /\ pc \in AfterFind /\ (pc' = pc \/ pc' \in {"created", "done"})
  /\ UNCHANGED <<cfg, run, body>>
  /\ UNCHANGED <<release, notes>> \/ (release' # "none" /\ notes' = body)

LEMMA SendsInv == ASSUME NotesInv, Sends PROVE NotesInv'
BY DEF NotesInv, Sends, AfterFind, NoneOf, OneOf, UpTo, Within

LEMMA RequestsSend ==
  ASSUME NotesInv, CreateRelease \/ UpdateRelease PROVE Sends
<1>. USE DEF GoTo, End, RetryOrEnd, forge, Sends, AfterFind, StartState
<1>1. CASE CreateRelease
  BY <1>1 DEF CreateRelease, Opened
<1>2. CASE UpdateRelease
  BY <1>2 DEF UpdateRelease, Edited, Sent, NotesInv
<1>. QED
  BY <1>1, <1>2

(* None of the other steps sends notes or makes them.                      *)
LEMMA OthersKeepNotes ==
  ASSUME \/ Preflight \/ StartUploads \/ WaitUploads \/ Kill
         \/ Rest \/ \E u \in Artifacts : UploadStep(u)
  PROVE  /\ UNCHANGED <<cfg, release, notes, body, run>>
         /\ \/ pc' = pc
            \/ pc' \notin AfterFind \cup {"preflight", "changelog", "find"}
            \/ pc = "preflight" /\ pc' = "changelog"
<1>. USE DEF GoTo, End, forge, AfterFind
<1>1. CASE Preflight
  BY <1>1 DEF Preflight
<1>2. CASE StartUploads
  BY <1>2 DEF StartUploads
<1>3. CASE WaitUploads
  BY <1>3 DEF WaitUploads
<1>4. CASE Kill
  BY <1>4 DEF Kill
<1>5. CASE Rest
  BY <1>5 DEF Rest, vars
<1>6. ASSUME NEW u \in Artifacts, UploadStep(u)
      PROVE  UNCHANGED <<cfg, release, notes, body, run, pc>>
  <2>. USE DEF Elsewhere, Attach, Gone, FileThere
  <2>1. CASE BeginUpload(u)
    BY <2>1 DEF BeginUpload
  <2>2. CASE UploadFile(u)
    BY <2>2 DEF UploadFile
  <2>3. CASE CreateLink(u)
    BY <2>3 DEF CreateLink
  <2>4. CASE FindLink(u)
    BY <2>4 DEF FindLink
  <2>5. CASE DeleteLink(u)
    BY <2>5 DEF DeleteLink
  <2>6. CASE LinkAgain(u)
    BY <2>6 DEF LinkAgain
  <2>. QED
    BY <1>6, <2>1, <2>2, <2>3, <2>4, <2>5, <2>6 DEF UploadStep
<1>. QED
  BY <1>1, <1>2, <1>3, <1>4, <1>5, <1>6

LEMMA NotesStartAgain ==
  ASSUME UploadInv, NotesInv, StartAgain PROVE NotesInv'
<1>1. /\ run' = run + 1 /\ pc' = "preflight" /\ body' = <<>>
      /\ UNCHANGED <<cfg, release, notes>>
  BY DEF StartAgain, forge
<1>2. run \in Nat /\ notes \in Notes /\ UpTo(run, notes)
  BY DEF UploadInv, Types, NotesInv
<1>3. \A i \in 1..Len(notes) : notes[i].run \in Nat
  <2>1. \A i \in 1..Len(notes) : notes[i] \in Note
    BY <1>2 DEF Notes
  <2>. QED
    BY <2>1 DEF Note
<1>4. UpTo(run + 1, notes) /\ NoneOf(run + 1, notes)
  BY <1>2, <1>3 DEF UpTo, NoneOf
<1>5. <<>> \in Notes /\ UpTo(run + 1, <<>>)
  BY DEF Notes, UpTo
<1>. QED
  BY <1>1, <1>2, <1>4, <1>5 DEF NotesInv, AfterFind

LEMMA NotesNext ==
  ASSUME UploadInv, NotesInv, [Next]_vars
  PROVE  NotesInv' /\ (Sends \/ notes' = notes)
<1>1. CASE \/ Preflight \/ StartUploads \/ WaitUploads \/ Kill
           \/ Rest \/ \E u \in Artifacts : UploadStep(u)
  BY <1>1, OthersKeepNotes, NotesQuiet
<1>2. CASE UNCHANGED vars
  BY <1>2, NotesQuiet DEF vars, forge
<1>3. CASE MakeNotes
  BY <1>3, MakeNotesInv DEF MakeNotes, forge
<1>4. CASE FindRelease
  BY <1>4, FindReleaseNotes DEF FindRelease, forge
<1>5. CASE CreateRelease \/ UpdateRelease
  BY <1>5, RequestsSend, SendsInv
<1>6. CASE StartAgain
  BY <1>6, NotesStartAgain DEF StartAgain, forge
<1>. QED
  BY <1>1, <1>2, <1>3, <1>4, <1>5, <1>6 DEF Next

(* In a mode that adds to the notes or keeps them, no text that was there  *)
(* is lost and no run adds its own twice, however often requests are lost  *)
(* and sent again, and however often the command is started.               *)
THEOREM NotesAreKeptOnce == Spec => NotesKeptOnce
<1>. DEFINE Kept == opts.mode # "replace" =>
                      /\ ToSet(notes) \subseteq ToSet(notes')
                      /\ Cardinality({i \in DOMAIN notes' : notes'[i].run = run}) <= 1
<1>1. UploadInv /\ NotesInv /\ [Next]_vars => NotesInv' /\ (Sends \/ notes' = notes)
  BY NotesNext
<1>2. NotesInv /\ (Sends \/ notes' = notes) => Kept \/ notes' = notes
  <2>. SUFFICES ASSUME NotesInv, Sends, notes' # notes, cfg.release.mode # "replace"
                PROVE  /\ ToSet(notes) \subseteq ToSet(notes')
                       /\ Cardinality({i \in DOMAIN notes' : notes'[i].run = run}) <= 1
    BY DEF opts
  <2>1. /\ notes' = body /\ notes \in Notes /\ body \in Notes
        /\ OneOf(run, body) /\ Within(notes, body)
    BY DEF NotesInv, Sends
  <2>2. DOMAIN notes = 1..Len(notes) /\ DOMAIN body = 1..Len(body)
    BY <2>1 DEF Notes
  <2>3. ToSet(notes) \subseteq ToSet(notes')
    BY <2>1, <2>2 DEF ToSet, Within
  <2>. DEFINE own == {i \in DOMAIN body : body[i].run = run}
  <2>4. Cardinality(own) <= 1
    <3>1. own = {} \/ \E i : own = {i}
      <4>1. ASSUME NEW i \in own PROVE own = {i}
        BY <2>1, <2>2 DEF OneOf
      <4>. QED
        BY <4>1
    <3>2. Cardinality({}) = 0 /\ \A i : Cardinality({i}) = 1
      BY FS_EmptySet, FS_Singleton
    <3>. HIDE DEF own
    <3>3. Cardinality(own) = 0 \/ Cardinality(own) = 1
      BY <3>1, <3>2
    <3>. QED
      BY <3>3
  <2>. QED
    BY <2>1, <2>3, <2>4
<1>3. UploadInv /\ NotesInv /\ [Next]_vars => NotesInv' /\ [Kept]_notes
  BY <1>1, <1>2
<1>. QED
  BY <1>3, NotesInit, UploadInvHolds, PTL DEF Spec, NotesKeptOnce
-----------------------------------------------------------------------------
(* Induction, from the least element of a set of numbers.                  *)
LEMMA LessThanIsWellFounded == IsWellFoundedOn({ss \in Nat \X Nat : ss[1] < ss[2]}, Nat)
BY NatLessThanWellFounded DEF OpToRel

LEMMA SmallestOf ==
  ASSUME NEW T \in SUBSET Nat, T # {}
  PROVE \E n \in T : \A m \in T : n <= m
<1>1. PICK x \in T : \A y \in T : <<y,x>> \notin {ss \in Nat \X Nat : ss[1] < ss[2]}
  BY LessThanIsWellFounded, WFMin
<1>2. \A m \in T : m \in Nat /\ x \in Nat /\ ~(m < x)
  BY <1>1
<1>3. QED BY <1>2

(* Induction on a set of numbers rather than on a formula.                 *)
LEMMA Inductive ==
  ASSUME NEW T, 0 \in T, \A n \in Nat : n \in T => n + 1 \in T
  PROVE  Nat \subseteq T
<1>1. SUFFICES ASSUME Nat \ T # {} PROVE FALSE
  OBVIOUS
<1>2. PICK n \in Nat \ T : \A m \in Nat \ T : n <= m
  BY <1>1, SmallestOf
<1>3. n - 1 \in Nat /\ n - 1 \notin Nat \ T
  <2>1. n # 0
    OBVIOUS
  <2>2. n - 1 \in Nat /\ ~(n <= n - 1)
    BY <2>1
  <2>3. QED BY <2>2, <1>2
<1>4. n - 1 + 1 \in T
  BY <1>3
<1>5. QED BY <1>4

LEMMA LargestOf ==
  ASSUME NEW k \in Nat, NEW T \in SUBSET (1..k), T # {}
  PROVE  Max(T) \in T /\ \A t \in T : t <= Max(T)
<1> DEFINE Bounds == {m \in Nat : \A t \in T : t <= m}
<1>1. k \in Bounds
  OBVIOUS
<1>2. PICK m \in Bounds : \A b \in Bounds : m <= b
  BY <1>1, SmallestOf
<1>3. m \in T
  <2>1. SUFFICES ASSUME m \notin T PROVE FALSE
    OBVIOUS
  <2>2. m \in Nat /\ \A t \in T : t \in Nat /\ t >= 1 /\ t <= m /\ t # m
    BY <2>1
  <2>3. PICK t \in T : TRUE
    OBVIOUS
  <2>5. m - 1 \in Nat
    BY <2>2, <2>3
  <2>6. \A u \in T : u <= m - 1
    BY <2>2
  <2>7. m - 1 \in Bounds /\ ~(m <= m - 1)
    BY <2>2, <2>5, <2>6
  <2>4. QED BY <2>7, <1>2
<1>4. \E x \in T : \A y \in T : x >= y
  BY <1>3
<1>5. Max(T) \in T /\ \A y \in T : Max(T) >= y
  BY <1>4 DEF Max
<1>6. QED BY <1>5

LEMMA LargestOfRange ==
  ASSUME NEW k \in Nat, k > 0 PROVE Max(1..k) = k
<1>1. 1..k \in SUBSET (1..k) /\ 1..k # {} /\ k \in 1..k
  OBVIOUS
<1>2. Max(1..k) \in 1..k /\ k <= Max(1..k)
  BY <1>1, LargestOf
<1>3. QED BY <1>2

(* What a fold computes of the first numbers, one by one.                  *)
Follows(g, k, Z, base, h) ==
  /\ g \in [SUBSET (1..k) -> Z]
  /\ \A T \in SUBSET (1..k) :
       g[T] = IF T = {} THEN base ELSE h[<<g[T \ {Max(T)}], Max(T)>>]

(* A step and a base have a function that follows them.                    *)
LEMMA Recursion ==
  ASSUME NEW n \in Nat, NEW Z, NEW base \in Z, NEW h \in [Z \X (1..n) -> Z]
  PROVE  \E g : Follows(g, n, Z, base, h)
<1> DEFINE Solved == {k \in Nat : k <= n => \E g : Follows(g, k, Z, base, h)}
<1>1. 0 \in Solved
  <2> DEFINE g == [T \in SUBSET (1..0) |-> base]
  <2>1. \A T \in SUBSET (1..0) : T = {}
    OBVIOUS
  <2>2. Follows(g, 0, Z, base, h)
    BY <2>1 DEF Follows
  <2>3. QED BY <2>2
<1>2. ASSUME NEW k \in Nat, k \in Solved PROVE k + 1 \in Solved
  <2>1. SUFFICES ASSUME k + 1 <= n PROVE \E g : Follows(g, k + 1, Z, base, h)
    OBVIOUS
  <2>2. PICK f : Follows(f, k, Z, base, h)
    BY <1>2, <2>1
  <2> DEFINE g == [T \in SUBSET (1..k+1) |->
                     IF k + 1 \in T THEN h[<<f[T \ {k + 1}], k + 1>>] ELSE f[T]]
  <2>3. \A T \in SUBSET (1..k+1) : T \ {k + 1} \in SUBSET (1..k) /\ (k + 1 \notin T => T \in SUBSET (1..k))
    <3>1. \A x \in 1..k+1 : x # k + 1 => x \in 1..k
      OBVIOUS
    <3>2. QED BY <3>1
  <2>4. k + 1 \in 1..n
    BY <2>1
  <2>5. g \in [SUBSET (1..k+1) -> Z]
    BY <2>2, <2>3, <2>4 DEF Follows
  <2>6. ASSUME NEW T \in SUBSET (1..k+1)
        PROVE  g[T] = IF T = {} THEN base ELSE h[<<g[T \ {Max(T)}], Max(T)>>]
    <3>1. CASE k + 1 \in T
      <4>1. k + 1 \in Nat /\ T # {}
        BY <3>1
      <4>2. Max(T) \in T /\ k + 1 <= Max(T)
        BY <4>1, <3>1, LargestOf
      <4>3. Max(T) \in 1..k+1
        BY <4>2
      <4>4. Max(T) = k + 1
        BY <4>2, <4>3
      <4>5. g[T \ {k + 1}] = f[T \ {k + 1}]
        OBVIOUS
      <4>6. QED BY <3>1, <4>1, <4>4, <4>5
    <3>2. CASE k + 1 \notin T
      <4>1. T \in SUBSET (1..k) /\ g[T] = f[T]
        BY <3>2, <2>3
      <4>2. f[T] = IF T = {} THEN base ELSE h[<<f[T \ {Max(T)}], Max(T)>>]
        BY <4>1, <2>2 DEF Follows
      <4>3. g[T \ {Max(T)}] = f[T \ {Max(T)}]
        BY <3>2
      <4>4. QED BY <4>1, <4>2, <4>3
    <3>3. QED BY <3>1, <3>2
  <2>7. Follows(g, k + 1, Z, base, h)
    BY <2>5, <2>6 DEF Follows
  <2>8. QED BY <2>7
<1>3. Nat \subseteq Solved
  <2> HIDE DEF Solved
  <2>1. QED BY <1>1, <1>2, Inductive
<1>4. QED BY <1>3


LEMMA Unrolled ==
  ASSUME NEW n \in Nat, NEW Z, NEW base, NEW h, NEW g, Follows(g, n, Z, base, h)
  PROVE  /\ g[1..0] = base /\ \A k \in 0..n : g[1..k] \in Z
         /\ \A k \in 1..n : g[1..k] = h[<<g[1..k-1], k>>]
<1>1. \A k \in 0..n : 1..k \in SUBSET (1..n)
  OBVIOUS
<1>2. 1..0 = {} /\ 0 \in 0..n
  OBVIOUS
<1>3. g[1..0] = base
  BY <1>1, <1>2 DEF Follows
<1>4. \A k \in 0..n : g[1..k] \in Z
  BY <1>1 DEF Follows
<1>5. ASSUME NEW k \in 1..n PROVE g[1..k] = h[<<g[1..k-1], k>>]
  <2>1. Max(1..k) = k
    BY LargestOfRange
  <2>2. (1..k) \ {k} = 1..k-1 /\ 1..k # {}
    OBVIOUS
  <2>3. 1..k \in SUBSET (1..n)
    OBVIOUS
  <2>4. QED BY <2>1, <2>2, <2>3 DEF Follows
<1>6. QED BY <1>3, <1>4, <1>5

LEMMA Ranges ==
  ASSUME NEW n \in Nat
  PROVE  /\ 1..n \in SUBSET (1..n) /\ 1..0 = {}
         /\ \A k \in 1..n : 1..k \in SUBSET (1..n) /\ 1..k # {} /\ Max(1..k) = k /\ (1..k) \ {k} = 1..k-1
BY LargestOfRange

(* Keep goes through the log, an element at a time.                        *)
LEMMA KeepSteps ==
  ASSUME NEW X, NEW s \in Seq(X), NEW S
  PROVE  \E g :
           /\ g[0] = <<>> /\ g[Len(s)] = Keep(s, S)
           /\ \A k \in 1..Len(s) : g[k] = IF s[k] \in S THEN Append(g[k-1], s[k]) ELSE g[k-1]
<1> DEFINE n == Len(s)
           Adds(z, c) == IF c \in S THEN Append(z, c) ELSE z
           h == [p \in Seq(X) \X (1..n) |-> Adds(p[1], s[p[2]])]
           Loop(f) == f = [T \in SUBSET DOMAIN s |->
                             IF T = {} THEN <<>> ELSE Adds(f[T \ {Max(T)}], s[Max(T)])]
           W == CHOOSE f : Loop(f)
           g == [k \in 0..n |-> W[1..k]]
<1>1. Keep(s, S) = W[DOMAIN s]
  BY DEF Keep, FoldLeft, MapThenFoldSet
<1>2. n \in Nat /\ DOMAIN s = 1..n /\ \A i \in 1..n : s[i] \in X
  OBVIOUS
<1>3. h \in [Seq(X) \X (1..n) -> Seq(X)] /\ <<>> \in Seq(X)
  BY <1>2
<1>4. \A z \in Seq(X), i \in 1..n : h[<<z, i>>] = Adds(z, s[i])
  OBVIOUS
<1> HIDE DEF h, n, Adds
<1>5. \E f : Loop(f)
  <2>1. PICK f : Follows(f, n, Seq(X), <<>>, h)
    BY <1>2, <1>3, Recursion
  <2>2. ASSUME NEW T \in SUBSET (1..n), T # {} PROVE f[T \ {Max(T)}] \in Seq(X) /\ Max(T) \in 1..n
    BY <1>2, <2>1, <2>2, LargestOf DEF Follows
  <2>3. Loop(f)
    BY <2>1, <2>2, <1>2, <1>4 DEF Follows
  <2>4. QED BY <2>3
<1>6. Loop(W)
  BY <1>5
<1>7. /\ W[1..0] = <<>>
      /\ \A k \in 1..n : W[1..k] = Adds(W[1..k-1], s[k])
  <2> HIDE DEF W
  <2>1. W = [T \in SUBSET (1..n) |-> IF T = {} THEN <<>> ELSE Adds(W[T \ {Max(T)}], s[Max(T)])]
    BY <1>6, <1>2
  <2>2. W[1..0] = <<>>
    BY <2>1, <1>2, Ranges
  <2>3. ASSUME NEW k \in 1..n PROVE W[1..k] = Adds(W[1..k-1], s[k])
    <3>1. 1..k \in SUBSET (1..n) /\ 1..k # {} /\ Max(1..k) = k /\ (1..k) \ {k} = 1..k-1
      BY <1>2, Ranges
    <3>2. QED BY <2>1, <3>1
  <2>4. QED BY <2>2, <2>3
<1>8. /\ g[0] = <<>> /\ g[n] = W[1..n]
      /\ \A k \in 1..n : g[k] = W[1..k] /\ g[k-1] = W[1..k-1]
  BY <1>2, <1>7
<1>9. g[0] = <<>> /\ g[n] = Keep(s, S) /\ \A k \in 1..n : g[k] = Adds(g[k-1], s[k])
  BY <1>1, <1>2, <1>7, <1>8
<1>10. QED BY <1>9 DEF n, Adds

(* r is what of the first k of s is in S, in the order of s.               *)
Selects(r, s, S, k) ==
  \E e \in [1..Len(r) -> 1..k] :
    /\ \A i \in 1..Len(r) : r[i] = s[e[i]] /\ s[e[i]] \in S
    /\ \A i, j \in 1..Len(r) : i < j => e[i] < e[j]
    /\ \A i \in 1..k : s[i] \in S => \E j \in 1..Len(r) : e[j] = i

LEMMA SelectNone == ASSUME NEW s, NEW S PROVE Selects(<<>>, s, S, 0)
<1>1. Len(<<>>) = 0 /\ \A i \in 1..0 : FALSE
  OBVIOUS
<1>2. [i \in 1..0 |-> i] \in [1..0 -> 1..0]
  OBVIOUS
<1>3. QED BY <1>1, <1>2 DEF Selects

LEMMA SelectMore ==
  ASSUME NEW X, NEW s \in Seq(X), NEW S, NEW k \in 1..Len(s), NEW r \in Seq(X), Selects(r, s, S, k - 1),
         NEW t, t = IF s[k] \in S THEN Append(r, s[k]) ELSE r
  PROVE  t \in Seq(X) /\ Selects(t, s, S, k)
<1> DEFINE n == Len(r)
<1>1. PICK e \in [1..n -> 1..k-1] :
        /\ \A i \in 1..n : r[i] = s[e[i]] /\ s[e[i]] \in S
        /\ \A i, j \in 1..n : i < j => e[i] < e[j]
        /\ \A i \in 1..k-1 : s[i] \in S => \E j \in 1..n : e[j] = i
  BY DEF Selects
<1>2. n \in Nat /\ s[k] \in X /\ k \in Nat /\ k > 0
  OBVIOUS
<1>3. CASE s[k] \in S
  <2> DEFINE f == [i \in 1..n+1 |-> IF i = n + 1 THEN k ELSE e[i]]
  <2>1. t \in Seq(X) /\ Len(t) = n + 1 /\ t[n+1] = s[k] /\ \A i \in 1..n : t[i] = r[i]
    BY <1>2, <1>3
  <2>2. f \in [1..n+1 -> 1..k] /\ f[n+1] = k /\ \A i \in 1..n : f[i] = e[i] /\ f[i] \in 1..k-1
    <3>1. \A i \in 1..n : i # n + 1 /\ e[i] \in 1..k-1 /\ e[i] \in 1..k /\ i \in 1..n+1
      <4>1. ASSUME NEW i \in 1..n PROVE e[i] \in 1..k-1
        BY <1>1
      <4>2. \A m \in 1..k-1 : m \in 1..k
        BY <1>2
      <4>3. \A i \in 1..n : i # n + 1 /\ i \in 1..n+1
        BY <1>2
      <4>4. QED BY <4>1, <4>2, <4>3
    <3>2. n + 1 \in 1..n+1 /\ k \in 1..k /\ \A i \in 1..n+1 : i # n + 1 => i \in 1..n
      BY <1>2
    <3>3. QED BY <3>1, <3>2
  <2> HIDE DEF f
  <2>3. \A i \in 1..n+1 : t[i] = s[f[i]] /\ s[f[i]] \in S
    BY <1>1, <1>2, <1>3, <2>1, <2>2
  <2>4. \A i, j \in 1..n+1 : i < j => f[i] < f[j]
    <3>1. ASSUME NEW i \in 1..n+1, NEW j \in 1..n+1, i < j PROVE f[i] < f[j]
      <4>1. i \in 1..n
        BY <3>1, <1>2
      <4>2. CASE j = n + 1
        <5>1. f[i] \in 1..k-1 /\ f[j] = k
          BY <4>1, <4>2, <2>2
        <5>2. QED BY <5>1
      <4>3. CASE j # n + 1
        <5>1. j \in 1..n
          BY <4>3, <1>2
        <5>2. e[i] < e[j] /\ f[i] = e[i] /\ f[j] = e[j]
          BY <4>1, <5>1, <2>2, <1>1, <3>1
        <5>3. QED BY <5>2
      <4>4. QED BY <4>2, <4>3
    <3>2. QED BY <3>1
  <2>5. \A i \in 1..k : s[i] \in S => \E j \in 1..n+1 : f[j] = i
    <3>1. ASSUME NEW i \in 1..k, s[i] \in S PROVE \E j \in 1..n+1 : f[j] = i
      <4>1. CASE i = k
        BY <4>1, <2>2, <1>2
      <4>2. CASE i # k
        <5>1. i \in 1..k-1
          BY <4>2
        <5>2. PICK j \in 1..n : e[j] = i
          BY <5>1, <3>1, <1>1
        <5>3. j \in 1..n+1 /\ f[j] = i
          BY <5>2, <2>2, <1>2
        <5>4. QED BY <5>3
      <4>3. QED BY <4>1, <4>2
    <3>2. QED BY <3>1
  <2>6. Selects(t, s, S, k)
    <3>1. Len(t) = n + 1
      BY <2>1
    <3>2. f \in [1..Len(t) -> 1..k]
      BY <3>1, <2>2
    <3>3. /\ \A i \in 1..Len(t) : t[i] = s[f[i]] /\ s[f[i]] \in S
          /\ \A i, j \in 1..Len(t) : i < j => f[i] < f[j]
          /\ \A i \in 1..k : s[i] \in S => \E j \in 1..Len(t) : f[j] = i
      BY <3>1, <2>3, <2>4, <2>5
    <3>4. QED BY <3>2, <3>3 DEF Selects
  <2>7. QED BY <2>1, <2>6
<1>4. CASE s[k] \notin S
  <2>1. e \in [1..n -> 1..k]
    BY <1>1
  <2>2. \A i \in 1..k : s[i] \in S => i \in 1..k-1
    BY <1>4
  <2>3. Selects(r, s, S, k)
    BY <1>1, <2>1, <2>2 DEF Selects
  <2>4. QED BY <2>3, <1>4
<1>5. QED BY <1>3, <1>4

(* Keep selects what passes, and nothing else, in the order of the log.    *)
LEMMA KeepSelects ==
  ASSUME NEW X, NEW s \in Seq(X), NEW S
  PROVE  Keep(s, S) \in Seq(X) /\ Selects(Keep(s, S), s, S, Len(s))
<1>1. PICK g :
           /\ g[0] = <<>> /\ g[Len(s)] = Keep(s, S)
           /\ \A k \in 1..Len(s) : g[k] = IF s[k] \in S THEN Append(g[k-1], s[k]) ELSE g[k-1]
  BY KeepSteps
<1> DEFINE Done == {k \in Nat : k <= Len(s) => g[k] \in Seq(X) /\ Selects(g[k], s, S, k)}
<1>2. 0 \in Done
  <2>1. g[0] \in Seq(X) /\ Selects(g[0], s, S, 0)
    BY <1>1, SelectNone
  <2>2. QED BY <2>1
<1>3. ASSUME NEW k \in Nat, k \in Done PROVE k + 1 \in Done
  <2>1. SUFFICES ASSUME k + 1 <= Len(s) PROVE g[k+1] \in Seq(X) /\ Selects(g[k+1], s, S, k + 1)
    OBVIOUS
  <2>2. k + 1 \in 1..Len(s) /\ k + 1 - 1 = k /\ k <= Len(s)
    BY <2>1
  <2>3. g[k+1] = IF s[k+1] \in S THEN Append(g[k], s[k+1]) ELSE g[k]
    BY <1>1, <2>2
  <2>4. g[k] \in Seq(X) /\ Selects(g[k], s, S, k + 1 - 1)
    BY <1>3, <2>2
  <2> DEFINE j == k + 1
  <2>5. j \in 1..Len(s) /\ g[k] \in Seq(X) /\ Selects(g[k], s, S, j - 1)
    BY <2>2, <2>4
  <2>6. g[j] = IF s[j] \in S THEN Append(g[k], s[j]) ELSE g[k]
    BY <2>3
  <2> HIDE DEF j
  <2>7. g[j] \in Seq(X) /\ Selects(g[j], s, S, j)
    BY <2>5, <2>6, SelectMore
  <2>8. QED BY <2>7 DEF j
<1>4. Nat \subseteq Done
  <2> HIDE DEF Done
  <2>1. QED BY <1>2, <1>3, Inductive
<1>5. QED BY <1>1, <1>4

LEMMA SelectsFrom ==
  ASSUME NEW s, NEW S, NEW T, NEW k, NEW r, Selects(r, s, S, k), \A i \in 1..k : s[i] \in S <=> s[i] \in T
  PROVE  Selects(r, s, T, k)
BY DEF Selects

LEMMA SelectsAll ==
  ASSUME NEW X, NEW s \in Seq(X)
  PROVE  Selects(s, s, X, Len(s))
<1> DEFINE e == [i \in 1..Len(s) |-> i]
<1>1. e \in [1..Len(s) -> 1..Len(s)] /\ \A i \in 1..Len(s) : e[i] = i /\ s[i] \in X
  OBVIOUS
<1> HIDE DEF e
<1>2. QED BY <1>1 DEF Selects

(* To select from a selection is to select what passes both.               *)
LEMMA SelectsTwice ==
  ASSUME NEW X, NEW s \in Seq(X), NEW t \in Seq(X), NEW r \in Seq(X), NEW S, NEW T,
         Selects(t, s, T, Len(s)), Selects(r, t, S, Len(t))
  PROVE  Selects(r, s, S \cap T, Len(s))
<1>1. PICK f \in [1..Len(t) -> 1..Len(s)] :
    /\ \A i \in 1..Len(t) : t[i] = s[f[i]] /\ s[f[i]] \in T
    /\ \A i, j \in 1..Len(t) : i < j => f[i] < f[j]
    /\ \A i \in 1..Len(s) : s[i] \in T => \E j \in 1..Len(t) : f[j] = i
  BY DEF Selects
<1>2. PICK e \in [1..Len(r) -> 1..Len(t)] :
    /\ \A i \in 1..Len(r) : r[i] = t[e[i]] /\ t[e[i]] \in S
    /\ \A i, j \in 1..Len(r) : i < j => e[i] < e[j]
    /\ \A i \in 1..Len(t) : t[i] \in S => \E j \in 1..Len(r) : e[j] = i
  BY DEF Selects
<1> DEFINE g == [i \in 1..Len(r) |-> f[e[i]]]
<1>3. g \in [1..Len(r) -> 1..Len(s)] /\ \A i \in 1..Len(r) : g[i] = f[e[i]] /\ e[i] \in 1..Len(t)
  BY <1>1, <1>2
<1> HIDE DEF g
<1>4. \A i \in 1..Len(r) : r[i] = s[g[i]] /\ s[g[i]] \in S \cap T
  <2>1. ASSUME NEW i \in 1..Len(r) PROVE r[i] = s[g[i]] /\ s[g[i]] \in S \cap T
    <3>1. e[i] \in 1..Len(t) /\ r[i] = t[e[i]] /\ t[e[i]] \in S /\ g[i] = f[e[i]]
      BY <1>2, <1>3
    <3>2. t[e[i]] = s[f[e[i]]] /\ s[f[e[i]]] \in T
      BY <1>1, <3>1
    <3>3. QED BY <3>1, <3>2
  <2>2. QED BY <2>1
<1>5. \A i, j \in 1..Len(r) : i < j => g[i] < g[j]
  BY <1>1, <1>2, <1>3
<1>6. ASSUME NEW i \in 1..Len(s), s[i] \in S \cap T PROVE \E j \in 1..Len(r) : g[j] = i
  <2>1. PICK j \in 1..Len(t) : f[j] = i
    BY <1>1, <1>6
  <2>2. t[j] \in S
    BY <1>1, <1>6, <2>1
  <2>3. PICK k \in 1..Len(r) : e[k] = j
    BY <1>2, <2>2
  <2>4. g[k] = i
    BY <2>1, <2>3, <1>3
  <2>5. QED BY <2>4
<1>7. QED BY <1>3, <1>4, <1>5, <1>6 DEF Selects

(* No element comes twice.                                                 *)
Distinct(s) == \A i, j \in DOMAIN s : s[i] = s[j] => i = j

LEMMA SelectsDistinct ==
  ASSUME NEW X, NEW s \in Seq(X), NEW r \in Seq(X), NEW S, Selects(r, s, S, Len(s)), Distinct(s)
  PROVE  Distinct(r) /\ ToSet(r) = ToSet(s) \cap S
<1>1. PICK e \in [1..Len(r) -> 1..Len(s)] :
    /\ \A i \in 1..Len(r) : r[i] = s[e[i]] /\ s[e[i]] \in S
    /\ \A i, j \in 1..Len(r) : i < j => e[i] < e[j]
    /\ \A i \in 1..Len(s) : s[i] \in S => \E j \in 1..Len(r) : e[j] = i
  BY DEF Selects
<1>2. DOMAIN s = 1..Len(s) /\ DOMAIN r = 1..Len(r) /\ Len(r) \in Nat
  OBVIOUS
<1>3. ASSUME NEW i \in DOMAIN r, NEW j \in DOMAIN r, r[i] = r[j] PROVE i = j
  <2>1. e[i] = e[j] /\ e[i] \in Nat
    BY <1>1, <1>2, <1>3 DEF Distinct
  <2>2. ~(i < j) /\ ~(j < i) /\ i \in Nat /\ j \in Nat
    BY <1>1, <1>2, <2>1
  <2>3. QED BY <2>2
<1>4. ToSet(r) \subseteq ToSet(s) \cap S
  BY <1>1, <1>2 DEF ToSet
<1>5. ToSet(s) \cap S \subseteq ToSet(r)
  <2>1. ASSUME NEW x \in ToSet(s) \cap S PROVE x \in ToSet(r)
    <3>1. PICK i \in 1..Len(s) : x = s[i]
      BY <1>2 DEF ToSet
    <3>2. PICK j \in 1..Len(r) : e[j] = i
      BY <1>1, <3>1
    <3>3. r[j] = x
      BY <1>1, <3>1, <3>2
    <3>4. QED BY <3>3, <1>2 DEF ToSet
  <2>2. QED BY <2>1
<1>6. QED BY <1>3, <1>4, <1>5 DEF Distinct

LEMMA ElementsFinite ==
  ASSUME NEW X, NEW s \in Seq(X)
  PROVE  IsFiniteSet(ToSet(s)) /\ (Distinct(s) => Cardinality(ToSet(s)) = Len(s))
<1>1. DOMAIN s = 1..Len(s) /\ Len(s) \in Nat /\ s = [i \in 1..Len(s) |-> s[i]]
  OBVIOUS
<1>2. IsFiniteSet(1..Len(s)) /\ Cardinality(1..Len(s)) = Len(s)
  <2> DEFINE n == Len(s)
  <2>1. 1 \in Int /\ n \in Int /\ (1 > n => n = 0) /\ n - 1 + 1 = n
    BY <1>1
  <2> HIDE DEF n
  <2>2. IsFiniteSet(1..n) /\ Cardinality(1..n) = n
    BY <2>1, FS_Interval
  <2>3. QED BY <2>2 DEF n
<1>3. s \in Surjection(1..Len(s), ToSet(s))
  BY <1>1 DEF Surjection, ToSet
<1>4. Distinct(s) => s \in Injection(1..Len(s), ToSet(s))
  BY <1>1, <1>3 DEF Distinct, Injection, Surjection, IsInjective
<1>5. QED BY <1>2, <1>3, <1>4, FS_Surjection

(* SetToSeqs orders a set, each element once.                              *)
LEMMA Orders ==
  ASSUME NEW S, IsFiniteSet(S), NEW s \in SetToSeqs(S)
  PROVE  s \in Seq(S) /\ Distinct(s) /\ ToSet(s) = S
<1> DEFINE D == 1..Cardinality(S)
<1>1. s \in [D -> S] /\ (\A i, j \in D : i # j => s[i] # s[j]) /\ Cardinality(S) \in Nat
  BY FS_CardinalityType DEF SetToSeqs
<1>2. IsFiniteSet(D) /\ Cardinality(D) = Cardinality(S)
  BY <1>1, FS_Interval
<1>3. s \in Injection(D, S)
  BY <1>1 DEF Injection, IsInjective
<1>4. s \in Surjection(D, S)
  BY <1>2, <1>3, FS_Injection
<1>5. ToSet(s) = S
  BY <1>4, <1>1 DEF ToSet, Surjection
<1>6. s \in Seq(S)
  BY <1>1
<1>7. QED BY <1>1, <1>5, <1>6 DEF Distinct

(* The excludes of filterEntries, one after the other.                     *)
Excluded(ex, log) == FoldLeft(LAMBDA left, pattern : remove(pattern, left), log, ex)

LEMMA RemoveSteps ==
  ASSUME NEW X, NEW log \in Seq(X), NEW P, NEW ex \in Seq(P)
  PROVE  \E g :
           /\ g[0] = log /\ g[Len(ex)] = Excluded(ex, log)
           /\ \A k \in 1..Len(ex) : g[k] = remove(ex[k], g[k-1])
<1> DEFINE n == Len(ex)
           h == [p \in Seq(X) \X (1..n) |-> remove(ex[p[2]], p[1])]
           Loop(f) == f = [T \in SUBSET DOMAIN ex |->
                             IF T = {} THEN log ELSE remove(ex[Max(T)], f[T \ {Max(T)}])]
           W == CHOOSE f : Loop(f)
           g == [k \in 0..n |-> W[1..k]]
<1>1. Excluded(ex, log) = W[DOMAIN ex]
  BY DEF Excluded, FoldLeft, MapThenFoldSet
<1>2. n \in Nat /\ DOMAIN ex = 1..n
  OBVIOUS
<1>3. h \in [Seq(X) \X (1..n) -> Seq(X)]
  <2>1. ASSUME NEW z \in Seq(X), NEW i \in 1..n PROVE remove(ex[i], z) \in Seq(X)
    BY KeepSelects DEF remove
  <2>2. QED BY <2>1
<1>4. \A z \in Seq(X), i \in 1..n : h[<<z, i>>] = remove(ex[i], z)
  OBVIOUS
<1> HIDE DEF h, n
<1>5. \E f : Loop(f)
  <2>1. PICK f : Follows(f, n, Seq(X), log, h)
    BY <1>2, <1>3, Recursion
  <2>2. ASSUME NEW T \in SUBSET (1..n), T # {} PROVE f[T \ {Max(T)}] \in Seq(X) /\ Max(T) \in 1..n
    BY <1>2, <2>1, <2>2, LargestOf DEF Follows
  <2>3. Loop(f)
    BY <2>1, <2>2, <1>2, <1>4 DEF Follows
  <2>4. QED BY <2>3
<1>6. W = [T \in SUBSET (1..n) |-> IF T = {} THEN log ELSE remove(ex[Max(T)], W[T \ {Max(T)}])]
  BY <1>2, <1>5
<1> HIDE DEF W
<1>7. W[1..0] = log
  BY <1>2, <1>6, Ranges
<1>8. ASSUME NEW k \in 1..n PROVE g[k] = remove(ex[k], g[k-1])
  <2>1. 1..k \in SUBSET (1..n) /\ 1..k # {} /\ Max(1..k) = k /\ (1..k) \ {k} = 1..k-1
    BY <1>2, Ranges
  <2>2. g[k] = W[1..k] /\ g[k-1] = W[1..k-1]
    BY <1>2
  <2>3. W[1..k] = remove(ex[Max(1..k)], W[(1..k) \ {Max(1..k)}])
    BY <2>1, <1>6
  <2> HIDE DEF g
  <2>4. QED BY <2>1, <2>2, <2>3
<1>9. g[0] = log /\ g[n] = W[1..n]
  BY <1>2, <1>7
<1>10. QED BY <1>1, <1>2, <1>8, <1>9 DEF n

LEMMA RemoveSelects ==
  ASSUME NEW X, NEW s \in Seq(X), NEW pattern
  PROVE  /\ remove(pattern, s) \in Seq(X)
         /\ Selects(remove(pattern, s), s, {c \in X : c.message \notin pattern}, Len(s))
<1> DEFINE S == {c \in ToSet(s) : c.message \notin pattern}
           T == {c \in X : c.message \notin pattern}
<1>1. remove(pattern, s) \in Seq(X) /\ Selects(remove(pattern, s), s, S, Len(s))
  BY KeepSelects DEF remove
<1>2. \A i \in 1..Len(s) : s[i] \in S <=> s[i] \in T
  BY DEF ToSet
<1> HIDE DEF S, T
<1>3. QED BY <1>1, <1>2, SelectsFrom DEF T

(* What an include or the excludes let pass.                               *)
Lets(nt, c) ==
  IF nt.include # <<>> THEN \E i \in 1..Len(nt.include) : c.message \in nt.include[i]
  ELSE \A i \in 1..Len(nt.exclude) : c.message \notin nt.exclude[i]

(* The filter selects what is included or, without includes, not excluded. *)
LEMMA FilterSelects ==
  ASSUME NEW X, NEW s \in Seq(X), NEW nt, NEW P, nt.exclude \in Seq(P)
  PROVE  /\ filterEntries(nt, s) \in Seq(X)
         /\ Selects(filterEntries(nt, s), s, {c \in X : Lets(nt, c)}, Len(s))
<1> DEFINE r == filterEntries(nt, s)
           T == {c \in X : Lets(nt, c)}
<1>1. CASE nt.include # <<>>
  <2> DEFINE S == {c \in ToSet(s) : \E i \in 1..Len(nt.include) : c.message \in nt.include[i]}
  <2>1. r = Keep(s, S)
    BY <1>1 DEF filterEntries, keepAny
  <2>2. r \in Seq(X) /\ Selects(r, s, S, Len(s))
    BY <2>1, KeepSelects
  <2>3. \A i \in 1..Len(s) : s[i] \in S <=> s[i] \in T
    BY <1>1 DEF Lets, ToSet
  <2> HIDE DEF S, T, r
  <2>4. Selects(r, s, T, Len(s))
    BY <2>2, <2>3, SelectsFrom
  <2>5. QED BY <2>2, <2>4 DEF r, T
<1>2. CASE nt.include = <<>>
  <2> DEFINE ex == nt.exclude
             Lasts(k) == {c \in X : \A i \in 1..k : c.message \notin ex[i]}
  <2>1. PICK g : /\ g[0] = s /\ g[Len(ex)] = r
                 /\ \A k \in 1..Len(ex) : g[k] = remove(ex[k], g[k-1])
    <3>1. r = Excluded(ex, s)
      BY <1>2 DEF filterEntries, Excluded
    <3>2. ex \in Seq(P)
      OBVIOUS
    <3> HIDE DEF r, ex
    <3>3. QED BY <3>1, <3>2, RemoveSteps
  <2> DEFINE Done == {k \in Nat : k <= Len(ex) => g[k] \in Seq(X) /\ Selects(g[k], s, Lasts(k), Len(s))}
  <2>2. 0 \in Done
    <3>1. Lasts(0) = X
      OBVIOUS
    <3>2. Selects(g[0], s, Lasts(0), Len(s))
      BY <2>1, <3>1, SelectsAll
    <3>3. QED BY <2>1, <3>2
  <2>3. ASSUME NEW k \in Nat, k \in Done PROVE k + 1 \in Done
    <3>1. SUFFICES ASSUME k + 1 <= Len(ex)
                   PROVE g[k+1] \in Seq(X) /\ Selects(g[k+1], s, Lasts(k+1), Len(s))
      OBVIOUS
    <3>2. k + 1 \in 1..Len(ex) /\ k + 1 - 1 = k /\ k <= Len(ex)
      BY <3>1
    <3>3. g[k+1] = remove(ex[k+1], g[k])
      BY <2>1, <3>2
    <3>4. g[k] \in Seq(X) /\ Selects(g[k], s, Lasts(k), Len(s))
      BY <2>3, <3>2
    <3> DEFINE S == {c \in X : c.message \notin ex[k+1]}
    <3> DEFINE pattern == ex[k+1]
               t == g[k]
    <3>5. g[k+1] \in Seq(X) /\ Selects(g[k+1], g[k], S, Len(g[k]))
      <4>1. t \in Seq(X) /\ g[k+1] = remove(pattern, t) /\ S = {c \in X : c.message \notin pattern}
        BY <3>3, <3>4
      <4> HIDE DEF t, pattern, S
      <4>2. g[k+1] \in Seq(X) /\ Selects(g[k+1], t, S, Len(t))
        BY <4>1, RemoveSelects
      <4>3. QED BY <4>2 DEF t
    <3>6. S \cap Lasts(k) = Lasts(k+1)
      <4>1. \A i \in 1..k+1 : i = k + 1 \/ i \in 1..k
        OBVIOUS
      <4>2. k + 1 \in 1..k+1 /\ \A i \in 1..k : i \in 1..k+1
        OBVIOUS
      <4>3. QED BY <4>1, <4>2
    <3> HIDE DEF S, Lasts
    <3>7. Selects(g[k+1], s, S \cap Lasts(k), Len(s))
      BY <3>4, <3>5, SelectsTwice
    <3>8. QED BY <3>5, <3>6, <3>7
  <2>4. Nat \subseteq Done
    <3> HIDE DEF Done
    <3>1. QED BY <2>2, <2>3, Inductive
  <2>5. r \in Seq(X) /\ Selects(r, s, Lasts(Len(ex)), Len(s))
    <3>1. Len(ex) \in Nat
      OBVIOUS
    <3>2. Len(ex) <= Len(ex)
      BY <3>1
    <3>3. QED BY <2>1, <2>4, <3>1, <3>2
  <2>6. Lasts(Len(ex)) = T
    BY <1>2 DEF Lets
  <2> HIDE DEF r, T, Lasts
  <2>7. Selects(r, s, T, Len(s))
    BY <2>5, <2>6
  <2>8. QED BY <2>5, <2>7 DEF r, T
<1>3. QED BY <1>1, <1>2

(* Sorting loses nothing and adds nothing.                                 *)
LEMMA SortOrders ==
  ASSUME NEW X, NEW s \in Seq(X), Distinct(s), NEW direction, NEW t \in sortEntries(direction, s)
  PROVE  /\ t \in Seq(X) /\ Distinct(t) /\ ToSet(t) = ToSet(s)
         /\ direction = "" => t = s
         /\ direction # "" => \A i, j \in 1..Len(t) : i < j => InOrder(direction, t[i], t[j])
<1>1. CASE direction = ""
  BY <1>1 DEF sortEntries
<1>2. CASE direction # ""
  <2>1. t \in SetToSeqs(ToSet(s)) /\ \A i, j \in 1..Len(t) : i < j => InOrder(direction, t[i], t[j])
    BY <1>2 DEF sortEntries
  <2>2. IsFiniteSet(ToSet(s)) /\ ToSet(s) \subseteq X
    BY ElementsFinite DEF ToSet
  <2>3. t \in Seq(ToSet(s)) /\ Distinct(t) /\ ToSet(t) = ToSet(s)
    BY <2>1, <2>2, Orders
  <2>4. t \in Seq(X)
    BY <2>2, <2>3
  <2>5. QED BY <1>2, <2>1, <2>3, <2>4
<1>3. QED BY <1>1, <1>2

(* One step of cleanupAuthors.                                             *)
Credit(z, p) == IF KeyOf(p) \in {KeyOf(q) : q \in ToSet(z)} \cup {""} THEN z ELSE Append(z, p)

LEMMA AuthorSteps ==
  ASSUME NEW people \in Seq(Person)
  PROVE  \E g :
           /\ g[0] = <<>> /\ g[Len(people)] = cleanupAuthors(people)
           /\ \A k \in 1..Len(people) : g[k] = Credit(g[k-1], people[k])
<1> DEFINE n == Len(people)
           X == Person
           h == [p \in Seq(X) \X (1..n) |-> Credit(p[1], people[p[2]])]
           Loop(f) == f = [T \in SUBSET DOMAIN people |->
                             IF T = {} THEN <<>> ELSE Credit(f[T \ {Max(T)}], people[Max(T)])]
           W == CHOOSE f : Loop(f)
           g == [k \in 0..n |-> W[1..k]]
<1>1. cleanupAuthors(people) = W[DOMAIN people]
  BY DEF cleanupAuthors, Credit, FoldLeft, MapThenFoldSet
<1>2. n \in Nat /\ DOMAIN people = 1..n /\ \A i \in 1..n : people[i] \in X
  OBVIOUS
<1> HIDE DEF X
<1>3. h \in [Seq(X) \X (1..n) -> Seq(X)] /\ <<>> \in Seq(X)
  <2>1. ASSUME NEW z \in Seq(X), NEW i \in 1..n PROVE Credit(z, people[i]) \in Seq(X)
    <3>1. people[i] \in X
      BY <1>2
    <3>2. Append(z, people[i]) \in Seq(X)
      BY <3>1
    <3>3. QED BY <3>2 DEF Credit
  <2>2. QED BY <2>1
<1>4. \A z \in Seq(X), i \in 1..n : h[<<z, i>>] = Credit(z, people[i])
  OBVIOUS
<1> HIDE DEF h, n
<1>5. \E f : Loop(f)
  <2>1. PICK f : Follows(f, n, Seq(X), <<>>, h)
    BY <1>2, <1>3, Recursion
  <2>2. ASSUME NEW T \in SUBSET (1..n), T # {} PROVE f[T \ {Max(T)}] \in Seq(X) /\ Max(T) \in 1..n
    BY <1>2, <2>1, <2>2, LargestOf DEF Follows
  <2>3. Loop(f)
    BY <2>1, <2>2, <1>2, <1>4 DEF Follows
  <2>4. QED BY <2>3
<1>6. W = [T \in SUBSET (1..n) |-> IF T = {} THEN <<>> ELSE Credit(W[T \ {Max(T)}], people[Max(T)])]
  BY <1>2, <1>5
<1> HIDE DEF W
<1>7. W[1..0] = <<>>
  BY <1>2, <1>6, Ranges
<1>8. ASSUME NEW k \in 1..n PROVE g[k] = Credit(g[k-1], people[k])
  <2>1. 1..k \in SUBSET (1..n) /\ 1..k # {} /\ Max(1..k) = k /\ (1..k) \ {k} = 1..k-1
    BY <1>2, Ranges
  <2>2. g[k] = W[1..k] /\ g[k-1] = W[1..k-1]
    BY <1>2
  <2>3. QED BY <2>1, <2>2, <1>6
<1>9. g[0] = <<>> /\ g[n] = W[1..n]
  BY <1>2, <1>7
<1> HIDE DEF g
<1>10. g[0] = <<>> /\ g[n] = cleanupAuthors(people) /\ \A k \in 1..n : g[k] = Credit(g[k-1], people[k])
  BY <1>1, <1>2, <1>8, <1>9
<1>11. QED BY <1>10 DEF n

(* Each credit has a key, and a key of its own.                            *)
KeysApart(z) ==
  /\ z \in Seq(Person)
  /\ \A i \in DOMAIN z : KeyOf(z[i]) # ""
  /\ \A i, j \in DOMAIN z : KeyOf(z[i]) = KeyOf(z[j]) => i = j

LEMMA OneMore ==
  ASSUME NEW X, NEW s \in Seq(X), NEW x \in X
  PROVE  /\ Len(s) \in Nat /\ DOMAIN s = 1..Len(s) /\ Append(s, x) \in Seq(X)
         /\ DOMAIN Append(s, x) = 1..Len(s)+1 /\ Len(Append(s, x)) = Len(s) + 1
         /\ Append(s, x)[Len(s)+1] = x /\ \A i \in 1..Len(s) : Append(s, x)[i] = s[i]
OBVIOUS

LEMMA KeysStayApart ==
  ASSUME NEW z \in Seq(Person), KeysApart(z), NEW p \in Person, KeyOf(p) \notin {KeyOf(q) : q \in ToSet(z)}, KeyOf(p) # ""
  PROVE  KeysApart(Append(z, p))
<1> DEFINE n == Len(z)
           t == Append(z, p)
<1>1. n \in Nat /\ DOMAIN z = 1..n /\ z \in Seq(Person)
  BY OneMore
<1>2. t \in Seq(Person) /\ DOMAIN t = 1..n+1 /\ t[n+1] = p /\ \A i \in 1..n : t[i] = z[i]
  <2>1. /\ Append(z, p) \in Seq(Person) /\ DOMAIN Append(z, p) = 1..Len(z)+1
        /\ Append(z, p)[Len(z)+1] = p /\ \A i \in 1..Len(z) : Append(z, p)[i] = z[i]
    BY ONLY z \in Seq(Person), p \in Person, OneMore
  <2>2. QED BY ONLY <2>1
<1>3. \A i \in 1..n : KeyOf(z[i]) # KeyOf(p)
  BY <1>1 DEF ToSet
<1> HIDE DEF n, t
<1>4. \A i \in 1..n+1 : i = n + 1 \/ i \in 1..n
  <2>1. n \in Nat
    BY <1>1
  <2>2. QED BY ONLY <2>1
<1>5. \A i \in 1..n+1 : KeyOf(t[i]) # ""
  BY <1>1, <1>2, <1>4 DEF KeysApart
<1>6. ASSUME NEW i \in 1..n+1, NEW j \in 1..n+1, KeyOf(t[i]) = KeyOf(t[j]) PROVE i = j
  <2>1. CASE i = n + 1 /\ j = n + 1
    BY <2>1
  <2>2. CASE i \in 1..n /\ j \in 1..n
    BY <2>2, <1>6, <1>1, <1>2 DEF KeysApart
  <2>3. CASE i \in 1..n /\ j = n + 1
    BY <2>3, <1>6, <1>2, <1>3
  <2>4. CASE i = n + 1 /\ j \in 1..n
    BY <2>4, <1>6, <1>2, <1>3
  <2>5. QED BY <1>4, <2>1, <2>2, <2>3, <2>4
<1>7. KeysApart(t)
  BY <1>2, <1>5, <1>6 DEF KeysApart
<1>8. QED BY <1>7 DEF t

(* cleanupAuthors credits each key once.                                   *)
LEMMA CreditsApart ==
  ASSUME NEW people \in Seq(Person)
  PROVE  KeysApart(cleanupAuthors(people))
<1>1. PICK g :
           /\ g[0] = <<>> /\ g[Len(people)] = cleanupAuthors(people)
           /\ \A k \in 1..Len(people) : g[k] = Credit(g[k-1], people[k])
  BY AuthorSteps
<1> DEFINE Done == {k \in Nat : k <= Len(people) => KeysApart(g[k])}
<1>2. 0 \in Done
  <2>1. KeysApart(<<>>)
    BY DEF KeysApart
  <2>2. QED BY <1>1, <2>1
<1>3. ASSUME NEW k \in Nat, k \in Done PROVE k + 1 \in Done
  <2>1. SUFFICES ASSUME k + 1 <= Len(people) PROVE KeysApart(g[k+1])
    OBVIOUS
  <2>2. k + 1 \in 1..Len(people) /\ k + 1 - 1 = k /\ k <= Len(people)
    BY <2>1
  <2> DEFINE p == people[k+1]
  <2>3. p \in Person /\ KeysApart(g[k])
    BY <1>3, <2>2
  <2>4. g[k+1] = Credit(g[k], p)
    BY <1>1, <2>2
  <2> HIDE DEF p
  <2>5. CASE KeyOf(p) \in {KeyOf(q) : q \in ToSet(g[k])} \cup {""}
    BY <2>3, <2>4, <2>5 DEF Credit
  <2>6. CASE KeyOf(p) \notin {KeyOf(q) : q \in ToSet(g[k])} \cup {""}
    <3>1. g[k+1] = Append(g[k], p)
      BY <2>4, <2>6 DEF Credit
    <3>2. KeyOf(p) \notin {KeyOf(q) : q \in ToSet(g[k])} /\ KeyOf(p) # ""
      BY <2>6
    <3>3. KeysApart(Append(g[k], p))
      BY <2>3, <3>2, KeysStayApart DEF KeysApart
    <3>4. QED BY <3>1, <3>3
  <2>7. QED BY <2>5, <2>6
<1>4. Nat \subseteq Done
  <2> HIDE DEF Done
  <2>1. QED BY <1>2, <1>3, Inductive
<1>5. Len(people) \in Nat /\ Len(people) <= Len(people)
  OBVIOUS
<1>6. QED BY <1>1, <1>4, <1>5

(* Who has a key of its own is nobody else.                                *)
LEMMA NobodyTwice ==
  ASSUME NEW z, KeysApart(z)
  PROVE  \A x, y \in DOMAIN z : x # y => ~SamePerson(z[x], z[y])
<1>1. SUFFICES ASSUME NEW x \in DOMAIN z, NEW y \in DOMAIN z, SamePerson(z[x], z[y]) PROVE x = y
  OBVIOUS
<1>2. z[x] \in Person /\ z[y] \in Person
  <2>1. z \in Seq(Person)
    BY DEF KeysApart
  <2>2. QED BY <2>1
<1>3. KeyOf(z[x]) = KeyOf(z[y])
  BY <1>1, <1>2 DEF SamePerson, KeyOf, Person
<1>4. QED BY <1>3 DEF KeysApart

(* What the text is made of.                                               *)
Entry == [sha : STRING, authors : Seq(Person)]

LEMMA Formatted ==
  ASSUME NEW log \in Seq(CommitRecord)
  PROVE  /\ formatEntries(log) \in Seq(Entry) /\ Len(formatEntries(log)) = Len(log)
         /\ \A i \in 1..Len(log) :
              /\ formatEntries(log)[i] = formatEntry(log[i])
              /\ formatEntries(log)[i].sha = log[i].sha
              /\ KeysApart(formatEntries(log)[i].authors)
<1>1. ASSUME NEW i \in 1..Len(log)
      PROVE  formatEntry(log[i]) \in Entry /\ formatEntry(log[i]).sha = log[i].sha /\ KeysApart(formatEntry(log[i]).authors)
  <2>1. log[i] \in CommitRecord
    OBVIOUS
  <2>2. log[i].sha \in STRING /\ log[i].authors \in Seq(Person)
    BY <2>1 DEF CommitRecord
  <2>3. KeysApart(cleanupAuthors(log[i].authors))
    BY <2>2, CreditsApart
  <2>4. QED BY <2>2, <2>3 DEF formatEntry, Entry, KeysApart
<1>2. formatEntries(log) = [i \in 1..Len(log) |-> formatEntry(log[i])]
  BY DEF formatEntries
<1> DEFINE n == Len(log)
<1>3. n \in Nat
  OBVIOUS
<1>4. [i \in 1..n |-> formatEntry(log[i])] \in Seq(Entry)
  BY <1>1, <1>3
<1>5. QED BY <1>1, <1>2, <1>3, <1>4

Section == [title : STRING \cup {""}, order : Int, entries : Seq(Entry)]
Sections == [left : Seq(CommitRecord), made : Seq(Section)]
(* One group of formatChangelog: what it takes, and what it leaves.        *)
Taken(g, left) == Keep(left, {c \in ToSet(left) : Takes(g, c)})
SectionOf(g, left) == [title |-> g.title, order |-> g.order, entries |-> formatEntries(Taken(g, left))]
GroupStep(z, g) == [left |-> Left(g, z.left), made |-> Append(z.made, SectionOf(g, z.left))]

LEMMA TakenSelects ==
  ASSUME NEW s \in Seq(CommitRecord), NEW g
  PROVE  /\ Taken(g, s) \in Seq(CommitRecord) /\ Left(g, s) \in Seq(CommitRecord)
         /\ Selects(Taken(g, s), s, {c \in CommitRecord : Takes(g, c)}, Len(s))
         /\ Selects(Left(g, s), s, {c \in CommitRecord : ~Takes(g, c)}, Len(s))
<1> DEFINE X == CommitRecord
           S == {c \in ToSet(s) : Takes(g, c)}
           T == {c \in X : Takes(g, c)}
           U == {c \in ToSet(s) : ~Takes(g, c)}
           V == {c \in X : ~Takes(g, c)}
<1>1. \A i \in 1..Len(s) : (s[i] \in S <=> s[i] \in T) /\ (s[i] \in U <=> s[i] \in V)
  BY DEF ToSet
<1>2. Taken(g, s) = Keep(s, S) /\ Left(g, s) = Keep(s, U)
  BY DEF Taken, Left
<1>3. s \in Seq(X)
  OBVIOUS
<1> HIDE DEF S, T, U, V, X
<1>4. Keep(s, S) \in Seq(X) /\ Selects(Keep(s, S), s, S, Len(s)) /\ Keep(s, U) \in Seq(X) /\ Selects(Keep(s, U), s, U, Len(s))
  BY <1>3, KeepSelects
<1>5. Selects(Keep(s, S), s, T, Len(s)) /\ Selects(Keep(s, U), s, V, Len(s))
  BY <1>1, <1>4, SelectsFrom
<1>6. QED BY <1>2, <1>4, <1>5 DEF T, V, X

LEMMA SectionType ==
  ASSUME NEW g \in GroupRecord, NEW s \in Seq(CommitRecord)
  PROVE  SectionOf(g, s) \in Section
<1>1. formatEntries(Taken(g, s)) \in Seq(Entry)
  BY TakenSelects, Formatted
<1>2. g.title \in STRING /\ g.order \in Int
  BY DEF GroupRecord
<1>3. QED BY <1>1, <1>2 DEF SectionOf, Section

LEMMA GroupStepType ==
  ASSUME NEW z \in Sections, NEW g \in GroupRecord
  PROVE  GroupStep(z, g) \in Sections
<1>1. z.left \in Seq(CommitRecord) /\ z.made \in Seq(Section)
  BY DEF Sections
<1>2. Left(g, z.left) \in Seq(CommitRecord) /\ SectionOf(g, z.left) \in Section
  BY <1>1, TakenSelects, SectionType
<1>3. Append(z.made, SectionOf(g, z.left)) \in Seq(Section)
  BY <1>1, <1>2, OneMore
<1>4. QED BY <1>2, <1>3 DEF GroupStep, Sections

LEMMA GroupSteps ==
  ASSUME NEW log \in Seq(CommitRecord), NEW groups \in Seq(GroupRecord)
  PROVE  \E g :
           /\ g[0] = [left |-> log, made |-> <<>>] /\ g[Len(groups)].made = Grouped(groups, log)
           /\ \A k \in 1..Len(groups) : g[k] = GroupStep(g[k-1], groups[k])
<1> DEFINE n == Len(groups)
           Z == Sections
           base == [left |-> log, made |-> <<>>]
           h == [p \in Z \X (1..n) |-> GroupStep(p[1], groups[p[2]])]
           Loop(f) == f = [T \in SUBSET DOMAIN groups |->
                             IF T = {} THEN base ELSE GroupStep(f[T \ {Max(T)}], groups[Max(T)])]
           W == CHOOSE f : Loop(f)
           g == [k \in 0..n |-> W[1..k]]
<1>1. Grouped(groups, log) = W[DOMAIN groups].made
  BY DEF Grouped, GroupStep, SectionOf, Taken, FoldLeft, MapThenFoldSet
<1>2. n \in Nat /\ DOMAIN groups = 1..n /\ \A i \in 1..n : groups[i] \in GroupRecord
  OBVIOUS
<1>3. base \in Z
  BY DEF Sections
<1>4. h \in [Z \X (1..n) -> Z]
  BY <1>2, GroupStepType
<1>5. \A z \in Z, i \in 1..n : h[<<z, i>>] = GroupStep(z, groups[i])
  OBVIOUS
<1> HIDE DEF h, n, Z, base
<1>6. \E f : Loop(f)
  <2>1. PICK f : Follows(f, n, Z, base, h)
    BY <1>2, <1>3, <1>4, Recursion
  <2>2. ASSUME NEW T \in SUBSET (1..n), T # {} PROVE f[T \ {Max(T)}] \in Z /\ Max(T) \in 1..n
    BY <1>2, <2>1, <2>2, LargestOf DEF Follows
  <2>3. Loop(f)
    BY <2>1, <2>2, <1>2, <1>5 DEF Follows
  <2>4. QED BY <2>3
<1>7. W = [T \in SUBSET (1..n) |-> IF T = {} THEN base ELSE GroupStep(W[T \ {Max(T)}], groups[Max(T)])]
  BY <1>2, <1>6
<1> HIDE DEF W
<1>8. W[1..0] = base
  BY <1>2, <1>7, Ranges
<1>9. ASSUME NEW k \in 1..n PROVE g[k] = GroupStep(g[k-1], groups[k])
  <2>1. 1..k \in SUBSET (1..n) /\ 1..k # {} /\ Max(1..k) = k /\ (1..k) \ {k} = 1..k-1
    BY <1>2, Ranges
  <2>2. g[k] = W[1..k] /\ g[k-1] = W[1..k-1]
    BY <1>2
  <2>3. W[1..k] = GroupStep(W[(1..k) \ {k}], groups[k])
    BY <2>1, <1>7
  <2> HIDE DEF g
  <2>4. QED BY <2>1, <2>2, <2>3
<1>10. g[0] = base /\ g[n] = W[1..n]
  BY <1>2, <1>8
<1> HIDE DEF g
<1>11. g[0] = base /\ g[n].made = Grouped(groups, log) /\ \A k \in 1..n : g[k] = GroupStep(g[k-1], groups[k])
  BY <1>1, <1>2, <1>9, <1>10
<1>12. QED BY <1>11 DEF n, base

(* The entries are those of the commits of s in S, in the order of s.      *)
Tells(entries, s, S) ==
  \E r \in Seq(CommitRecord) : Selects(r, s, S, Len(s)) /\ entries = formatEntries(r)

(* What the first k groups leave, and what the k-th is the first to take.  *)
Untaken(groups, k) == {c \in CommitRecord : \A j \in 1..k : ~Takes(groups[j], c)}
FirstTakes(groups, k) == {c \in CommitRecord : Takes(groups[k], c)} \cap Untaken(groups, k - 1)

(* What the loop over the groups has after k of them.                      *)
Grouping(z, groups, log, k) ==
  /\ z \in Sections
  /\ Selects(z.left, log, Untaken(groups, k), Len(log))
  /\ Len(z.made) = k
  /\ \A i \in 1..k :
       /\ z.made[i].title = groups[i].title /\ z.made[i].order = groups[i].order
       /\ Tells(z.made[i].entries, log, FirstTakes(groups, i))

LEMMA GroupingSteps ==
  ASSUME NEW log \in Seq(CommitRecord), NEW groups \in Seq(GroupRecord), NEW k \in 1..Len(groups),
         NEW z, Grouping(z, groups, log, k - 1)
  PROVE  Grouping(GroupStep(z, groups[k]), groups, log, k)
<1> DEFINE g == groups[k]
           t == GroupStep(z, g)
           s == SectionOf(g, z.left)
           V == {c \in CommitRecord : ~Takes(g, c)}
<1>1. g \in GroupRecord /\ k \in Nat /\ k > 0
  OBVIOUS
<1>2. z \in Sections /\ z.left \in Seq(CommitRecord) /\ z.made \in Seq(Section) /\ Len(z.made) = k - 1
  BY DEF Grouping, Sections
<1>3. t \in Sections /\ s \in Section
  BY <1>1, <1>2, GroupStepType, SectionType
<1>4. t.left = Left(g, z.left) /\ t.made = Append(z.made, s)
  BY DEF GroupStep
<1>5. Selects(z.left, log, Untaken(groups, k-1), Len(log))
  BY DEF Grouping
<1>6. Selects(t.left, log, Untaken(groups, k), Len(log))
  <2>1. Left(g, z.left) \in Seq(CommitRecord) /\ Selects(Left(g, z.left), z.left, V, Len(z.left))
    BY <1>2, TakenSelects
  <2>2. V \cap Untaken(groups, k-1) = Untaken(groups, k)
    <3>1. \A i \in 1..k : i = k \/ i \in 1..k-1
      OBVIOUS
    <3>2. k \in 1..k /\ \A i \in 1..k-1 : i \in 1..k
      OBVIOUS
    <3>3. QED BY <3>1, <3>2 DEF Untaken
  <2> HIDE DEF V, t, g
  <2>3. Selects(Left(g, z.left), log, V \cap Untaken(groups, k-1), Len(log))
    BY <1>2, <1>5, <2>1, SelectsTwice
  <2>4. QED BY <2>2, <2>3, <1>4
<1>7. Tells(s.entries, log, FirstTakes(groups, k))
  <2>1. Taken(g, z.left) \in Seq(CommitRecord)
        /\ Selects(Taken(g, z.left), z.left, {c \in CommitRecord : Takes(g, c)}, Len(z.left))
    BY <1>2, TakenSelects
  <2>2. s.entries = formatEntries(Taken(g, z.left))
    BY DEF SectionOf
  <2> HIDE DEF s
  <2>3. Selects(Taken(g, z.left), log, {c \in CommitRecord : Takes(g, c)} \cap Untaken(groups, k-1), Len(log))
    <3> DEFINE S == {c \in CommitRecord : Takes(g, c)}
               r == Taken(g, z.left)
    <3>1. r \in Seq(CommitRecord) /\ Selects(r, z.left, S, Len(z.left))
      BY <2>1
    <3> HIDE DEF S, r
    <3>2. Selects(r, log, S \cap Untaken(groups, k-1), Len(log))
      BY <3>1, <1>2, <1>5, SelectsTwice
    <3>3. QED BY <3>2 DEF S, r
  <2>4. Selects(Taken(g, z.left), log, FirstTakes(groups, k), Len(log))
    BY <2>3 DEF FirstTakes
  <2>5. QED BY <2>1, <2>2, <2>4 DEF Tells
<1>8. s.title = g.title /\ s.order = g.order
  BY DEF SectionOf
<1>9. Len(t.made) = k /\ t.made[k] = s /\ \A i \in 1..k-1 : t.made[i] = z.made[i]
  <2> HIDE DEF t, s
  <2> DEFINE m == Len(z.made)
  <2>1. Len(t.made) = m + 1 /\ t.made[m+1] = s /\ \A i \in 1..m : t.made[i] = z.made[i]
    BY <1>2, <1>3, <1>4, OneMore
  <2>2. m + 1 = k /\ m = k - 1
    BY <1>1, <1>2
  <2>3. QED BY <2>1, <2>2
<1>10. \A i \in 1..k-1 :
         /\ z.made[i].title = groups[i].title /\ z.made[i].order = groups[i].order
         /\ Tells(z.made[i].entries, log, FirstTakes(groups, i))
  BY DEF Grouping
<1> HIDE DEF t, s, g
<1>11. ASSUME NEW i \in 1..k
       PROVE  /\ t.made[i].title = groups[i].title /\ t.made[i].order = groups[i].order
              /\ Tells(t.made[i].entries, log, FirstTakes(groups, i))
  <2>1. CASE i = k
    BY <2>1, <1>7, <1>8, <1>9 DEF g
  <2>2. CASE i \in 1..k-1
    BY <2>2, <1>9, <1>10
  <2>3. QED BY <2>1, <2>2
<1>12. Grouping(t, groups, log, k)
  BY <1>3, <1>6, <1>9, <1>11 DEF Grouping
<1>13. QED BY <1>12 DEF t, g

(* One section for each group, with what no group before it took.          *)
LEMMA GroupedTells ==
  ASSUME NEW log \in Seq(CommitRecord), NEW groups \in Seq(GroupRecord)
  PROVE  /\ Grouped(groups, log) \in Seq(Section) /\ Len(Grouped(groups, log)) = Len(groups)
         /\ \A i \in 1..Len(groups) :
              /\ Grouped(groups, log)[i].title = groups[i].title
              /\ Grouped(groups, log)[i].order = groups[i].order
              /\ Tells(Grouped(groups, log)[i].entries, log, FirstTakes(groups, i))
<1>1. PICK g :
        /\ g[0] = [left |-> log, made |-> <<>>] /\ g[Len(groups)].made = Grouped(groups, log)
        /\ \A k \in 1..Len(groups) : g[k] = GroupStep(g[k-1], groups[k])
  BY GroupSteps
<1> DEFINE Done == {k \in Nat : k <= Len(groups) => Grouping(g[k], groups, log, k)}
<1>2. 0 \in Done
  <2>1. g[0].left = log /\ g[0].made = <<>> /\ g[0] \in Sections
    BY <1>1 DEF Sections
  <2>2. Selects(log, log, CommitRecord, Len(log)) /\ Untaken(groups, 0) = CommitRecord
    BY SelectsAll DEF Untaken
  <2>3. Grouping(g[0], groups, log, 0)
    BY <2>1, <2>2 DEF Grouping
  <2>4. QED BY <2>3
<1>3. ASSUME NEW k \in Nat, k \in Done PROVE k + 1 \in Done
  <2>1. SUFFICES ASSUME k + 1 <= Len(groups) PROVE Grouping(g[k+1], groups, log, k + 1)
    OBVIOUS
  <2> DEFINE j == k + 1
  <2>2. j \in 1..Len(groups) /\ j - 1 = k /\ k <= Len(groups)
    BY <2>1
  <2>3. Grouping(g[k], groups, log, j - 1) /\ g[j] = GroupStep(g[k], groups[j])
    BY <1>1, <1>3, <2>2
  <2> HIDE DEF j
  <2>4. Grouping(g[j], groups, log, j)
    BY <2>2, <2>3, GroupingSteps
  <2>5. QED BY <2>4 DEF j
<1>4. Nat \subseteq Done
  <2> HIDE DEF Done
  <2>1. QED BY <1>2, <1>3, Inductive
<1>5. Len(groups) \in Nat /\ Len(groups) <= Len(groups)
  OBVIOUS
<1>6. Grouping(g[Len(groups)], groups, log, Len(groups))
  BY <1>4, <1>5
<1>7. QED BY <1>1, <1>6 DEF Grouping, Sections

(* FlattenSeq joins the sections, one after the other.                     *)
LEMMA FlattenSteps ==
  ASSUME NEW X, NEW ss \in Seq(Seq(X))
  PROVE  \E g :
           /\ g[0] = <<>> /\ g[Len(ss)] = FlattenSeq(ss)
           /\ \A k \in 1..Len(ss) : g[k] = g[k-1] \o ss[k]
<1> DEFINE n == Len(ss)
           Z == Seq(X)
           h == [p \in Z \X (1..n) |-> p[1] \o ss[p[2]]]
           Loop(f) == f = [i \in 1..n |-> IF i = 1 THEN ss[i] ELSE f[i-1] \o ss[i]]
           W == CHOOSE f : Loop(f)
           g == [k \in 0..n |-> IF k = 0 THEN <<>> ELSE W[k]]
<1>1. n \in Nat /\ DOMAIN ss = 1..n /\ \A i \in 1..n : ss[i] \in Z
  OBVIOUS
<1>2. FlattenSeq(ss) = IF n = 0 THEN ss ELSE W[n]
  BY DEF FlattenSeq
<1>3. n = 0 => ss = <<>>
  OBVIOUS
<1>4. <<>> \in Z /\ \A z \in Z, y \in Z : z \o y \in Z /\ <<>> \o y = y
  OBVIOUS
<1>5. h \in [Z \X (1..n) -> Z]
  BY <1>1, <1>4
<1>6. \A z \in Z, i \in 1..n : h[<<z, i>>] = z \o ss[i]
  OBVIOUS
<1> HIDE DEF h, n, Z
<1>7. \E f : Loop(f)
  <2>1. PICK f : Follows(f, n, Z, <<>>, h)
    BY <1>1, <1>4, <1>5, Recursion
  <2>2. /\ f[1..0] = <<>> /\ \A k \in 0..n : f[1..k] \in Z
        /\ \A k \in 1..n : f[1..k] = h[<<f[1..k-1], k>>]
    BY <1>1, <2>1, Unrolled
  <2> DEFINE w == [i \in 1..n |-> f[1..i]]
  <2>3. ASSUME NEW i \in 1..n PROVE w[i] = IF i = 1 THEN ss[i] ELSE w[i-1] \o ss[i]
    <3>1. i - 1 \in 0..n /\ i \in Nat /\ i > 0
      BY <1>1
    <3>2. w[i] = f[1..i-1] \o ss[i]
      BY <2>2, <3>1, <1>6
    <3>3. CASE i = 1
      <4>1. f[1..i-1] = <<>>
        BY <3>3, <2>2
      <4>2. QED BY <3>2, <4>1, <3>3, <1>1, <1>4
    <3>4. CASE i # 1
      <4>1. i - 1 \in 1..n
        BY <3>1, <3>4, <1>1
      <4>2. w[i-1] = f[1..i-1]
        BY <4>1
      <4>3. QED BY <3>2, <3>4, <4>2
    <3>5. QED BY <3>3, <3>4
  <2>4. Loop(w)
    BY <2>3
  <2>5. QED BY <2>4
<1>8. W = [i \in 1..n |-> IF i = 1 THEN ss[i] ELSE W[i-1] \o ss[i]]
  BY <1>7
<1> HIDE DEF W
<1>9. ASSUME NEW k \in 1..n PROVE g[k] = g[k-1] \o ss[k]
  <2>1. k \in Nat /\ k > 0 /\ k \in 0..n /\ k - 1 \in 0..n
    BY <1>1
  <2>2. CASE k = 1
    BY <2>1, <2>2, <1>1, <1>4, <1>8
  <2>3. CASE k # 1
    <3>1. g[k] = W[k] /\ g[k-1] = W[k-1]
      BY <2>1, <2>3
    <3>2. QED BY <3>1, <1>8, <2>3
  <2>4. QED BY <2>2, <2>3
<1>10. g[0] = <<>> /\ g[n] = FlattenSeq(ss)
  BY <1>1, <1>2, <1>3
<1> HIDE DEF g
<1>11. QED BY <1>9, <1>10 DEF n

LEMMA Joined ==
  ASSUME NEW X, NEW a \in Seq(X), NEW b \in Seq(X)
  PROVE  /\ a \o b \in Seq(X) /\ ToSet(a \o b) = ToSet(a) \cup ToSet(b)
         /\ Distinct(a) /\ Distinct(b) /\ ToSet(a) \cap ToSet(b) = {} => Distinct(a \o b)
<1> DEFINE m == Len(a)
           n == Len(b)
           t == a \o b
<1>1. /\ m \in Nat /\ n \in Nat /\ DOMAIN a = 1..m /\ DOMAIN b = 1..n
      /\ t \in Seq(X) /\ DOMAIN t = 1..m+n
      /\ \A i \in 1..m+n : t[i] = IF i <= m THEN a[i] ELSE b[i-m]
  OBVIOUS
<1> HIDE DEF m, n, t
<1>2. /\ \A i \in 1..m+n : i <= m => i \in 1..m
      /\ \A i \in 1..m+n : ~(i <= m) => i - m \in 1..n
      /\ \A i \in 1..m : i \in 1..m+n /\ i <= m
      /\ \A i \in 1..n : i + m \in 1..m+n /\ ~(i + m <= m) /\ i + m - m = i
  <2>1. m \in Nat /\ n \in Nat
    BY <1>1
  <2>2. QED BY ONLY <2>1
<1>3. ToSet(t) = ToSet(a) \cup ToSet(b)
  <2>1. ASSUME NEW x \in ToSet(t) PROVE x \in ToSet(a) \cup ToSet(b)
    <3>1. PICK i \in 1..m+n : x = t[i]
      BY <1>1 DEF ToSet
    <3>2. CASE i <= m
      <4>1. i \in 1..m /\ x = a[i]
        BY <1>1, <1>2, <3>1, <3>2
      <4>2. QED BY <4>1, <1>1 DEF ToSet
    <3>3. CASE ~(i <= m)
      <4>1. i - m \in 1..n /\ x = b[i-m]
        BY <1>1, <1>2, <3>1, <3>3
      <4>2. QED BY <4>1, <1>1 DEF ToSet
    <3>4. QED BY <3>2, <3>3
  <2>2. ASSUME NEW x \in ToSet(a) PROVE x \in ToSet(t)
    <3>1. PICK i \in 1..m : x = a[i]
      BY <1>1 DEF ToSet
    <3>2. t[i] = x /\ i \in DOMAIN t
      BY <1>1, <1>2, <3>1
    <3>3. QED BY <3>2 DEF ToSet
  <2>3. ASSUME NEW x \in ToSet(b) PROVE x \in ToSet(t)
    <3>1. PICK i \in 1..n : x = b[i]
      BY <1>1 DEF ToSet
    <3>2. t[i + m] = x /\ i + m \in DOMAIN t
      BY <1>1, <1>2, <3>1
    <3>3. QED BY <3>2 DEF ToSet
  <2>4. QED BY <2>1, <2>2, <2>3
<1>4. ASSUME Distinct(a), Distinct(b), ToSet(a) \cap ToSet(b) = {}, NEW i \in 1..m+n, NEW j \in 1..m+n, t[i] = t[j]
      PROVE  i = j
  <2>1. CASE i <= m /\ j <= m
    <3>1. i \in DOMAIN a /\ j \in DOMAIN a /\ a[i] = a[j]
      BY <1>1, <1>2, <1>4, <2>1
    <3>2. QED BY <3>1, <1>4 DEF Distinct
  <2>2. CASE ~(i <= m) /\ ~(j <= m)
    <3>1. i - m \in DOMAIN b /\ j - m \in DOMAIN b /\ b[i-m] = b[j-m]
      BY <1>1, <1>2, <1>4, <2>2
    <3>2. i - m = j - m
      BY <3>1, <1>4 DEF Distinct
    <3>3. QED BY <3>2, <1>1
  <2>3. \A x, y : x \in 1..m /\ y \in 1..n => a[x] # b[y]
    <3>1. \A x \in 1..m : a[x] \in ToSet(a)
      BY <1>1 DEF ToSet
    <3>2. \A y \in 1..n : b[y] \in ToSet(b)
      BY <1>1 DEF ToSet
    <3>3. QED BY <3>1, <3>2, <1>4
  <2>4. CASE i <= m /\ ~(j <= m)
    <3>1. i \in 1..m /\ j - m \in 1..n /\ a[i] = b[j-m]
      BY <1>1, <1>2, <1>4, <2>4
    <3>2. QED BY <3>1, <2>3
  <2>5. CASE ~(i <= m) /\ j <= m
    <3>1. j \in 1..m /\ i - m \in 1..n /\ a[j] = b[i-m]
      BY <1>1, <1>2, <1>4, <2>5
    <3>2. QED BY <3>1, <2>3
  <2>6. QED BY <2>1, <2>2, <2>4, <2>5
<1>5. QED BY <1>1, <1>3, <1>4 DEF t, Distinct

(* Sections that share nothing are joined without a repetition.            *)
LEMMA Flattened ==
  ASSUME NEW X, NEW ss \in Seq(Seq(X)), \A i \in 1..Len(ss) : Distinct(ss[i]),
         \A i, j \in 1..Len(ss) : i # j => ToSet(ss[i]) \cap ToSet(ss[j]) = {}
  PROVE  /\ FlattenSeq(ss) \in Seq(X) /\ Distinct(FlattenSeq(ss))
         /\ \A x : x \in ToSet(FlattenSeq(ss)) <=> \E i \in 1..Len(ss) : x \in ToSet(ss[i])
<1>1. PICK g : /\ g[0] = <<>> /\ g[Len(ss)] = FlattenSeq(ss)
               /\ \A k \in 1..Len(ss) : g[k] = g[k-1] \o ss[k]
  BY FlattenSteps
<1> DEFINE Joins(k) ==
             /\ g[k] \in Seq(X) /\ Distinct(g[k])
             /\ \A x : x \in ToSet(g[k]) <=> \E i \in 1..k : x \in ToSet(ss[i])
           Done == {k \in Nat : k <= Len(ss) => Joins(k)}
<1>2. 0 \in Done
  <2>1. <<>> \in Seq(X) /\ Distinct(<<>>) /\ ToSet(<<>>) = {} /\ 1..0 = {}
    BY DEF Distinct, ToSet
  <2>2. Joins(0)
    BY <1>1, <2>1
  <2>3. QED BY <2>2
<1>3. ASSUME NEW k \in Nat, k \in Done PROVE k + 1 \in Done
  <2>1. SUFFICES ASSUME k + 1 <= Len(ss) PROVE Joins(k + 1)
    OBVIOUS
  <2> DEFINE j == k + 1
             a == g[k]
             b == ss[j]
  <2>2. j \in 1..Len(ss) /\ j - 1 = k /\ k <= Len(ss) /\ (\A i \in 1..k : i \in 1..Len(ss) /\ i # j)
    BY <2>1
  <2>3. Joins(k)
    BY <1>3, <2>2
  <2>4. g[j] = a \o b
    BY <1>1, <2>2
  <2>5. \A i \in 1..j : i = j \/ i \in 1..k
    OBVIOUS
  <2>6. \A i \in 1..k : i \in 1..j
    OBVIOUS
  <2>7. j \in 1..j
    OBVIOUS
  <2>8. a \in Seq(X) /\ b \in Seq(X) /\ Distinct(a) /\ Distinct(b)
    BY <2>2, <2>3
  <2>9. ToSet(a) \cap ToSet(b) = {}
    BY <2>2, <2>3
  <2> HIDE DEF a, b, j
  <2>10. g[j] \in Seq(X) /\ Distinct(g[j]) /\ ToSet(g[j]) = ToSet(a) \cup ToSet(b)
    BY <2>4, <2>8, <2>9, Joined
  <2>11. ASSUME NEW x PROVE x \in ToSet(g[j]) <=> \E i \in 1..j : x \in ToSet(ss[i])
    <3>1. x \in ToSet(a) <=> \E i \in 1..k : x \in ToSet(ss[i])
      BY <2>3 DEF a
    <3>2. x \in ToSet(b) <=> x \in ToSet(ss[j])
      BY DEF b
    <3>3. QED BY <2>5, <2>6, <2>7, <2>10, <3>1, <3>2
  <2>12. Joins(j)
    BY <2>10, <2>11
  <2>13. QED BY <2>12 DEF j
<1>4. Nat \subseteq Done
  <2> HIDE DEF Done
  <2>1. QED BY <1>2, <1>3, Inductive
<1>5. Len(ss) \in Nat /\ Len(ss) <= Len(ss)
  OBVIOUS
<1>6. Joins(Len(ss))
  BY <1>4, <1>5
<1>7. QED BY <1>1, <1>6

(* A sha tells the commits of S apart.                                     *)
ShasApart(S) == \A c, d \in S : c.sha = d.sha => c = d

LEMMA FormatKeeps == \A c : formatEntry(c).sha = c.sha
BY DEF formatEntry

(* The entries tell of the commits in S, of each once, in the order of s.  *)
LEMMA ToldBy ==
  ASSUME NEW s \in Seq(CommitRecord), Distinct(s), ShasApart(ToSet(s)), NEW S, NEW entries, Tells(entries, s, S)
  PROVE  /\ entries \in Seq(Entry) /\ Distinct(entries)
         /\ \A c \in ToSet(s) \cap S : formatEntry(c) \in ToSet(entries)
         /\ \A e \in ToSet(entries) : KeysApart(e.authors) /\ \E c \in ToSet(s) \cap S : e = formatEntry(c)
         /\ \A x, y \in DOMAIN entries : x < y =>
              \E i, j \in 1..Len(s) : i < j /\ entries[x].sha = s[i].sha /\ entries[y].sha = s[j].sha
<1>1. PICK r \in Seq(CommitRecord) : Selects(r, s, S, Len(s)) /\ entries = formatEntries(r)
  BY DEF Tells
<1>2. Distinct(r) /\ ToSet(r) = ToSet(s) \cap S
  BY <1>1, SelectsDistinct
<1>3. /\ entries \in Seq(Entry) /\ Len(entries) = Len(r)
      /\ \A i \in 1..Len(r) : /\ entries[i] = formatEntry(r[i]) /\ entries[i].sha = r[i].sha
                              /\ KeysApart(entries[i].authors)
  BY <1>1, Formatted
<1>4. DOMAIN entries = 1..Len(r) /\ DOMAIN r = 1..Len(r)
  BY <1>3
<1>5. \A i \in 1..Len(r) : r[i] \in ToSet(r)
  BY <1>4 DEF ToSet
<1>6. Distinct(entries)
  <2>1. ASSUME NEW i \in 1..Len(r), NEW j \in 1..Len(r), entries[i] = entries[j] PROVE i = j
    <3>1. r[i].sha = r[j].sha
      BY <1>3, <2>1
    <3>2. r[i] = r[j]
      BY <3>1, <1>2, <1>5 DEF ShasApart
    <3>3. QED BY <3>2, <1>2, <1>4 DEF Distinct
  <2>2. QED BY <2>1, <1>4 DEF Distinct
<1>7. ASSUME NEW c \in ToSet(s) \cap S PROVE formatEntry(c) \in ToSet(entries)
  <2>1. PICK i \in 1..Len(r) : r[i] = c
    BY <1>2, <1>4 DEF ToSet
  <2>2. entries[i] = formatEntry(c)
    BY <2>1, <1>3
  <2>3. QED BY <2>2, <1>4 DEF ToSet
<1>8. ASSUME NEW e \in ToSet(entries)
      PROVE  KeysApart(e.authors) /\ \E c \in ToSet(s) \cap S : e = formatEntry(c)
  <2>1. PICK i \in 1..Len(r) : e = entries[i]
    BY <1>4 DEF ToSet
  <2>2. QED BY <2>1, <1>2, <1>3, <1>5
<1>9. ASSUME NEW x \in 1..Len(r), NEW y \in 1..Len(r), x < y
      PROVE  \E i, j \in 1..Len(s) : i < j /\ entries[x].sha = s[i].sha /\ entries[y].sha = s[j].sha
  <2>1. PICK e \in [1..Len(r) -> 1..Len(s)] :
          /\ \A i \in 1..Len(r) : r[i] = s[e[i]] /\ s[e[i]] \in S
          /\ \A i, j \in 1..Len(r) : i < j => e[i] < e[j]
    BY <1>1 DEF Selects
  <2>2. e[x] \in 1..Len(s) /\ e[y] \in 1..Len(s) /\ e[x] < e[y]
    BY <2>1, <1>9
  <2>3. entries[x].sha = s[e[x]].sha /\ entries[y].sha = s[e[y]].sha
    BY <2>1, <1>3
  <2>4. QED BY <2>2, <2>3
<1>10. QED BY <1>3, <1>4, <1>6, <1>7, <1>8, <1>9

(* The sections share out the commits of s in W.                           *)
Covers(text, s, W) ==
  /\ text \in Seq(Section)
  /\ \E S \in [1..Len(text) -> SUBSET W] :
       /\ \A i \in 1..Len(text) : Tells(text[i].entries, s, S[i])
       /\ \A i, j \in 1..Len(text) : i # j => S[i] \cap S[j] = {}
       /\ \A c \in ToSet(s) \cap W : \E i \in 1..Len(text) : c \in S[i]

(* A text that covers W has an entry for each commit in W, and no other.   *)
LEMMA ToldEach ==
  ASSUME NEW s \in Seq(CommitRecord), Distinct(s), ShasApart(ToSet(s)), NEW W, NEW text, Covers(text, s, W)
  PROVE  /\ Len(Told(text)) = Cardinality(ToSet(s) \cap W)
         /\ {e.sha : e \in ToSet(Told(text))} = {c.sha : c \in ToSet(s) \cap W}
         /\ \A e \in ToSet(Told(text)) : KeysApart(e.authors)
<1> DEFINE n == Len(text)
           ss == [i \in 1..n |-> text[i].entries]
           told == FlattenSeq(ss)
           C == ToSet(s) \cap W
<1>1. text \in Seq(Section) /\ n \in Nat /\ DOMAIN text = 1..n
  BY DEF Covers
<1>2. PICK S \in [1..n -> SUBSET W] :
        /\ \A i \in 1..n : Tells(text[i].entries, s, S[i])
        /\ \A i, j \in 1..n : i # j => S[i] \cap S[j] = {}
        /\ \A c \in C : \E i \in 1..n : c \in S[i]
  BY DEF Covers
<1>3. Told(text) = told
  BY <1>1 DEF Told
<1>4. ASSUME NEW i \in 1..n
      PROVE  /\ text[i].entries \in Seq(Entry) /\ Distinct(text[i].entries)
             /\ \A c \in ToSet(s) \cap S[i] : formatEntry(c) \in ToSet(text[i].entries)
             /\ \A e \in ToSet(text[i].entries) : KeysApart(e.authors) /\ \E c \in ToSet(s) \cap S[i] : e = formatEntry(c)
  <2>1. Tells(text[i].entries, s, S[i])
    BY <1>2
  <2>2. QED BY <2>1, ToldBy
<1>5. ss \in Seq(Seq(Entry)) /\ Len(ss) = n /\ \A i \in 1..n : ss[i] = text[i].entries
  <2>1. \A i \in 1..n : text[i].entries \in Seq(Entry)
    BY <1>4
  <2>2. QED BY <2>1, <1>1
<1>6. ASSUME NEW i \in 1..n, NEW j \in 1..n, i # j PROVE ToSet(ss[i]) \cap ToSet(ss[j]) = {}
  <2>1. SUFFICES ASSUME NEW e, e \in ToSet(ss[i]), e \in ToSet(ss[j]) PROVE FALSE
    OBVIOUS
  <2>2. PICK c \in ToSet(s) \cap S[i] : e = formatEntry(c)
    BY <2>1, <1>4, <1>5
  <2>3. PICK d \in ToSet(s) \cap S[j] : e = formatEntry(d)
    BY <2>1, <1>4, <1>5
  <2>4. c = d
    BY <2>2, <2>3, FormatKeeps DEF ShasApart
  <2>5. QED BY <2>4, <2>2, <2>3, <1>2, <1>6
<1> HIDE DEF ss
<1>7. /\ told \in Seq(Entry) /\ Distinct(told)
      /\ \A x : x \in ToSet(told) <=> \E i \in 1..n : x \in ToSet(ss[i])
  BY <1>4, <1>5, <1>6, Flattened
<1>8. ASSUME NEW c \in C PROVE formatEntry(c) \in ToSet(told)
  BY <1>2, <1>4, <1>5, <1>7
<1>9. ASSUME NEW e \in ToSet(told) PROVE KeysApart(e.authors) /\ \E c \in C : e = formatEntry(c)
  <2>1. PICK i \in 1..n : e \in ToSet(text[i].entries)
    BY <1>5, <1>7
  <2>2. PICK c \in ToSet(s) \cap S[i] : e = formatEntry(c)
    BY <2>1, <1>4
  <2>3. c \in C
    BY <2>2, <1>2
  <2>4. QED BY <2>1, <2>2, <2>3, <1>4
<1> HIDE DEF told, n, C
<1>10. Len(told) = Cardinality(C)
  <2> DEFINE f == [c \in C |-> formatEntry(c)]
  <2>1. f \in [C -> ToSet(told)] /\ \A c \in C : f[c] = formatEntry(c)
    BY <1>8
  <2>2. \A c, d \in C : f[c] = f[d] => c = d
    BY <2>1, FormatKeeps DEF ShasApart, C
  <2> HIDE DEF f
  <2>3. f \in Injection(C, ToSet(told))
    BY <2>1, <2>2 DEF Injection, IsInjective
  <2>4. f \in Surjection(C, ToSet(told))
    BY <2>1, <1>9 DEF Surjection
  <2>5. IsFiniteSet(ToSet(s)) /\ C \in SUBSET ToSet(s)
    BY ElementsFinite DEF C
  <2>6. IsFiniteSet(C)
    BY <2>5, FS_Subset
  <2>7. Cardinality(ToSet(told)) = Cardinality(C)
    BY <2>3, <2>4, <2>6, FS_Surjection
  <2>8. Cardinality(ToSet(told)) = Len(told)
    BY <1>7, ElementsFinite
  <2>9. QED BY <2>7, <2>8
<1>11. {e.sha : e \in ToSet(told)} = {c.sha : c \in C}
  <2>1. ASSUME NEW e \in ToSet(told) PROVE e.sha \in {c.sha : c \in C}
    BY <1>9, FormatKeeps
  <2>2. ASSUME NEW c \in C PROVE c.sha \in {e.sha : e \in ToSet(told)}
    BY <1>8, FormatKeeps
  <2>3. QED BY <2>1, <2>2
<1>12. QED BY <1>3, <1>9, <1>10, <1>11 DEF C

(* A commit has one group that is the first to take it, or none does.      *)
LEMMA FirstApart ==
  ASSUME NEW groups, NEW i \in Nat, NEW j \in Nat, i # j
  PROVE  i > 0 /\ j > 0 => FirstTakes(groups, i) \cap FirstTakes(groups, j) = {}
<1>1. i > 0 /\ i < j => i \in 1..j-1
  OBVIOUS
<1>2. j > 0 /\ j < i => j \in 1..i-1
  OBVIOUS
<1>3. i < j \/ j < i
  OBVIOUS
<1>4. QED BY <1>1, <1>2, <1>3 DEF FirstTakes, Untaken

LEMMA SomeFirst ==
  ASSUME NEW groups \in Seq(GroupRecord), NEW c \in CommitRecord, NEW k \in 1..Len(groups), Takes(groups[k], c)
  PROVE  \E i \in 1..Len(groups) : c \in FirstTakes(groups, i)
<1> DEFINE T == {i \in 1..Len(groups) : Takes(groups[i], c)}
<1>1. T \in SUBSET Nat /\ k \in T
  OBVIOUS
<1>2. PICK i \in T : \A m \in T : i <= m
  BY <1>1, SmallestOf
<1>3. i \in 1..Len(groups) /\ Takes(groups[i], c)
  OBVIOUS
<1>4. ASSUME NEW j \in 1..i-1 PROVE ~Takes(groups[j], c)
  <2>1. j \in 1..Len(groups) /\ ~(i <= j)
    BY <1>3
  <2>2. j \notin T
    BY <1>2, <2>1
  <2>3. QED BY <2>1, <2>2
<1>5. c \in FirstTakes(groups, i)
  BY <1>3, <1>4 DEF FirstTakes, Untaken
<1>6. QED BY <1>3, <1>5

(* What is told of: all of it, or what a group asks for.                   *)
Asked(groups) ==
  IF groups = <<>> THEN CommitRecord
  ELSE {c \in CommitRecord : \E i \in 1..Len(groups) : Takes(groups[i], c)}

(* Without groups one section tells of all; with groups, each section of   *)
(* what its group takes first.                                             *)
LEMMA UngroupedCovers ==
  ASSUME NEW s \in Seq(CommitRecord), NEW text \in formatChangelog(<<>>, s)
  PROVE  Covers(text, s, CommitRecord)
<1> DEFINE g == [title |-> "", order |-> 0, entries |-> formatEntries(s)]
<1>1. text = <<g>>
  BY DEF formatChangelog
<1>2. formatEntries(s) \in Seq(Entry)
  BY Formatted
<1>3. g \in Section
  <2>1. ASSUME NEW t \in STRING \cup {""}, NEW o \in Int, NEW es \in Seq(Entry)
        PROVE  [title |-> t, order |-> o, entries |-> es] \in Section
    BY DEF Section
  <2>2. "" \in STRING \cup {""} /\ 0 \in Int
    OBVIOUS
  <2>3. QED BY <1>2, <2>1, <2>2
<1>4. g.entries = formatEntries(s)
  OBVIOUS
<1> HIDE DEF g
<1>5. text \in Seq(Section) /\ Len(text) = 1 /\ text[1] = g
  BY <1>1, <1>3
<1>6. Tells(g.entries, s, CommitRecord)
  BY <1>4, SelectsAll DEF Tells
<1> DEFINE S == [i \in 1..1 |-> CommitRecord]
<1>7. S \in [1..1 -> SUBSET CommitRecord] /\ \A i \in 1..1 : i = 1 /\ S[i] = CommitRecord
  OBVIOUS
<1>8. ToSet(s) \subseteq CommitRecord
  BY DEF ToSet
<1> HIDE DEF S
<1>9. /\ S \in [1..Len(text) -> SUBSET CommitRecord]
      /\ \A i \in 1..Len(text) : Tells(text[i].entries, s, S[i])
      /\ \A i, j \in 1..Len(text) : i # j => S[i] \cap S[j] = {}
      /\ \A c \in ToSet(s) \cap CommitRecord : \E i \in 1..Len(text) : c \in S[i]
  BY <1>5, <1>6, <1>7, <1>8
<1>10. QED BY <1>5, <1>9 DEF Covers

LEMMA GroupedCovers ==
  ASSUME NEW s \in Seq(CommitRecord), Distinct(s), ShasApart(ToSet(s)),
         NEW groups \in Seq(GroupRecord), groups # <<>>, NEW text \in formatChangelog(groups, s)
  PROVE  /\ Covers(text, s, Asked(groups))
         /\ \A i \in 1..Len(text) :
              /\ text[i].entries # <<>>
              /\ \E m \in 1..Len(groups) :
                   text[i].title = groups[m].title /\ Tells(text[i].entries, s, FirstTakes(groups, m))
              /\ \A j \in i..Len(text) : text[i].order <= text[j].order
<1> DEFINE made == Grouped(groups, s)
           n == Len(groups)
           G == ToSet(made)
<1>1. PICK t \in groupSort(made) : text = Keep(t, {g \in ToSet(t) : g.entries # <<>>})
  BY DEF formatChangelog
<1>2. /\ made \in Seq(Section) /\ Len(made) = n
      /\ \A i \in 1..n : /\ made[i].title = groups[i].title /\ made[i].order = groups[i].order
                         /\ Tells(made[i].entries, s, FirstTakes(groups, i))
  BY GroupedTells
<1>3. n \in Nat /\ DOMAIN made = 1..n /\ DOMAIN groups = 1..n
  BY <1>2
<1>4. IsFiniteSet(G) /\ G \subseteq Section
  BY <1>2, ElementsFinite DEF ToSet
<1>5. t \in SetToSeqs(G) /\ \A i, j \in 1..Len(t) : i < j => t[i].order <= t[j].order
  BY <1>1 DEF groupSort
<1> HIDE DEF made, n, G
<1>6. t \in Seq(G) /\ Distinct(t) /\ ToSet(t) = G
  BY <1>4, <1>5, Orders
<1> DEFINE N == {g \in ToSet(t) : g.entries # <<>>}
<1>7. text \in Seq(G) /\ Selects(text, t, N, Len(t))
  BY <1>1, <1>6, KeepSelects
<1>8. Distinct(text) /\ ToSet(text) = ToSet(t) \cap N
  BY <1>6, <1>7, SelectsDistinct
<1>9. DOMAIN text = 1..Len(text) /\ Len(text) \in Nat /\ text \in Seq(Section)
  BY <1>4, <1>7
<1>10. ASSUME NEW i \in 1..Len(text)
       PROVE  text[i] \in G /\ text[i].entries # <<>> /\ text[i] \in Section
  <2>1. text[i] \in ToSet(text)
    BY <1>9 DEF ToSet
  <2>2. QED BY <2>1, <1>4, <1>6, <1>8
<1>11. ASSUME NEW i \in 1..Len(text), NEW j \in i..Len(text) PROVE text[i].order <= text[j].order
  <2>1. PICK e \in [1..Len(text) -> 1..Len(t)] :
          /\ \A k \in 1..Len(text) : text[k] = t[e[k]] /\ t[e[k]] \in N
          /\ \A k, l \in 1..Len(text) : k < l => e[k] < e[l]
    BY <1>7 DEF Selects
  <2>2. j \in 1..Len(text) /\ (i = j \/ i < j)
    BY <1>9
  <2>3. CASE i = j
    <3>1. text[i].order \in Int
      BY <1>10 DEF Section
    <3>2. QED BY <3>1, <2>3
  <2>4. CASE i < j
    <3>1. e[i] \in 1..Len(t) /\ e[j] \in 1..Len(t) /\ e[i] < e[j] /\ text[i] = t[e[i]] /\ text[j] = t[e[j]]
      BY <2>1, <2>2, <2>4
    <3>2. QED BY <3>1, <1>5
  <2>5. QED BY <2>2, <2>3, <2>4
<1>12. \A i \in 1..Len(text) : \E m \in 1..n : text[i] = made[m]
  BY <1>3, <1>10 DEF G, ToSet
<1> DEFINE M == [i \in 1..Len(text) |-> CHOOSE m \in 1..n : text[i] = made[m]]
           S == [i \in 1..Len(text) |-> FirstTakes(groups, M[i])]
<1>13. ASSUME NEW i \in 1..Len(text) PROVE M[i] \in 1..n /\ text[i] = made[M[i]] /\ S[i] = FirstTakes(groups, M[i])
  BY <1>12
<1> HIDE DEF M, S
<1>14. ASSUME NEW i \in 1..Len(text)
       PROVE  Tells(text[i].entries, s, S[i]) /\ text[i].title = groups[M[i]].title
  BY <1>2, <1>13
<1>15. ASSUME NEW i \in 1..Len(text), NEW j \in 1..Len(text), i # j PROVE S[i] \cap S[j] = {}
  <2>1. text[i] # text[j]
    BY <1>8, <1>9, <1>15 DEF Distinct
  <2>2. M[i] # M[j] /\ M[i] \in Nat /\ M[j] \in Nat /\ M[i] > 0 /\ M[j] > 0
    BY <2>1, <1>13, <1>3
  <2>3. QED BY <2>2, <1>13, FirstApart
<1>16. ASSUME NEW c \in ToSet(s) \cap Asked(groups) PROVE \E i \in 1..Len(text) : c \in S[i]
  <2>1. c \in CommitRecord /\ \E k \in 1..n : Takes(groups[k], c)
    BY DEF Asked, n
  <2>2. PICK m \in 1..n : c \in FirstTakes(groups, m)
    BY <2>1, SomeFirst DEF n
  <2>3. formatEntry(c) \in ToSet(made[m].entries) /\ made[m].entries \in Seq(Entry)
    BY <1>2, <2>2, ToldBy
  <2>4. made[m].entries # <<>>
    BY <2>3 DEF ToSet
  <2>5. made[m] \in G
    BY <1>3 DEF G, ToSet
  <2>6. made[m] \in ToSet(text)
    BY <1>6, <1>8, <2>4, <2>5
  <2>7. PICK i \in 1..Len(text) : text[i] = made[m]
    BY <2>6, <1>9 DEF ToSet
  <2>8. PICK d \in ToSet(s) \cap S[i] : formatEntry(c) = formatEntry(d)
    <3>1. Tells(text[i].entries, s, S[i]) /\ formatEntry(c) \in ToSet(text[i].entries)
      BY <2>3, <2>7, <1>14
    <3>2. \A e \in ToSet(text[i].entries) : \E d \in ToSet(s) \cap S[i] : e = formatEntry(d)
      BY <3>1, ToldBy
    <3>3. QED BY <3>1, <3>2
  <2>9. c = d
    BY <2>8, FormatKeeps DEF ShasApart
  <2>10. QED BY <2>8, <2>9
<1>17. S \in [1..Len(text) -> SUBSET Asked(groups)]
  <2>1. ASSUME NEW i \in 1..Len(text) PROVE S[i] \subseteq Asked(groups)
    BY <1>13 DEF Asked, FirstTakes, n
  <2>2. QED BY <2>1 DEF S
<1>18. Covers(text, s, Asked(groups))
  BY <1>9, <1>14, <1>15, <1>16, <1>17 DEF Covers
<1>19. ASSUME NEW i \in 1..Len(text)
       PROVE \E m \in 1..n : text[i].title = groups[m].title /\ Tells(text[i].entries, s, FirstTakes(groups, m))
  BY <1>13, <1>14
<1>20. QED BY <1>10, <1>11, <1>18, <1>19 DEF n


(* What every configuration says of its log and of its notes.              *)
Described ==
  /\ cfg.notes \in NotesRecord
  /\ cfg.log \in Seq(CommitRecord)
  /\ \A i, j \in DOMAIN cfg.log : cfg.log[i].sha = cfg.log[j].sha => i = j

LEMMA ProjectsDescribed == cfg \in Projects => Described
BY ForgeAssumption DEF Described

LEMMA Positions ==
  ASSUME NEW X, NEW z \in Seq(X)
  PROVE  DOMAIN z = 1..Len(z) /\ Len(z) \in Nat
OBVIOUS

LEMMA LogApart ==
  ASSUME Described
  PROVE  /\ Distinct(cfg.log)
         /\ ShasApart(ToSet(cfg.log))
         /\ \A i, j \in DOMAIN cfg.log : cfg.log[i].sha = cfg.log[j].sha => i = j
BY DEF Described, Distinct, ShasApart, ToSet

(* The order the notes are to be in, of commits the log has at a and b.    *)
Ordered(a, b) ==
  CASE cfg.notes.sort = "asc" -> cfg.log[a].message <= cfg.log[b].message
    [] cfg.notes.sort = "desc" -> cfg.log[a].message >= cfg.log[b].message
    [] OTHER -> a < b

(* Of the log the filter leaves what passes it, in the order of the log.   *)
LEMMA LogFiltered ==
  ASSUME Described
  PROVE  LET f == filterEntries(cfg.notes, cfg.log) IN
         /\ f \in Seq(CommitRecord) /\ Distinct(f)
         /\ Selects(f, cfg.log, {c \in CommitRecord : Lets(cfg.notes, c)}, Len(cfg.log))
         /\ ToSet(f) = ToSet(cfg.log) \cap {c \in CommitRecord : Lets(cfg.notes, c)}
<1> DEFINE f == filterEntries(cfg.notes, cfg.log)
           L == {c \in CommitRecord : Lets(cfg.notes, c)}
<1>1. cfg.notes.exclude \in Seq(SUBSET Nat) /\ cfg.log \in Seq(CommitRecord)
  BY DEF Described, NotesRecord
<1>2. f \in Seq(CommitRecord) /\ Selects(f, cfg.log, L, Len(cfg.log))
  BY <1>1, FilterSelects
<1> HIDE DEF f, L
<1>3. Distinct(f) /\ ToSet(f) = ToSet(cfg.log) \cap L
  BY <1>1, <1>2, LogApart, SelectsDistinct
<1>4. QED BY <1>2, <1>3 DEF f, L

LEMMA LogSorted ==
  ASSUME Described, cfg.notes.sort \in {"", "asc", "desc"},
         NEW s \in sortEntries(cfg.notes.sort, filterEntries(cfg.notes, cfg.log))
  PROVE  /\ s \in Seq(CommitRecord) /\ Distinct(s) /\ ShasApart(ToSet(s))
         /\ ToSet(s) = ToSet(cfg.log) \cap {c \in CommitRecord : Lets(cfg.notes, c)}
         /\ \A i, j \in 1..Len(s), a, b \in DOMAIN cfg.log :
              i < j /\ cfg.log[a].sha = s[i].sha /\ cfg.log[b].sha = s[j].sha => Ordered(a, b)
<1> DEFINE f == filterEntries(cfg.notes, cfg.log)
           L == {c \in CommitRecord : Lets(cfg.notes, c)}
<1>1. /\ f \in Seq(CommitRecord) /\ Distinct(f)
      /\ Selects(f, cfg.log, L, Len(cfg.log)) /\ ToSet(f) = ToSet(cfg.log) \cap L
  BY LogFiltered
<1>2. s \in sortEntries(cfg.notes.sort, f)
  OBVIOUS
<1> HIDE DEF f, L
<1>3. /\ s \in Seq(CommitRecord) /\ Distinct(s) /\ ToSet(s) = ToSet(f)
      /\ cfg.notes.sort = "" => s = f
      /\ cfg.notes.sort # "" => \A i, j \in 1..Len(s) : i < j => InOrder(cfg.notes.sort, s[i], s[j])
  <2>1. ASSUME NEW d, NEW t \in sortEntries(d, f)
        PROVE  /\ t \in Seq(CommitRecord) /\ Distinct(t) /\ ToSet(t) = ToSet(f)
               /\ d = "" => t = f
               /\ d # "" => \A i, j \in 1..Len(t) : i < j => InOrder(d, t[i], t[j])
    BY <1>1, SortOrders
  <2>2. QED BY <2>1, <1>2
<1>4. ShasApart(ToSet(s))
  BY <1>1, <1>3, LogApart DEF ShasApart
<1>5. ASSUME NEW i \in 1..Len(s), NEW j \in 1..Len(s), NEW a \in DOMAIN cfg.log, NEW b \in DOMAIN cfg.log,
             i < j, cfg.log[a].sha = s[i].sha, cfg.log[b].sha = s[j].sha
      PROVE  Ordered(a, b)
  <2>1. cfg.log[a] = s[i] /\ cfg.log[b] = s[j]
    <3>1. s[i] \in ToSet(cfg.log) /\ s[j] \in ToSet(cfg.log)
      <4>1. s[i] \in ToSet(s) /\ s[j] \in ToSet(s)
        <5>1. DOMAIN s = 1..Len(s)
          BY <1>3, Positions
        <5>2. QED BY <5>1 DEF ToSet
      <4>2. QED BY <4>1, <1>1, <1>3
    <3>2. cfg.log[a] \in ToSet(cfg.log) /\ cfg.log[b] \in ToSet(cfg.log)
      BY DEF ToSet
    <3>3. QED BY <3>1, <3>2, <1>5, LogApart DEF ShasApart
  <2>2. CASE cfg.notes.sort = ""
    <3>1. PICK e \in [1..Len(f) -> 1..Len(cfg.log)] :
            /\ \A k \in 1..Len(f) : f[k] = cfg.log[e[k]] /\ cfg.log[e[k]] \in L
            /\ \A k, l \in 1..Len(f) : k < l => e[k] < e[l]
      BY <1>1 DEF Selects
    <3>2. i \in 1..Len(f) /\ j \in 1..Len(f) /\ s = f
      BY <1>3, <2>2
    <3>3. e[i] < e[j] /\ e[i] \in 1..Len(cfg.log) /\ e[j] \in 1..Len(cfg.log) /\ s[i] = cfg.log[e[i]] /\ s[j] = cfg.log[e[j]]
      BY <3>1, <3>2, <1>5
    <3>4. e[i] \in DOMAIN cfg.log /\ e[j] \in DOMAIN cfg.log
      <4>1. cfg.log \in Seq(CommitRecord)
        BY DEF Described
      <4>2. DOMAIN cfg.log = 1..Len(cfg.log)
        BY <4>1, Positions
      <4>3. QED BY <3>3, <4>2
    <3>5. e[i] = a /\ e[j] = b
      BY <3>3, <3>4, <2>1, LogApart
    <3>6. cfg.notes.sort # "asc" /\ cfg.notes.sort # "desc"
      BY <2>2
    <3>7. QED BY <3>3, <3>5, <3>6 DEF Ordered
  <2>3. CASE cfg.notes.sort # ""
    <3>1. InOrder(cfg.notes.sort, s[i], s[j])
      BY <1>3, <1>5, <2>3
    <3>2. QED BY <3>1, <2>1, <2>3 DEF InOrder, Ordered
  <2>4. QED BY <2>2, <2>3
<1>6. ToSet(s) = ToSet(cfg.log) \cap {c \in CommitRecord : Lets(cfg.notes, c)}
  BY <1>1, <1>3 DEF L
<1>7. \A i, j \in 1..Len(s), a, b \in DOMAIN cfg.log :
        i < j /\ cfg.log[a].sha = s[i].sha /\ cfg.log[b].sha = s[j].sha => Ordered(a, b)
  BY <1>5
<1>8. QED BY <1>3, <1>4, <1>6, <1>7

LEMMA PassesLets ==
  ASSUME Described, NEW c
  PROVE  Passes(c) <=> Lets(cfg.notes, c)
<1>1. ASSUME NEW X, NEW ps \in Seq(X), NEW m PROVE (m \in UNION ToSet(ps)) <=> \E i \in 1..Len(ps) : m \in ps[i]
  BY DEF ToSet
<1>2. cfg.notes.include \in Seq(SUBSET Nat) /\ cfg.notes.exclude \in Seq(SUBSET Nat)
  BY DEF Described, NotesRecord
<1>3. (c.message \in UNION ToSet(cfg.notes.include)) <=> \E i \in 1..Len(cfg.notes.include) : c.message \in cfg.notes.include[i]
  BY <1>1, <1>2
<1>4. (c.message \in UNION ToSet(cfg.notes.exclude)) <=> \E i \in 1..Len(cfg.notes.exclude) : c.message \in cfg.notes.exclude[i]
  BY <1>1, <1>2
<1>5. QED BY <1>3, <1>4 DEF Passes, Lets

LEMMA HomesTake ==
  ASSUME Described, NEW c
  PROVE  Homes(c) = {i \in 1..Len(cfg.notes.groups) : Takes(cfg.notes.groups[i], c)}
<1>1. cfg.notes.groups \in Seq(GroupRecord)
  BY DEF Described, NotesRecord
<1>2. QED BY <1>1 DEF Homes, AsksFor, Takes

(* The commits to tell of are those the filter and a group let pass.       *)
LEMMA WantedAsked ==
  ASSUME Described
  PROVE  Wanted = (ToSet(cfg.log) \cap {c \in CommitRecord : Lets(cfg.notes, c)}) \cap Asked(cfg.notes.groups)
<1>1. ToSet(cfg.log) \subseteq CommitRecord
  BY DEF Described, ToSet
<1>2. ASSUME NEW c \in CommitRecord
      PROVE  (cfg.notes.groups # <<>> => Homes(c) # {}) <=> c \in Asked(cfg.notes.groups)
  BY HomesTake DEF Asked
<1>3. QED BY <1>1, <1>2, PassesLets DEF Wanted

(* The home of a commit is the first group that takes it.                  *)
LEMMA FirstHome ==
  ASSUME Described, NEW c, NEW m \in 1..Len(cfg.notes.groups), c \in FirstTakes(cfg.notes.groups, m)
  PROVE  Home(c) = cfg.notes.groups[m].title
<1> DEFINE H == Homes(c)
<1>1. cfg.notes.groups \in Seq(GroupRecord)
  BY DEF Described, NotesRecord
<1>2. H = {i \in 1..Len(cfg.notes.groups) : Takes(cfg.notes.groups[i], c)}
  BY HomesTake
<1>3. m \in H
  BY <1>2 DEF FirstTakes
<1>4. ASSUME NEW i \in H PROVE m <= i
  <2>1. i \in 1..Len(cfg.notes.groups) /\ Takes(cfg.notes.groups[i], c)
    BY <1>2
  <2>2. i \notin 1..m-1
    BY <2>1 DEF FirstTakes, Untaken
  <2>3. QED BY <2>1, <2>2, <1>1
<1>5. H \subseteq Int
  BY <1>2, <1>1
<1>6. Min(H) = m
  <2>1. ASSUME NEW x \in H, \A y \in H : x <= y PROVE x = m
    BY <2>1, <1>3, <1>4, <1>5
  <2>2. m \in H /\ \A y \in H : m <= y
    BY <1>3, <1>4
  <2> HIDE DEF H
  <2>3. QED BY <2>1, <2>2 DEF Min
<1>7. QED BY <1>6 DEF Home

(* What NotesTellEach says of one text.                                    *)
TellsOfEach(text) ==
  LET told == Told(text) IN
  /\ Len(told) = Cardinality(Wanted)
  /\ {e.sha : e \in ToSet(told)} = {c.sha : c \in Wanted}
  /\ \A e \in ToSet(told) : \A x, y \in DOMAIN e.authors :
       x # y => ~SamePerson(e.authors[x], e.authors[y])
  /\ \A i \in DOMAIN text : cfg.notes.groups # <<>> =>
       /\ text[i].entries # <<>>
       /\ \A j \in i..Len(text) : text[i].order <= text[j].order
       /\ \A c \in Wanted : c.sha \in {e.sha : e \in ToSet(text[i].entries)} => text[i].title = Home(c)
  /\ \A i \in DOMAIN text : \A x, y \in DOMAIN text[i].entries :
       \A c, d \in DOMAIN cfg.log :
         /\ x < y /\ cfg.log[c].sha = text[i].entries[x].sha /\ cfg.log[d].sha = text[i].entries[y].sha
         => CASE cfg.notes.sort = "asc" -> cfg.log[c].message <= cfg.log[d].message
              [] cfg.notes.sort = "desc" -> cfg.log[c].message >= cfg.log[d].message
              [] OTHER -> c < d

(* In s, the commit of x comes before that of y.                           *)
Before(x, y, s) == \E i, j \in 1..Len(s) : i < j /\ x.sha = s[i].sha /\ y.sha = s[j].sha

LEMMA ToldInOrder ==
  ASSUME NEW s, s \in Seq(CommitRecord), Distinct(s), ShasApart(ToSet(s)), NEW T, NEW es, Tells(es, s, T)
  PROVE  /\ \A z \in ToSet(es) : \E d \in ToSet(s) \cap T : z = formatEntry(d)
         /\ \A p, q \in DOMAIN es : p < q => Before(es[p], es[q], s)
BY ToldBy DEF Before

LEMMA AllSections ==
  ASSUME Described, cfg.notes.sort \in {"", "asc", "desc"},
         NEW s \in sortEntries(cfg.notes.sort, filterEntries(cfg.notes, cfg.log)),
         NEW text \in formatChangelog(cfg.notes.groups, s)
  PROVE  Covers(text, s, Asked(cfg.notes.groups))
<1>1. s \in Seq(CommitRecord) /\ Distinct(s) /\ ShasApart(ToSet(s))
  BY LogSorted
<1>2. cfg.notes.groups \in Seq(GroupRecord)
  BY DEF Described, NotesRecord
<1>3. CASE cfg.notes.groups = <<>>
  <2>1. text \in formatChangelog(<<>>, s)
    BY <1>3
  <2>2. Asked(cfg.notes.groups) = CommitRecord
    BY <1>3 DEF Asked
  <2>3. QED BY <1>1, <2>1, <2>2, UngroupedCovers
<1>4. CASE cfg.notes.groups # <<>>
  BY <1>1, <1>2, <1>4, GroupedCovers
<1>5. QED BY <1>3, <1>4

LEMMA TextTellsOfEach ==
  ASSUME Described, cfg.notes.sort \in {"", "asc", "desc"},
         NEW s \in sortEntries(cfg.notes.sort, filterEntries(cfg.notes, cfg.log)),
         NEW text \in formatChangelog(cfg.notes.groups, s)
  PROVE  TellsOfEach(text)
<1> DEFINE groups == cfg.notes.groups
<1>1. /\ s \in Seq(CommitRecord) /\ Distinct(s) /\ ShasApart(ToSet(s))
      /\ \A i, j \in 1..Len(s), a, b \in DOMAIN cfg.log :
           i < j /\ cfg.log[a].sha = s[i].sha /\ cfg.log[b].sha = s[j].sha => Ordered(a, b)
  BY LogSorted
<1>2. groups \in Seq(GroupRecord)
  BY DEF Described, NotesRecord
<1>3. Wanted = ToSet(s) \cap Asked(groups)
  <2>1. ToSet(s) = ToSet(cfg.log) \cap {c \in CommitRecord : Lets(cfg.notes, c)}
    BY LogSorted
  <2>2. QED BY <2>1, WantedAsked
<1>4. Covers(text, s, Asked(groups))
  BY AllSections
<1>5. text \in formatChangelog(groups, s)
  OBVIOUS
<1> HIDE DEF groups
<1>6. /\ Len(Told(text)) = Cardinality(Wanted)
      /\ {e.sha : e \in ToSet(Told(text))} = {c.sha : c \in Wanted}
      /\ \A e \in ToSet(Told(text)) : KeysApart(e.authors)
  BY <1>1, <1>3, <1>4, ToldEach
<1>7. ASSUME NEW e \in ToSet(Told(text)), NEW x \in DOMAIN e.authors, NEW y \in DOMAIN e.authors, x # y
      PROVE  ~SamePerson(e.authors[x], e.authors[y])
  BY <1>6, <1>7, NobodyTwice
<1>8. text \in Seq(Section) /\ DOMAIN text = 1..Len(text)
  BY <1>4, Positions DEF Covers
<1>9. ASSUME NEW i \in DOMAIN text PROVE \E T : Tells(text[i].entries, s, T)
  BY <1>4, <1>8 DEF Covers
<1>0. ASSUME NEW T, NEW es, Tells(es, s, T)
      PROVE  /\ \A z \in ToSet(es) : \E d \in ToSet(s) \cap T : z = formatEntry(d)
             /\ \A p, q \in DOMAIN es : p < q => Before(es[p], es[q], s)
  BY <1>0, <1>1, ToldInOrder
<1>10. ASSUME NEW i \in DOMAIN text, groups # <<>>
       PROVE  /\ text[i].entries # <<>>
              /\ \A j \in i..Len(text) : text[i].order <= text[j].order
              /\ \A c \in Wanted : c.sha \in {e.sha : e \in ToSet(text[i].entries)} => text[i].title = Home(c)
  <2>1. /\ text[i].entries # <<>>
        /\ \E m \in 1..Len(groups) :
             text[i].title = groups[m].title /\ Tells(text[i].entries, s, FirstTakes(groups, m))
        /\ \A j \in i..Len(text) : text[i].order <= text[j].order
    BY <1>1, <1>2, <1>5, <1>8, <1>10, GroupedCovers
  <2>2. PICK m \in 1..Len(groups) :
          text[i].title = groups[m].title /\ Tells(text[i].entries, s, FirstTakes(groups, m))
    BY <2>1
  <2>3. ASSUME NEW c \in Wanted, NEW e \in ToSet(text[i].entries), c.sha = e.sha
        PROVE  text[i].title = Home(c)
    <3>1. PICK d \in ToSet(s) \cap FirstTakes(groups, m) : e = formatEntry(d)
      <4>1. \A z \in ToSet(text[i].entries) : \E d \in ToSet(s) \cap FirstTakes(groups, m) : z = formatEntry(d)
        BY <1>0, <2>2
      <4>2. QED BY <4>1, <2>3
    <3>2. c = d
      BY <1>1, <1>3, <2>3, <3>1, FormatKeeps DEF ShasApart
    <3>3. QED BY <2>2, <3>1, <3>2, FirstHome DEF groups
  <2>4. QED BY <2>1, <2>3
<1>11. ASSUME NEW i \in DOMAIN text, NEW x \in DOMAIN text[i].entries, NEW y \in DOMAIN text[i].entries,
              NEW c \in DOMAIN cfg.log, NEW d \in DOMAIN cfg.log, x < y,
              cfg.log[c].sha = text[i].entries[x].sha, cfg.log[d].sha = text[i].entries[y].sha
       PROVE  Ordered(c, d)
  <2>1. PICK k, l \in 1..Len(s) : k < l /\ text[i].entries[x].sha = s[k].sha /\ text[i].entries[y].sha = s[l].sha
    <3>1. PICK T : Tells(text[i].entries, s, T)
      BY <1>9
    <3>2. Before(text[i].entries[x], text[i].entries[y], s)
      BY <1>0, <1>11, <3>1
    <3>3. QED BY <3>2 DEF Before
  <2>2. QED BY <1>1, <1>11, <2>1
<1>12. QED BY <1>6, <1>7, <1>10, <1>11 DEF TellsOfEach, Ordered, groups

(* Every text that the changelog pipe may make tells of each.              *)
LEMMA TextsTellOfEach ==
  ASSUME cfg \in Projects, ~cfg.notes.skip, ~cfg.notes.file, cfg.notes.sort \in {"", "asc", "desc"},
         NEW text \in Texts(cfg.notes, cfg.log)
  PROVE  TellsOfEach(text)
<1>1. PICK s \in sortEntries(cfg.notes.sort, filterEntries(cfg.notes, cfg.log)) :
        text \in formatChangelog(cfg.notes.groups, s)
  BY DEF Texts
<1>2. QED BY <1>1, ProjectsDescribed, TextTellsOfEach
-----------------------------------------------------------------------------
(* A text of a run, now, earlier or in the notes to send, is one that the  *)
(* changelog pipe makes of the log; it makes none where the order to sort  *)
(* in is none it knows.                                                    *)
Makes == ~cfg.notes.skip /\ ~cfg.notes.file
Sortable == {"", "asc", "desc"}
HonestTexts == IF Makes /\ cfg.notes.sort \notin Sortable THEN {} ELSE Texts(cfg.notes, cfg.log)
Honest(n) == \A i \in 1..Len(n) : n[i].run > 0 => n[i].text \in HonestTexts

TextsInv == NotesInv /\ Honest(notes) /\ Honest(body)

LEMMA JoinedHonest ==
  ASSUME NEW a \in Notes, NEW b \in Notes, Honest(a), Honest(b)
  PROVE  Honest(a \o b)
<1>1. a \in Seq(Note) /\ b \in Seq(Note)
  BY DEF Notes
<1>2. /\ a \o b \in Seq(Note) /\ Len(a \o b) = Len(a) + Len(b)
      /\ \A i \in 1..Len(a) + Len(b) : (a \o b)[i] = IF i <= Len(a) THEN a[i] ELSE b[i - Len(a)]
  BY <1>1, ConcatProperties
<1>3. /\ DOMAIN a = 1..Len(a) /\ DOMAIN b = 1..Len(b) /\ DOMAIN (a \o b) = 1..Len(a \o b)
      /\ Len(a) \in Nat /\ Len(b) \in Nat
  BY <1>1, <1>2, Positions
<1>. DEFINE n == a \o b
<1>4. ASSUME NEW i \in 1..Len(n) PROVE (\E j \in 1..Len(a) : n[i] = a[j]) \/ \E j \in 1..Len(b) : n[i] = b[j]
  <2>1. i \in 1..Len(a) + Len(b)
    BY <1>2, <1>3
  <2>2. CASE i <= Len(a)
    BY <2>1, <2>2, <1>2, <1>3
  <2>3. CASE ~(i <= Len(a))
    <3>1. i - Len(a) \in 1..Len(b)
      BY <2>1, <2>3, <1>3
    <3>2. n[i] = b[i - Len(a)]
      BY <2>1, <2>3, <1>2
    <3>. QED
      BY <3>1, <3>2, <1>3
  <2>. QED
    BY <2>2, <2>3
<1>. HIDE DEF n
<1>5. Honest(n)
  BY <1>4 DEF Honest
<1>. QED
  BY <1>5 DEF n

LEMMA MergedHonest ==
  ASSUME NEW old \in Notes, NEW new \in Notes, Honest(old), Honest(new)
  PROVE  Honest(getReleaseNotes(old, new))
<1>1. Honest(old \o new) /\ Honest(new \o old)
  BY JoinedHonest
<1>2. getReleaseNotes(old, new) \in {old \o new, new \o old, old, new}
  BY DEF getReleaseNotes
<1>. QED
  BY <1>1, <1>2

LEMMA TextsInit == Init => TextsInv
<1>. SUFFICES ASSUME Init PROVE Honest(notes) /\ Honest(body)
  BY NotesInit DEF TextsInv
<1>1. body = <<>> /\ (notes = <<>> \/ notes = Earlier)
  BY DEF Init
<1>2. Honest(<<>>)
  BY DEF Honest
<1>3. Honest(Earlier)
  <2>. DEFINE first == [run |-> 0, text |-> FromFile]
  <2>1. first.run = 0
    OBVIOUS
  <2>. HIDE DEF first
  <2>2. Len(<<first>>) = 1 /\ <<first>>[1] = first
    OBVIOUS
  <2>3. Honest(<<first>>)
    BY <2>1, <2>2 DEF Honest
  <2>. QED
    BY <2>3 DEF first, Earlier
<1>. QED
  BY <1>1, <1>2, <1>3

(* A step that takes its notes from those that are there.                  *)
LEMMA TextsQuiet ==
  ASSUME Honest(notes), Honest(body), cfg' = cfg,
         notes' = notes \/ notes' = body,
         body' = body \/ body' = <<>>
  PROVE  Honest(notes)' /\ Honest(body)'
<1>1. Honest(<<>>)
  BY DEF Honest
<1>. QED
  BY <1>1 DEF Honest, HonestTexts, Makes

LEMMA MakeNotesHonest ==
  ASSUME TextsInv, MakeNotes PROVE Honest(notes)' /\ Honest(body)'
<1>1. cfg' = cfg /\ notes' = notes
  BY DEF MakeNotes, forge
<1>2. CASE body' = body
  BY <1>1, <1>2, TextsQuiet DEF TextsInv
<1>3. ASSUME NEW text \in Texts(cfg.notes, cfg.log), body' = <<[run |-> run, text |-> text]>>,
             ~(Makes /\ Fails(cfg.notes, cfg.log, opts.forge = "gitlab" /\ opts.jobToken))
      PROVE  Honest(notes)' /\ Honest(body)'
  <2>1. Makes => cfg.notes.sort \in {"", "asc", "desc"}
    BY <1>3 DEF Fails
  <2>5. text \in HonestTexts
    BY <1>3, <2>1 DEF HonestTexts, Sortable
  <2>2. Len(body') = 1 /\ body'[1].text = text
    BY <1>3
  <2>3. Honest(body)'
    <3>1. HonestTexts' = HonestTexts
      BY <1>1 DEF HonestTexts, Makes
    <3>. QED
      BY <2>2, <2>5, <3>1 DEF Honest
  <2>4. Honest(notes)'
    BY <1>1 DEF TextsInv, Honest, HonestTexts, Makes
  <2>. QED
    BY <2>3, <2>4
<1>. QED
  BY <1>2, <1>3 DEF MakeNotes, Makes

LEMMA FindHonest ==
  ASSUME TextsInv, FindRelease PROVE Honest(notes)' /\ Honest(body)'
<1>1. cfg' = cfg /\ notes' = notes /\ (body' = body \/ body' = getReleaseNotes(notes, body))
  BY DEF FindRelease, forge
<1>2. Honest(getReleaseNotes(notes, body))
  BY MergedHonest DEF TextsInv, NotesInv
<1>. QED
  BY <1>1, <1>2 DEF TextsInv, Honest, HonestTexts, Makes

(* The notes that go public tell of each commit they should tell of, once, *)
(* and of no other; of a commit in its own section and in the order asked  *)
(* for; and nobody is credited twice: for any log, any filter, any groups, *)
(* and whatever is lost, sent again or started again.                      *)
THEOREM NotesTellOfEach == Spec => []NotesTellEach
<1>1. UploadInv /\ TextsInv /\ [Next]_vars => TextsInv'
  <2>. SUFFICES ASSUME UploadInv, TextsInv, [Next]_vars PROVE TextsInv'
    OBVIOUS
  <2>1. NotesInv'
    BY NotesNext DEF TextsInv
  <2>. SUFFICES Honest(notes)' /\ Honest(body)'
    BY <2>1 DEF TextsInv
  <2>2. CASE \/ Preflight \/ StartUploads \/ WaitUploads \/ Kill
             \/ Rest \/ \E u \in Artifacts : UploadStep(u)
    BY <2>2, OthersKeepNotes, TextsQuiet DEF TextsInv
  <2>3. CASE UNCHANGED vars
    BY <2>3, TextsQuiet DEF vars, forge, TextsInv
  <2>4. CASE MakeNotes
    BY <2>4, MakeNotesHonest
  <2>5. CASE FindRelease
    BY <2>5, FindHonest
  <2>6. CASE CreateRelease \/ UpdateRelease
    BY <2>6, RequestsSend, TextsQuiet DEF Sends, TextsInv
  <2>7. CASE StartAgain
    BY <2>7, TextsQuiet DEF StartAgain, forge, TextsInv
  <2>. QED
    BY <2>2, <2>3, <2>4, <2>5, <2>6, <2>7 DEF Next
<1>2. TextsInv => NotesTellEach
  <2>. SUFFICES ASSUME TextsInv, Makes, NEW k \in DOMAIN notes, notes[k].run > 0
                PROVE  TellsOfEach(notes[k].text)
    BY DEF NotesTellEach, TellsOfEach, Makes
  <2>1. /\ notes[k].text \in Texts(cfg.notes, cfg.log) /\ cfg.notes.sort \in {"", "asc", "desc"}
        /\ cfg \in Projects
    <3>1. DOMAIN notes = 1..Len(notes)
      BY Positions DEF TextsInv, NotesInv, Notes
    <3>. QED
      BY <3>1 DEF TextsInv, Honest, HonestTexts, Sortable, NotesInv
  <2>. QED
    BY <2>1, TextsTellOfEach DEF Makes
<1>. QED
  BY <1>1, <1>2, TextsInit, UploadInvHolds, PTL DEF Spec
=============================================================================
