------------------------ MODULE GitHubRelease_proofs ------------------------
(***************************************************************************)
(* A release to GitHub is published whole and stays, and a run that ends   *)
(* with success has uploaded everything: for any artifacts with names of   *)
(* their own, any number of attempts, of faults and of runs.               *)
(***************************************************************************)
EXTENDS GitHubRelease, FiniteSetTheorems, TLAPS

(* Two artifacts are never uploaded under one name.                        *)
NamesApart == \A u, v \in Artifacts : NameOf[u] = NameOf[v] => u = v

(* The release doPublish works on is there: a draft it deletes, afterwards *)
(* one that is not deleted.                                                *)
Working == {"update", "created", "upload", "publish"}

Existing ==
  /\ pc = "delete" => rel # 0 /\ releases[rel] \in {"draft", "gone"}
  /\ pc \in Working => rel # 0 /\ releases[rel] # "gone"

(* The forge numbers assets apart, and an upload deletes by number only    *)
(* what has its own name.                                                  *)
Numbered == \A a, b \in assets : a.id = b.id => a = b

Targets ==
  \A u \in Artifacts : up[u].at = "delete" =>
    \A a \in assets : a.id = up[u].target => a.name = NameOf[u]

(* No upload has begun while the release is still looked for.              *)
Early == {"preflight", "dropping", "delete", "find", "create", "update", "created"}

IdleEarly == pc \in Early => \A u \in Artifacts : up[u].at = "idle"

(* An upload that succeeded has its asset in the release: with names of    *)
(* their own, for nobody else deletes it.                                  *)
Has(u) == \E a \in Found(rel, u) : a.run = run

Stored == NamesApart => \A u \in Artifacts : up[u].at = "ok" => Has(u)

AllUploaded == \A u \in Artifacts : up[u].at = "ok"

Uploads == pc = "publish" /\ ~opts.skipUpload => AllUploaded

Answer ==
  /\ pc # "done" => result = "none"
  /\ result = "ok" =>
       /\ ~opts.skipUpload => AllUploaded
       /\ ~opts.draft => releases[rel] \in Published

IInv ==
  /\ TypeOK /\ Existing /\ Numbered /\ Targets /\ IdleEarly /\ Stored
  /\ Uploads /\ Answer
-----------------------------------------------------------------------------
UploadStates == {"idle", "post", "list", "delete", "again", "ok", "failed"}

UploadRecord(n) ==
  [at : UploadStates, outer : 0..MaxAttempts - 1, inner : 0..MaxAttempts - 1,
   target : 0..n]

Asset(n, r) ==
  [id : 1..n, rel : 1..r, name : {NameOf[u] : u \in Artifacts}, of : Artifacts,
   run : 0..MaxRuns]

ReleaseState == {"draft", "public", "frozen", "gone"}

TypeForge ==
  /\ releases \in Seq(ReleaseState)
  /\ assets \subseteq Asset(serial, Len(releases))
  /\ serial \in Nat

TypeRun ==
  /\ opts \in Options
  /\ run \in 1..MaxRuns /\ faults \in 0..MaxFaults /\ calm \in BOOLEAN
  /\ pc \in Early \cup {"upload", "publish", "done"}
  /\ rel \in 0..Len(releases)
  /\ tries \in 0..MaxAttempts - 1
  /\ result \in {"none", "ok", "err", "killed"}

TypeUp == up \in [Artifacts -> UploadRecord(serial)]

LEMMA Types == TypeOK <=> TypeForge /\ TypeRun /\ TypeUp
BY DEF TypeOK, TypeForge, TypeRun, TypeUp, Asset, ReleaseState, UploadRecord,
       UploadStates, Early

LEMMA TypesNext == TypeOK' <=> TypeForge' /\ TypeRun' /\ TypeUp'
BY Types, PTL

LEMMA InitInv == Init => IInv
<1>. SUFFICES ASSUME Init PROVE IInv
  OBVIOUS
<1>1. TypeForge
  <2>1. releases \in Seq(ReleaseState)
    <3>1. <<>> \in Seq(ReleaseState)
      OBVIOUS
    <3>2. \A s \in ReleaseState : <<s>> \in Seq(ReleaseState)
      OBVIOUS
    <3>3. "draft" \in ReleaseState /\ FreshState(opts) \in ReleaseState
      BY DEF ReleaseState, FreshState
    <3>. QED
      BY <3>1, <3>2, <3>3 DEF Init
  <2>2. CASE assets = {}
    BY <2>1, <2>2 DEF Init, TypeForge
  <2>3. CASE assets # {}
    <3>1. PICK u \in Artifacts :
            assets = {[id |-> 1, rel |-> 1, name |-> NameOf[u], of |-> u, run |-> 0]}
      BY <2>3 DEF Init
    <3>2. Len(releases) = 1 /\ serial = 1
      BY <2>3 DEF Init
    <3>. QED
      BY <2>1, <3>1, <3>2, ReleaseAssumption DEF TypeForge, Asset
  <2>. QED
    BY <2>2, <2>3
<1>2. TypeRun
  BY <1>1, ReleaseAssumption DEF Init, TypeRun, TypeForge, Early
<1>3. TypeUp
  BY <1>1, ReleaseAssumption
  DEF Init, TypeUp, TypeForge, UploadRecord, UploadStates, Idle
<1>4. Existing /\ Targets /\ IdleEarly /\ Stored /\ Uploads /\ Answer
  BY DEF Init, Existing, Working, Targets, IdleEarly, Stored, Uploads, Answer, Idle
<1>5. Numbered
  BY DEF Init, Numbered
<1>. QED
  BY <1>1, <1>2, <1>3, <1>4, <1>5, Types DEF IInv
-----------------------------------------------------------------------------
(* What one step of doPublish leaves alone.                                *)
LEMMA FrameUploads ==
  ASSUME IInv, UNCHANGED <<serial, up, run>>,
         assets' = assets, rel' = rel \/ \A u \in Artifacts : up[u].at = "idle"
  PROVE  TypeUp' /\ Numbered' /\ Targets' /\ Stored'
<1>1. TypeUp'
  BY Types DEF IInv, TypeUp
<1>2. Numbered' /\ Targets'
  BY DEF IInv, Numbered, Targets
<1>3. Stored'
  BY DEF IInv, Stored, Has, Found
<1>. QED
  BY <1>1, <1>2, <1>3

(* The type of the variables End, GoTo, Fault and RetryOrEnd set.          *)
LEMMA AttemptType ==
  ASSUME IInv, RetryOrEnd
  PROVE  tries' \in 0..MaxAttempts - 1
BY Types, ReleaseAssumption DEF IInv, TypeRun, RetryOrEnd, AttemptsLeft

LEMMA FaultType ==
  ASSUME IInv, Fault \/ NoFault
  PROVE  faults' \in 0..MaxFaults /\ calm' \in BOOLEAN
<1>1. faults \in 0..MaxFaults /\ calm \in BOOLEAN
  BY Types DEF IInv, TypeRun
<1>2. faults' \in 0..MaxFaults
  BY <1>1, ReleaseAssumption DEF Fault, NoFault
<1>3. calm' = FALSE \/ calm' = calm
  BY DEF Fault, NoFault
<1>. QED
  BY <1>1, <1>2, <1>3

LEMMA PreflightInv == IInv /\ Preflight => IInv'
<1>. SUFFICES ASSUME IInv, Preflight PROVE IInv'
  OBVIOUS
<1>1. TypeForge' /\ TypeRun'
  BY Types, FaultType, ReleaseAssumption
  DEF IInv, Preflight, TypeForge, TypeRun, forge, End, GoTo, Early
<1>2. TypeUp' /\ Numbered' /\ Targets' /\ Stored'
  BY FrameUploads DEF Preflight, forge
<1>3. Existing' /\ IdleEarly' /\ Uploads' /\ Answer'
  BY DEF IInv, Preflight, forge, End, GoTo, Existing, Working, IdleEarly, Early,
         Uploads, Answer
<1>. QED
  BY <1>1, <1>2, <1>3, TypesNext DEF IInv

LEMMA FindOldDraftInv == IInv /\ FindOldDraft => IInv'
<1>. SUFFICES ASSUME IInv, FindOldDraft PROVE IInv'
  OBVIOUS
<1>0. \A u \in Artifacts : up[u].at = "idle"
  BY DEF IInv, IdleEarly, Early, FindOldDraft
<1>1. TypeForge' /\ TypeRun'
  <2>1. rel' \in 0..Len(releases)
    BY Types DEF IInv, FindOldDraft, DraftsSeen, Drafts, TypeForge, TypeRun
  <2>. QED
    BY <2>1, Types, FaultType, ReleaseAssumption
    DEF IInv, FindOldDraft, TypeForge, TypeRun, forge, End, GoTo, Early
<1>2. TypeUp' /\ Numbered' /\ Targets' /\ Stored'
  BY <1>0, FrameUploads DEF FindOldDraft, forge
<1>3. Existing' /\ IdleEarly' /\ Uploads' /\ Answer'
  <2>1. pc' = "delete" => rel' # 0 /\ releases[rel'] = "draft"
    BY Types DEF IInv, FindOldDraft, DraftsSeen, Drafts, GoTo, End, TypeForge
  <2>. QED
    BY <2>1 DEF IInv, FindOldDraft, forge, End, GoTo, Existing, Working, IdleEarly,
       Early, Uploads, Answer
<1>. QED
  BY <1>1, <1>2, <1>3, TypesNext DEF IInv

LEMMA DeleteOldDraftInv == IInv /\ DeleteOldDraft => IInv'
<1>. SUFFICES ASSUME IInv, DeleteOldDraft PROVE IInv'
  OBVIOUS
<1>0. /\ \A u \in Artifacts : up[u].at = "idle"
      /\ rel \in 1..Len(releases)
      /\ pc' \in {"delete", "find", "done"} /\ pc = "delete"
  BY Types DEF IInv, IdleEarly, Early, DeleteOldDraft, Existing, TypeRun, TypeForge,
               GoTo, End, RetryOrEnd
<1>1. /\ releases' = releases \/ releases' = [releases EXCEPT ![rel] = "gone"]
      /\ assets' \subseteq assets
      /\ UNCHANGED <<opts, run, rel, up, serial>>
  BY DEF DeleteOldDraft, Remove, forge
<1>2. releases' \in Seq(ReleaseState) /\ Len(releases') = Len(releases)
  BY <1>0, <1>1, Types DEF IInv, TypeForge, ReleaseState
<1>3. TypeForge'
  BY <1>1, <1>2, Types DEF IInv, TypeForge
<1>4. tries' \in 0..MaxAttempts - 1
  BY Types, AttemptType, ReleaseAssumption DEF IInv, TypeRun, DeleteOldDraft, GoTo
<1>5. faults' \in 0..MaxFaults /\ calm' \in BOOLEAN
  BY FaultType DEF DeleteOldDraft
<1>6. result' \in {"none", "ok", "err", "killed"}
  BY Types DEF IInv, TypeRun, DeleteOldDraft, GoTo, End, RetryOrEnd
<1>7. TypeRun'
  BY <1>0, <1>1, <1>2, <1>4, <1>5, <1>6, Types DEF IInv, TypeRun, Early
<1>8. TypeUp'
  BY <1>1, Types DEF IInv, TypeUp
<1>9. Numbered' /\ Targets' /\ Stored' /\ IdleEarly'
  BY <1>0, <1>1 DEF IInv, Numbered, Targets, Stored, IdleEarly
<1>10. Existing'
  BY <1>0, <1>1, Types DEF IInv, Existing, Working, TypeForge
<1>11. Uploads' /\ Answer'
  BY <1>0 DEF IInv, Uploads, Answer, DeleteOldDraft, GoTo, End, RetryOrEnd
<1>. QED
  BY <1>3, <1>7, <1>8, <1>9, <1>10, <1>11, TypesNext DEF IInv

LEMMA FindReleaseInv == IInv /\ FindRelease => IInv'
<1>. SUFFICES ASSUME IInv, FindRelease PROVE IInv'
  OBVIOUS
<1>0. \A u \in Artifacts : up[u].at = "idle"
  BY DEF IInv, IdleEarly, Early, FindRelease
<1>1. rel' = rel \/ rel' \in {r \in DOMAIN releases : releases[r] # "gone"}
  BY DEF FindRelease, Seen, Tagged, Drafts, Published
<1>2. pc' = "update" => rel' \in {r \in DOMAIN releases : releases[r] # "gone"}
  BY DEF FindRelease, Seen, Tagged, Drafts, Published, GoTo, End
<1>3. rel' \in 0..Len(releases)
  BY <1>1, Types DEF IInv, TypeForge, TypeRun
<1>4. pc' \in {"update", "create", "done"} /\ pc = "find"
  BY DEF FindRelease, GoTo, End
<1>5. TypeForge' /\ TypeRun'
  BY <1>3, <1>4, Types, FaultType, ReleaseAssumption
  DEF IInv, FindRelease, TypeForge, TypeRun, forge, End, GoTo, Early
<1>6. TypeUp' /\ Numbered' /\ Targets' /\ Stored'
  BY <1>0, FrameUploads DEF FindRelease, forge
<1>7. Existing'
  BY <1>2, <1>4, Types DEF IInv, TypeForge, Existing, Working, FindRelease, forge
<1>8. IdleEarly' /\ Uploads' /\ Answer'
  BY <1>0, <1>4 DEF IInv, FindRelease, forge, End, GoTo, IdleEarly, Uploads, Answer
<1>. QED
  BY <1>5, <1>6, <1>7, <1>8, TypesNext DEF IInv

LEMMA CreateReleaseInv == IInv /\ CreateRelease => IInv'
<1>. SUFFICES ASSUME IInv, CreateRelease PROVE IInv'
  OBVIOUS
<1>0. /\ \A u \in Artifacts : up[u].at = "idle"
      /\ pc = "create" /\ pc' \in {"create", "created", "done"}
  BY DEF IInv, IdleEarly, Early, CreateRelease, GoTo, End, RetryOrEnd
<1>1. releases' \in {releases, Append(releases, "draft")}
  BY DEF CreateRelease, StartState
<1>2. releases \in Seq(ReleaseState) /\ "draft" \in ReleaseState
  BY Types DEF IInv, TypeForge, ReleaseState
<1>3. releases' \in Seq(ReleaseState) /\ Len(releases') >= Len(releases)
  BY <1>1, <1>2
<1>4. TypeForge'
  <2>1. assets' = assets /\ serial' = serial
    BY DEF CreateRelease
  <2>2. Asset(serial, Len(releases)) \subseteq Asset(serial, Len(releases'))
    BY <1>2, <1>3 DEF Asset
  <2>. QED
    BY <1>3, <2>1, <2>2, Types DEF IInv, TypeForge
<1>5. rel' \in 0..Len(releases') /\ (pc' = "created" => rel' # 0 /\ releases'[rel'] = "draft")
  BY <1>0, <1>2, <1>3, Types
  DEF IInv, TypeRun, CreateRelease, StartState, GoTo, End, RetryOrEnd
<1>6. tries' \in 0..MaxAttempts - 1
  BY AttemptType, ReleaseAssumption DEF CreateRelease, GoTo
<1>7. faults' \in 0..MaxFaults /\ calm' \in BOOLEAN
  BY FaultType DEF CreateRelease
<1>8. result' \in {"none", "ok", "err", "killed"}
  BY Types DEF IInv, TypeRun, CreateRelease, GoTo, End, RetryOrEnd
<1>9. TypeRun'
  BY <1>0, <1>5, <1>6, <1>7, <1>8, Types DEF IInv, TypeRun, Early, CreateRelease
<1>10. TypeUp' /\ Numbered' /\ Targets' /\ Stored'
  BY <1>0, FrameUploads DEF CreateRelease
<1>11. Existing'
  BY <1>0, <1>5 DEF Existing, Working
<1>12. IdleEarly' /\ Uploads' /\ Answer'
  BY <1>0 DEF IInv, CreateRelease, GoTo, End, RetryOrEnd, IdleEarly, Uploads, Answer
<1>. QED
  BY <1>4, <1>9, <1>10, <1>11, <1>12, TypesNext DEF IInv

LEMMA UpdateReleaseInv == IInv /\ UpdateRelease => IInv'
<1>. SUFFICES ASSUME IInv, UpdateRelease PROVE IInv'
  OBVIOUS
<1>1. pc = "update" /\ pc' \in {"update", "created", "done"}
  BY DEF UpdateRelease, GoTo, End, RetryOrEnd
<1>2. tries' \in 0..MaxAttempts - 1
  BY AttemptType, ReleaseAssumption DEF UpdateRelease, GoTo
<1>3. TypeForge' /\ TypeRun'
  BY <1>1, <1>2, Types, FaultType
  DEF IInv, UpdateRelease, TypeForge, TypeRun, forge, End, GoTo, RetryOrEnd, Early
<1>4. TypeUp' /\ Numbered' /\ Targets' /\ Stored'
  BY FrameUploads DEF UpdateRelease, forge
<1>5. Existing' /\ IdleEarly' /\ Uploads' /\ Answer'
  BY <1>1 DEF IInv, UpdateRelease, forge, End, GoTo, RetryOrEnd, Existing, Working,
              IdleEarly, Early, Uploads, Answer
<1>. QED
  BY <1>3, <1>4, <1>5, TypesNext DEF IInv

LEMMA StartUploadsInv == IInv /\ StartUploads => IInv'
<1>. SUFFICES ASSUME IInv, StartUploads PROVE IInv'
  OBVIOUS
<1>1. TypeForge' /\ TypeRun'
  BY Types, ReleaseAssumption
  DEF IInv, StartUploads, TypeForge, TypeRun, forge, GoTo, Early
<1>2. TypeUp' /\ Numbered' /\ Targets' /\ Stored'
  BY FrameUploads DEF StartUploads, forge
<1>3. Existing' /\ IdleEarly' /\ Uploads' /\ Answer'
  BY DEF IInv, StartUploads, forge, GoTo, Existing, Working, IdleEarly, Early,
         Uploads, Answer
<1>. QED
  BY <1>1, <1>2, <1>3, TypesNext DEF IInv

LEMMA WaitUploadsInv == IInv /\ WaitUploads => IInv'
<1>. SUFFICES ASSUME IInv, WaitUploads PROVE IInv'
  OBVIOUS
<1>1. TypeForge' /\ TypeRun'
  BY Types, ReleaseAssumption
  DEF IInv, WaitUploads, TypeForge, TypeRun, forge, GoTo, End, Early
<1>2. TypeUp' /\ Numbered' /\ Targets' /\ Stored'
  BY FrameUploads DEF WaitUploads, forge
<1>3. Existing' /\ IdleEarly' /\ Uploads' /\ Answer'
  BY DEF IInv, WaitUploads, MayPublish, forge, GoTo, End, Existing, Working,
         IdleEarly, Early, Uploads, AllUploaded, Answer
<1>. QED
  BY <1>1, <1>2, <1>3, TypesNext DEF IInv

LEMMA PublishReleaseInv == IInv /\ PublishRelease => IInv'
<1>. SUFFICES ASSUME IInv, PublishRelease PROVE IInv'
  OBVIOUS
<1>0. /\ rel \in DOMAIN releases /\ releases[rel] # "gone"
      /\ pc = "publish" /\ pc' \in {"publish", "done"}
      /\ releases \in Seq(ReleaseState)
  BY Types DEF IInv, TypeForge, TypeRun, Existing, Working, PublishRelease, GoTo, End,
               RetryOrEnd
<1>1. /\ releases' = releases \/ Undraft
      /\ UNCHANGED <<opts, run, rel, up, serial, assets>>
  BY DEF PublishRelease, Undraft, forge
<1>2. Undraft => /\ releases' \in Seq(ReleaseState) /\ Len(releases') = Len(releases)
                 /\ releases'[rel] \in Published
  BY <1>0 DEF Undraft, ReleaseState, FreshState, Published
<1>3. releases' \in Seq(ReleaseState) /\ Len(releases') = Len(releases)
  BY <1>0, <1>1, <1>2
<1>4. TypeForge'
  BY <1>1, <1>3, Types DEF IInv, TypeForge
<1>5. tries' \in 0..MaxAttempts - 1
  BY AttemptType, Types DEF IInv, TypeRun, PublishRelease
<1>6. faults' \in 0..MaxFaults /\ calm' \in BOOLEAN
  BY FaultType DEF PublishRelease
<1>7. result' \in {"none", "ok", "err", "killed"}
  BY Types DEF IInv, TypeRun, PublishRelease, End, RetryOrEnd
<1>8. TypeRun'
  BY <1>0, <1>1, <1>3, <1>5, <1>6, <1>7, Types DEF IInv, TypeRun, Early
<1>9. TypeUp' /\ Numbered' /\ Targets' /\ Stored'
  BY <1>1, FrameUploads
<1>10. Existing' /\ IdleEarly' /\ Uploads'
  BY <1>0, <1>1, <1>2 DEF IInv, Existing, Working, IdleEarly, Early, Uploads,
                          AllUploaded, Published
<1>11. Answer'
  <2>1. pc' # "done" => result' = "none"
    BY <1>0 DEF IInv, Answer, PublishRelease, End, RetryOrEnd
  <2>2. ASSUME result' = "ok" PROVE opts.draft \/ Undraft
    BY <1>0, <2>2 DEF IInv, Answer, PublishRelease, StaysDraft, End, RetryOrEnd
  <2>3. (~opts.skipUpload => AllUploaded)'
    BY <1>0, <1>1 DEF IInv, Uploads, AllUploaded
  <2>. QED
    BY <1>1, <1>2, <2>1, <2>2, <2>3 DEF Answer, Published
<1>. QED
  BY <1>4, <1>8, <1>9, <1>10, <1>11, TypesNext DEF IInv

LEMMA KillInv == IInv /\ Kill => IInv'
<1>. SUFFICES ASSUME IInv, Kill PROVE IInv'
  OBVIOUS
<1>1. TypeForge' /\ TypeRun'
  BY Types, FaultType
  DEF IInv, Kill, TypeForge, TypeRun, forge, End, Early
<1>2. TypeUp' /\ Numbered' /\ Targets' /\ Stored'
  BY FrameUploads DEF Kill, forge
<1>3. Existing' /\ IdleEarly' /\ Uploads' /\ Answer'
  BY DEF IInv, Kill, forge, End, Existing, Working, IdleEarly, Early, Uploads, Answer
<1>. QED
  BY <1>1, <1>2, <1>3, TypesNext DEF IInv

LEMMA StartAgainInv == IInv /\ StartAgain => IInv'
<1>. SUFFICES ASSUME IInv, StartAgain PROVE IInv'
  OBVIOUS
<1>1. TypeForge' /\ TypeRun'
  BY Types, ReleaseAssumption
  DEF IInv, StartAgain, TypeForge, TypeRun, forge, Early
<1>2. TypeUp' /\ \A u \in Artifacts : up'[u].at = "idle"
  BY Types, ReleaseAssumption
  DEF IInv, StartAgain, TypeForge, TypeUp, UploadRecord, UploadStates, Idle, forge
<1>3. Numbered' /\ Targets' /\ Stored' /\ IdleEarly'
  BY <1>2 DEF IInv, StartAgain, forge, Numbered, Targets, Stored, IdleEarly
<1>4. Existing' /\ Uploads' /\ Answer'
  BY DEF StartAgain, Existing, Working, Uploads, Answer
<1>. QED
  BY <1>1, <1>2, <1>3, <1>4, TypesNext DEF IInv
-----------------------------------------------------------------------------
(* What a step of one upload leaves alone, and what it may do to the rest. *)
UploadFrame ==
  /\ pc = "upload"
  /\ faults' \in 0..MaxFaults /\ calm' \in BOOLEAN
  /\ UNCHANGED <<opts, releases, run, pc, rel, tries, result>>

LEMMA UploadStepFrame ==
  ASSUME IInv, NEW u \in Artifacts, UploadStep(u)
  PROVE  UploadFrame
<1>1. /\ pc = "upload"
      /\ UNCHANGED <<opts, releases, run, pc, rel, tries, result>>
  BY DEF UploadStep, BeginUpload, Uploaded, NameTaken, UploadLost, ListAssets,
         DeleteAsset, InUpload, Store, Discard, forge
<1>2. Fault \/ NoFault
  BY DEF UploadStep, BeginUpload, Uploaded, NameTaken, UploadLost, ListAssets,
         DeleteAsset, NoFault
<1>. QED
  BY <1>1, <1>2, FaultType DEF UploadFrame

LEMMA FrameRun ==
  ASSUME IInv, UploadFrame
  PROVE  TypeRun' /\ Existing' /\ IdleEarly' /\ Uploads' /\ Answer'
<1>1. TypeRun'
  BY Types DEF IInv, UploadFrame, TypeRun
<1>2. Existing' /\ IdleEarly' /\ Uploads' /\ Answer'
  BY DEF IInv, UploadFrame, Existing, Working, IdleEarly, Early, Uploads, Answer
<1>. QED
  BY <1>1, <1>2

(* An upload that changes its state, and what it may change it to.         *)
Moves(u, w) == up' = [up EXCEPT ![u] = w]

LEMMA MovesType ==
  ASSUME TypeOK, NEW u \in Artifacts, NEW w \in UploadRecord(serial'),
         serial' \in Nat, serial' >= serial, Moves(u, w)
  PROVE  TypeUp' /\ up'[u] = w /\ \A v \in Artifacts \ {u} : up'[v] = up[v]
<1>1. UploadRecord(serial) \subseteq UploadRecord(serial')
  BY Types DEF TypeForge, UploadRecord
<1>. QED
  BY <1>1, Types DEF Moves, TypeUp

(* The forge after an upload that was stored.                              *)
LEMMA StoreKeeps ==
  ASSUME IInv, UploadFrame, NEW u \in Artifacts, Store(u)
  PROVE  /\ TypeForge' /\ Numbered' /\ serial' = serial + 1
         /\ assets \subseteq assets'
         /\ Has(u)'
         /\ \A a \in assets' : a.id <= serial => a \in assets
<1>. DEFINE new == [id |-> serial + 1, rel |-> rel, name |-> NameOf[u],
                    of |-> u, run |-> run]
<1>1. assets' = assets \cup {new} /\ serial' = serial + 1 /\ serial \in Nat
  BY Types DEF IInv, TypeForge, Store
<1>2. \A a \in assets : a.id \in 1..serial
  BY Types DEF IInv, TypeForge, Asset
<1>3. rel \in 1..Len(releases) /\ run \in 0..MaxRuns
  BY Types, ReleaseAssumption
  DEF IInv, UploadFrame, Existing, Working, TypeRun, TypeForge
<1>4. new \in Asset(serial + 1, Len(releases))
  BY <1>1, <1>3 DEF Asset
<1>5. Asset(serial, Len(releases)) \subseteq Asset(serial + 1, Len(releases))
  BY <1>1 DEF Asset
<1>6. TypeForge'
  BY <1>1, <1>4, <1>5, Types DEF IInv, TypeForge, UploadFrame
<1>7. Numbered'
  BY <1>1, <1>2 DEF IInv, Numbered
<1>8. Has(u)'
  <2>1. new \in assets' /\ new.rel = rel' /\ new.name = NameOf[u] /\ new.run = run'
    BY <1>1 DEF UploadFrame
  <2>. QED
    BY <2>1 DEF Has, Found
<1>9. \A a \in assets' : a.id <= serial => a \in assets
  BY <1>1
<1>. QED
  BY <1>1, <1>6, <1>7, <1>8, <1>9

(* The forge after an upload has deleted what stood in its way: only       *)
(* assets of its own name are gone.                                        *)
LEMMA DiscardKeeps ==
  ASSUME IInv, UploadFrame, NEW u \in Artifacts,
         up[u].at = "delete", Discard(u) \/ UNCHANGED forge
  PROVE  /\ TypeForge' /\ Numbered' /\ serial' = serial
         /\ assets' \subseteq assets
         /\ NamesApart => \A v \in Artifacts \ {u} : Has(v) => Has(v)'
<1>1. /\ assets' \subseteq assets /\ serial' = serial
      /\ \A a \in assets : a.id # up[u].target => a \in assets'
  BY DEF Discard, forge
<1>2. TypeForge' /\ Numbered'
  BY <1>1, Types DEF IInv, TypeForge, Numbered, UploadFrame
<1>3. ASSUME NamesApart, NEW v \in Artifacts \ {u}, Has(v) PROVE Has(v)'
  <2>1. PICK a \in Found(rel, v) : a.run = run
    BY <1>3 DEF Has
  <2>2. a \in assets /\ a.name = NameOf[v] /\ NameOf[v] # NameOf[u]
    BY <1>3, <2>1 DEF Found, NamesApart
  <2>3. a \in assets'
    BY <1>1, <2>2 DEF IInv, Targets
  <2>. QED
    BY <2>1, <2>3 DEF Has, Found, UploadFrame
<1>. QED
  BY <1>1, <1>2, <1>3

(* A step of one upload keeps the invariant when the state it moves to     *)
(* says the truth about its own asset.                                     *)
LEMMA Advance ==
  ASSUME IInv, UploadFrame, NEW u \in Artifacts,
         NEW w \in UploadRecord(serial'), Moves(u, w),
         \/ UNCHANGED forge
         \/ Store(u)
         \/ up[u].at = "delete" /\ Discard(u),
         w.at = "ok" => Has(u)',
         w.at = "delete" => \A a \in assets' : a.id = w.target => a.name = NameOf[u]
  PROVE  IInv'
<1>1. /\ TypeForge' /\ Numbered'
      /\ serial' \in Nat /\ serial' >= serial
      /\ NamesApart => \A v \in Artifacts \ {u} : Has(v) => Has(v)'
      /\ \A a \in assets' : a.id <= serial => a \in assets
  <2>1. CASE UNCHANGED forge
    BY <2>1, Types DEF IInv, TypeForge, Numbered, Has, Found, forge, UploadFrame
  <2>2. CASE Store(u)
    <3>1. \A v \in Artifacts \ {u} : Has(v) => Has(v)'
      BY <2>2, StoreKeeps DEF Has, Found, UploadFrame
    <3>. QED
      BY <2>2, <3>1, StoreKeeps, Types DEF IInv, TypeForge
  <2>3. CASE up[u].at = "delete" /\ Discard(u)
    BY <2>3, DiscardKeeps, Types DEF IInv, TypeForge
  <2>. QED
    BY <2>1, <2>2, <2>3
<1>2. TypeUp' /\ up'[u] = w /\ \A v \in Artifacts \ {u} : up'[v] = up[v]
  BY <1>1, MovesType DEF IInv
<1>3. Targets'
  <2>1. SUFFICES ASSUME NEW v \in Artifacts \ {u}, up[v].at = "delete",
                        NEW a \in assets', a.id = up[v].target
                 PROVE  a.name = NameOf[v]
    BY <1>2 DEF Targets
  <2>2. up[v].target <= serial
    BY Types DEF IInv, TypeUp, UploadRecord, TypeForge
  <2>3. a \in assets
    BY <1>1, <2>1, <2>2
  <2>. QED
    BY <2>1, <2>3 DEF IInv, Targets
<1>4. Stored'
  <2>1. SUFFICES ASSUME NamesApart, NEW v \in Artifacts, up'[v].at = "ok"
                 PROVE  Has(v)'
    BY DEF Stored, Has, Found
  <2>2. CASE v = u
    BY <1>2, <2>1, <2>2
  <2>3. CASE v # u
    BY <1>1, <1>2, <2>1, <2>3 DEF IInv, Stored
  <2>. QED
    BY <2>2, <2>3
<1>. QED
  BY <1>1, <1>2, <1>3, <1>4, FrameRun, TypesNext DEF IInv

(* Step and NextAttempt as moves.                                          *)
LEMMA UploadTypes ==
  ASSUME TypeOK, NEW u \in Artifacts
  PROVE  /\ up[u] \in UploadRecord(serial) /\ serial \in Nat
         /\ MaxAttempts \in Nat \ {0}
BY Types, ReleaseAssumption DEF TypeUp, TypeForge

LEMMA StepMoves ==
  ASSUME TypeOK, NEW u \in Artifacts, NEW at \in UploadStates, Step(u, at)
  PROVE  \E w \in UploadRecord(serial) :
           Moves(u, w) /\ w.at = at /\ w.target = up[u].target
<1>. DEFINE w == [up[u] EXCEPT !.at = at]
<1>1. w \in UploadRecord(serial) /\ w.at = at /\ w.target = up[u].target
  BY UploadTypes DEF UploadRecord
<1>2. Moves(u, w)
  BY Types DEF Moves, Step, TypeUp
<1>. QED
  BY <1>1, <1>2

LEMMA NextAttemptMoves ==
  ASSUME TypeOK, NEW u \in Artifacts, NextAttempt(u)
  PROVE  \E w \in UploadRecord(serial) : Moves(u, w) /\ w.at \in {"post", "failed"}
<1>1. CASE Step(u, "failed")
  BY <1>1, StepMoves DEF UploadStates
<1>2. CASE ~Step(u, "failed")
  <2>. DEFINE n == up[u].outer + 1
              w == [Idle EXCEPT !.at = "post", !.outer = n]
  <2>1. n < MaxAttempts /\ Moves(u, w)
    BY <1>2 DEF NextAttempt, AttemptsLeft, Moves
  <2>2. n \in 0..MaxAttempts - 1 /\ 0 \in 0..MaxAttempts - 1 /\ 0 \in 0..serial
    BY <2>1, UploadTypes DEF UploadRecord
  <2>3. Idle \in UploadRecord(serial)
    BY <2>2 DEF Idle, UploadRecord, UploadStates
  <2>4. w \in UploadRecord(serial) /\ w.at = "post"
    BY <2>2, <2>3 DEF UploadRecord, UploadStates
  <2>. QED
    BY <2>1, <2>4
<1>. QED
  BY <1>1, <1>2
-----------------------------------------------------------------------------
LEMMA UploadStepInv ==
  ASSUME IInv, NEW u \in Artifacts, UploadStep(u)
  PROVE  IInv'
<1>0. UploadFrame /\ TypeOK
  BY UploadStepFrame DEF IInv
<1>1. CASE BeginUpload(u)
  <2>1. Step(u, "post") /\ UNCHANGED forge
    BY <1>1 DEF BeginUpload
  <2>. QED
    BY <1>0, <2>1, StepMoves, Advance DEF UploadStates, forge
<1>2. CASE Uploaded(u)
  <2>1. Step(u, "ok") /\ Store(u)
    BY <1>2 DEF Uploaded
  <2>2. PICK w \in UploadRecord(serial) : Moves(u, w) /\ w.at = "ok"
    BY <1>0, <2>1, StepMoves DEF UploadStates
  <2>3. Has(u)' /\ serial' = serial + 1
    BY <1>0, <2>1, StoreKeeps
  <2>4. w \in UploadRecord(serial')
    BY <2>2, <2>3, UploadTypes, <1>0 DEF UploadRecord
  <2>. QED
    BY <1>0, <2>1, <2>2, <2>3, <2>4, Advance
<1>3. CASE NameTaken(u)
  <2>1. (Step(u, "list") \/ Step(u, "failed")) /\ UNCHANGED forge
    BY <1>3 DEF NameTaken, OnTaken
  <2>. QED
    BY <1>0, <2>1, StepMoves, Advance DEF UploadStates, forge
<1>4. CASE UploadLost(u)
  <2>1. NextAttempt(u) /\ (Store(u) \/ UNCHANGED forge)
    BY <1>4 DEF UploadLost
  <2>2. PICK w \in UploadRecord(serial) : Moves(u, w) /\ w.at \in {"post", "failed"}
    BY <1>0, <2>1, NextAttemptMoves
  <2>3. w \in UploadRecord(serial')
    BY <1>0, <2>1, <2>2, UploadTypes DEF UploadRecord, Store, forge
  <2>. QED
    BY <1>0, <2>1, <2>2, <2>3, Advance
<1>5. CASE ListAssets(u)
  <2>0. UNCHANGED forge /\ serial' = serial
    BY <1>5 DEF ListAssets, forge
  <2>1. CASE \E a \in Found(rel, u) :
               up' = [up EXCEPT ![u].at = "delete", ![u].target = a.id]
    <3>1. PICK a \in Found(rel, u) :
                 up' = [up EXCEPT ![u].at = "delete", ![u].target = a.id]
      BY <2>1
    <3>. DEFINE w == [up[u] EXCEPT !.at = "delete", !.target = a.id]
    <3>2. a \in assets /\ a.id \in 0..serial /\ a.name = NameOf[u]
      BY <1>0, Types DEF Found, TypeForge, Asset
    <3>3. w \in UploadRecord(serial) /\ w.at = "delete" /\ w.target = a.id
      BY <1>0, <3>2, UploadTypes DEF UploadRecord, UploadStates
    <3>4. Moves(u, w)
      BY <1>0, <3>1, Types DEF Moves, TypeUp
    <3>5. \A b \in assets' : b.id = w.target => b.name = NameOf[u]
      BY <2>0, <3>2, <3>3 DEF IInv, Numbered, forge
    <3>. HIDE DEF w
    <3>. QED
      BY <1>0, <2>0, <3>3, <3>4, <3>5, Advance
  <2>2. CASE Step(u, "again")
    BY <1>0, <2>0, <2>2, StepMoves, Advance DEF UploadStates
  <2>3. CASE NextAttempt(u)
    BY <1>0, <2>0, <2>3, NextAttemptMoves, Advance
  <2>. QED
    BY <1>5, <2>1, <2>2, <2>3 DEF ListAssets
<1>6. CASE DeleteAsset(u)
  <2>0. /\ up[u].at = "delete" /\ (Discard(u) \/ UNCHANGED forge)
        /\ serial' = serial /\ assets' \subseteq assets
    BY <1>6 DEF DeleteAsset, InUpload, Discard, forge
  <2>1. CASE Step(u, "again") \/ Step(u, "failed")
    BY <1>0, <2>0, <2>1, StepMoves, Advance DEF UploadStates
  <2>2. CASE NextAttempt(u)
    BY <1>0, <2>0, <2>2, NextAttemptMoves, Advance
  <2>3. CASE up[u].inner + 1 < MaxAttempts
             /\ up' = [up EXCEPT ![u].inner = up[u].inner + 1]
    <3>. DEFINE w == [up[u] EXCEPT !.inner = up[u].inner + 1]
    <3>1. /\ w \in UploadRecord(serial)
          /\ w.at = "delete" /\ w.target = up[u].target
      BY <1>0, <2>0, <2>3, UploadTypes DEF UploadRecord
    <3>2. Moves(u, w)
      BY <1>0, <2>3, Types DEF Moves, TypeUp
    <3>3. \A a \in assets' : a.id = w.target => a.name = NameOf[u]
      BY <2>0, <3>1 DEF IInv, Targets
    <3>. HIDE DEF w
    <3>. QED
      BY <1>0, <2>0, <3>1, <3>2, <3>3, Advance
  <2>. QED
    BY <1>6, <2>1, <2>2, <2>3 DEF DeleteAsset, AttemptsLeft
<1>. QED
  BY <1>1, <1>2, <1>3, <1>4, <1>5, <1>6 DEF UploadStep

(* Every state of every run satisfies the invariant.                       *)
THEOREM IInvHolds == Spec => []IInv
<1>1. IInv /\ [Next]_vars => IInv'
  <2>. SUFFICES ASSUME IInv, [Next]_vars PROVE IInv'
    OBVIOUS
  <2>1. CASE Work
    BY <2>1, PreflightInv, FindOldDraftInv, DeleteOldDraftInv, FindReleaseInv,
       CreateReleaseInv, UpdateReleaseInv, StartUploadsInv, WaitUploadsInv,
       PublishReleaseInv, UploadStepInv DEF Work
  <2>2. CASE Kill \/ StartAgain
    BY <2>2, KillInv, StartAgainInv
  <2>3. CASE UNCHANGED vars
    <3>1. TypeOK'
      BY <2>3, Types, TypesNext DEF IInv, vars, TypeForge, TypeRun, TypeUp
    <3>. QED
      BY <2>3, <3>1 DEF IInv, vars, Existing, Numbered, Targets, IdleEarly, Stored, Has,
                        Found, Uploads, AllUploaded, Answer
  <2>. QED
    BY <2>1, <2>2, <2>3 DEF Next
<1>. QED
  BY <1>1, InitInv, PTL DEF Spec

(* Every variable has its type in every state.                             *)
THEOREM TypeCorrect == Spec => []TypeOK
<1>1. IInv => TypeOK
  BY DEF IInv
<1>. QED
  BY <1>1, IInvHolds, PTL

(* A run answers with success only when everything it built is at the      *)
(* forge, uploaded by this run, and the release is published unless        *)
(* release.draft asks for a draft.                                         *)
THEOREM SuccessMeansWhole ==
  ASSUME NamesApart
  PROVE  Spec => []SuccessIsWhole
<1>1. IInv /\ NamesApart => SuccessIsWhole
  BY DEF IInv, SuccessIsWhole, Answer, AllUploaded, Stored, Has, Whole
<1>. QED
  BY <1>1, IInvHolds, PTL

(* What a step does to the releases, action by action.                     *)
LEMMA ReleaseSteps ==
  ASSUME IInv, [Next]_vars
  PROVE  \/ releases' = releases
         \/ pc = "delete" /\ releases' = [releases EXCEPT ![rel] = "gone"]
         \/ releases' = Append(releases, "draft")
         \/ pc = "publish" /\ ~opts.draft /\ Undraft
<1>1. CASE Preflight \/ FindOldDraft \/ FindRelease \/ UpdateRelease \/ StartUploads
           \/ WaitUploads \/ Kill \/ StartAgain
  BY <1>1 DEF Preflight, FindOldDraft, FindRelease, UpdateRelease, StartUploads,
              WaitUploads, Kill, StartAgain, forge
<1>2. CASE DeleteOldDraft
  BY <1>2 DEF DeleteOldDraft, Remove, forge
<1>3. CASE CreateRelease
  BY <1>3 DEF CreateRelease, StartState
<1>4. CASE PublishRelease
  BY <1>4 DEF PublishRelease, StaysDraft, forge
<1>5. ASSUME NEW u \in Artifacts, UploadStep(u) PROVE releases' = releases
  BY <1>5, UploadStepFrame DEF UploadFrame
<1>6. CASE UNCHANGED vars
  BY <1>6 DEF vars
<1>. QED
  BY <1>1, <1>2, <1>3, <1>4, <1>5, <1>6 DEF Next, Work

(* A published release is never taken away, nor made a draft again.        *)
THEOREM PublicationStays == Spec => PublishedStays
<1>1. IInv /\ [Next]_vars => [\A r \in Tagged : releases'[r] = releases[r]]_vars
  <2>. SUFFICES ASSUME IInv, [Next]_vars, NEW r \in Tagged
                PROVE  releases'[r] = releases[r]
    OBVIOUS
  <2>1. /\ releases \in Seq(ReleaseState)
        /\ r \in DOMAIN releases /\ releases[r] \in {"public", "frozen"}
    BY Types DEF IInv, TypeForge, Tagged, Published
  <2>2. CASE pc = "delete" /\ releases' = [releases EXCEPT ![rel] = "gone"]
    BY <2>1, <2>2 DEF IInv, Existing
  <2>3. CASE releases' = Append(releases, "draft")
    BY <2>1, <2>3
  <2>4. CASE Undraft
    BY <2>1, <2>4 DEF Undraft
  <2>. QED
    BY <2>2, <2>3, <2>4, ReleaseSteps
<1>. QED
  BY <1>1, IInvHolds, PTL DEF Spec, PublishedStays

(* A release becomes public only by the step that publishes it, with every *)
(* artifact of the run in it, and never when a draft is asked for.         *)
THEOREM PublicationIsWhole ==
  ASSUME NamesApart
  PROVE  Spec => PublishedWhole
<1>. DEFINE Justified(r) ==
       \/ r \in Tagged
       \/ r \in Drafts /\ ~opts.draft /\ (opts.skipUpload \/ Whole(r))
<1>1. IInv /\ [Next]_vars =>
        [\A r \in DOMAIN releases' : releases'[r] \in Published => Justified(r)]_vars
  <2>. SUFFICES ASSUME IInv, [Next]_vars, NEW r \in DOMAIN releases',
                       releases'[r] \in Published
                PROVE  Justified(r)
    OBVIOUS
  <2>1. releases \in Seq(ReleaseState)
    BY Types DEF IInv, TypeForge
  <2>2. CASE releases' = releases
    BY <2>2 DEF Tagged
  <2>3. CASE releases' = [releases EXCEPT ![rel] = "gone"]
    BY <2>1, <2>3 DEF Tagged, Published
  <2>4. CASE releases' = Append(releases, "draft")
    BY <2>1, <2>4 DEF Tagged, Published
  <2>5. CASE pc = "publish" /\ ~opts.draft /\ Undraft
    <3>1. opts.skipUpload \/ Whole(rel)
      BY <2>5 DEF IInv, Uploads, AllUploaded, Stored, Has, Whole
    <3>2. r = rel \/ releases'[r] = releases[r]
      BY <2>1, <2>5 DEF Undraft
    <3>3. r \in DOMAIN releases /\ releases'[rel] # "gone"
      BY <2>1, <2>5 DEF Undraft, IInv, Existing, Working, FreshState
    <3>4. releases[rel] = "draft" \/ releases'[rel] = releases[rel]
      BY <2>1, <2>5 DEF Undraft
    <3>. QED
      BY <2>5, <3>1, <3>2, <3>3, <3>4 DEF Tagged, Drafts
  <2>. QED
    BY <2>2, <2>3, <2>4, <2>5, ReleaseSteps
<1>. QED
  BY <1>1, IInvHolds, PTL DEF Spec, PublishedWhole
-----------------------------------------------------------------------------
(* The way out of any trouble. The forge keeps one published release for   *)
(* the tag and one asset of a name in a release, and no asset is newer     *)
(* than this run.                                                          *)
OneTagged == \A r, s \in Tagged : r = s
NameOnce == \A a, b \in assets : a.rel = b.rel /\ a.name = b.name => a = b
Aged == \A a \in assets : a.run <= run /\ a.name = NameOf[a.of]
AtForge == OneTagged /\ NameOnce /\ Aged

(* What excuses a run without faults that fails: see CalmRunSucceeds.      *)
AlreadyOut == \E r \in Tagged : releases[r] = "frozen" \/ opts.useExisting
Occupied ==
  ~opts.replaceAssets /\ \E u \in Artifacts : \E a \in Found(rel, u) : a.run < run

(* While no request of this run was lost: a draft that is to be deleted is *)
(* there; the release it works on is the published one, if any is; its     *)
(* assets are those of the uploads that answered; and what an upload makes *)
(* room for stays free for it.                                             *)
Looks ==
  calm =>
    /\ pc = "delete" => releases[rel] = "draft"
    /\ pc = "create" /\ ~opts.useExisting => Tagged = {}
    /\ pc \in Working /\ ~opts.useExisting => Tagged \subseteq {rel}
    /\ result = "err" => AlreadyOut \/ Occupied
Own == calm => \A a \in assets : a.run = run => up[a.of].at = "ok"
MakesRoom(u) ==
  /\ up[u].at \in {"list", "delete", "again"} => opts.replaceAssets
  /\ up[u].at = "delete" => \E a \in Found(rel, u) : a.id = up[u].target
  /\ up[u].at = "again" => Found(rel, u) = {}
  /\ up[u].at = "failed" => Occupied
Clears == calm /\ pc = "upload" => \A u \in Artifacts : MakesRoom(u)

CalmInv == AtForge /\ Looks /\ Own /\ Clears

LEMMA InitCalm == Init => CalmInv
<1>. SUFFICES ASSUME Init PROVE CalmInv
  OBVIOUS
<1>1. OneTagged
  BY DEF Init, OneTagged, Tagged
<1>2. NameOnce /\ Aged /\ Own
  BY DEF Init, NameOnce, Aged, Own
<1>3. Looks /\ Clears
  BY DEF Init, Looks, Clears, Working
<1>. QED
  BY <1>1, <1>2, <1>3 DEF CalmInv, AtForge

(* What a step does to the assets.                                         *)
LEMMA AssetSteps ==
  ASSUME IInv, [Next]_vars
  PROVE  \/ assets' \subseteq assets /\ run' \in {run, run + 1}
         \/ \E u \in Artifacts : Store(u) /\ run' = run
<1>1. CASE Preflight \/ FindOldDraft \/ FindRelease \/ UpdateRelease \/ StartUploads
           \/ WaitUploads \/ Kill \/ CreateRelease \/ StartAgain
  BY <1>1 DEF Preflight, FindOldDraft, FindRelease, UpdateRelease, StartUploads,
              WaitUploads, Kill, CreateRelease, StartAgain, forge
<1>2. CASE DeleteOldDraft \/ PublishRelease
  BY <1>2 DEF DeleteOldDraft, Remove, PublishRelease, Undraft, forge
<1>3. ASSUME NEW u \in Artifacts, UploadStep(u)
      PROVE  run' = run /\ (assets' \subseteq assets \/ Store(u))
  BY <1>3 DEF UploadStep, BeginUpload, Uploaded, NameTaken, UploadLost, ListAssets,
              DeleteAsset, Discard, forge
<1>4. CASE UNCHANGED vars
  BY <1>4 DEF vars
<1>. QED
  BY <1>1, <1>2, <1>3, <1>4 DEF Next, Work

LEMMA ForgeKept == IInv /\ AtForge /\ [Next]_vars => AtForge'
<1>. SUFFICES ASSUME IInv, AtForge, [Next]_vars PROVE AtForge'
  OBVIOUS
<1>1. OneTagged'
  <2>0. releases \in Seq(ReleaseState) /\ OneTagged
    BY Types DEF IInv, TypeForge, AtForge
  <2>1. CASE releases' = releases
    BY <2>0, <2>1 DEF OneTagged, Tagged
  <2>2. CASE releases' = [releases EXCEPT ![rel] = "gone"]
    BY <2>0, <2>2 DEF OneTagged, Tagged, Published
  <2>3. CASE releases' = Append(releases, "draft")
    BY <2>0, <2>3 DEF OneTagged, Tagged, Published
  <2>4. CASE Undraft
    <3>1. \A r \in Tagged' : r \in Tagged \/ r = rel
      BY <2>0, <2>4 DEF Undraft, Tagged
    <3>. QED
      BY <3>1, <2>4 DEF Undraft, OneTagged
  <2>. QED
    BY <2>1, <2>2, <2>3, <2>4, ReleaseSteps
<1>2. NameOnce' /\ Aged'
  <2>0. run \in Nat /\ \A a \in assets : a.run <= run /\ a.run \in Nat
    BY Types, ReleaseAssumption DEF IInv, TypeRun, TypeForge, Asset, AtForge, Aged
  <2>1. CASE assets' \subseteq assets /\ run' \in {run, run + 1}
    BY <2>0, <2>1 DEF AtForge, NameOnce, Aged
  <2>2. CASE \E u \in Artifacts : Store(u) /\ run' = run
    <3>1. PICK u \in Artifacts : Store(u) /\ run' = run
      BY <2>2
    <3>. DEFINE new == [id |-> serial + 1, rel |-> rel, name |-> NameOf[u],
                        of |-> u, run |-> run]
    <3>2. assets' = assets \cup {new} /\ run' = run
      BY <3>1 DEF Store
    <3>3. \A a \in assets : ~(a.rel = rel /\ a.name = NameOf[u])
      BY <3>1 DEF Store, Found
    <3>4. NameOnce'
      BY <3>2, <3>3 DEF AtForge, NameOnce
    <3>5. Aged'
      BY <3>2, <2>0 DEF AtForge, Aged
    <3>. QED
      BY <3>4, <3>5
  <2>. QED
    BY <2>1, <2>2, AssetSteps
<1>. QED
  BY <1>1, <1>2 DEF AtForge

(* Steps of doPublish before and after the uploads. A fault makes the run  *)
(* one of which nothing is said.                                           *)
LEMMA FaultIsNoCalm == Fault => calm' = FALSE
BY DEF Fault

LEMMA EarlyCalm ==
  ASSUME IInv, CalmInv, Preflight \/ FindOldDraft \/ DeleteOldDraft \/ FindRelease
                        \/ CreateRelease \/ UpdateRelease \/ StartUploads
  PROVE  Looks' /\ Own' /\ Clears'
<1>0. /\ pc \in Early /\ \A u \in Artifacts : up[u].at = "idle"
      /\ run' = run /\ up' = up /\ opts' = opts /\ assets' \subseteq assets
      /\ result = "none" /\ releases \in Seq(ReleaseState)
  BY Types DEF IInv, Answer, TypeForge, IdleEarly, Early, Preflight, FindOldDraft, DeleteOldDraft, FindRelease,
         CreateRelease, UpdateRelease, StartUploads, Remove, forge
<1>1. CASE calm' # TRUE
  BY <1>1 DEF Looks, Own, Clears
<1>2. CASE calm' = TRUE
  <2>1. NoFault /\ calm = TRUE
    BY <1>2, FaultIsNoCalm DEF Preflight, FindOldDraft, DeleteOldDraft, FindRelease,
       CreateRelease, UpdateRelease, StartUploads, NoFault
  <2>2. \A a \in assets : a.of \in Artifacts
    BY Types DEF IInv, TypeForge, Asset
  <2>3. Own'
    BY <1>0, <2>1, <2>2 DEF CalmInv, Own
  <2>4. Clears'
    BY <1>0 DEF Clears, MakesRoom
  <2>5. Looks'
    <3>1. CASE Preflight
      BY <1>0, <1>2, <2>1, <3>1, FaultIsNoCalm
      DEF Preflight, Looks, GoTo, End, AlreadyOut, Tagged, forge, Working
    <3>2. CASE FindOldDraft
      BY <1>0, <1>2, <2>1, <3>2, FaultIsNoCalm
      DEF FindOldDraft, DraftsSeen, Drafts, Looks, GoTo, End, forge, Working
    <3>3. CASE DeleteOldDraft
      BY <1>0, <1>2, <2>1, <3>3, FaultIsNoCalm
      DEF DeleteOldDraft, CalmInv, Looks, GoTo, End, forge, Working
    <3>4. CASE FindRelease
      <4>1. CASE Seen = {} /\ GoTo("create")
        BY <1>0, <3>4, <4>1 DEF FindRelease, Seen, Looks, GoTo, Tagged, forge, Working
      <4>2. CASE rel' \in Seen /\ Refused(rel') /\ End("err")
        <5>1. rel' \in Tagged /\ releases[rel'] = "frozen"
          BY <4>2 DEF Seen, Drafts, Refused
        <5>2. AlreadyOut'
          BY <1>0, <3>4, <5>1 DEF FindRelease, AlreadyOut, Tagged, forge
        <5>. QED
          BY <4>2, <5>2 DEF End, Looks, Working
      <4>3. CASE rel' \in Seen /\ GoTo("update")
        <5>1. ~opts.useExisting => Tagged \subseteq {rel'}
          BY <4>3 DEF Seen, CalmInv, AtForge, OneTagged
        <5>. QED
          BY <1>0, <3>4, <4>3, <5>1 DEF FindRelease, Looks, GoTo, Tagged, forge, Working
      <4>. QED
        BY <1>2, <3>4, <4>1, <4>2, <4>3, FaultIsNoCalm DEF FindRelease
    <3>5. CASE CreateRelease
      <4>1. releases' = Append(releases, "draft") /\ GoTo("created") /\ pc = "create"
        BY <1>2, <3>5, FaultIsNoCalm DEF CreateRelease, StartState
      <4>2. Tagged' \subseteq Tagged
        BY <1>0, <4>1 DEF Tagged, Published
      <4>. QED
        BY <1>0, <2>1, <4>1, <4>2 DEF CalmInv, Looks, GoTo, Working
    <3>6. CASE UpdateRelease \/ StartUploads
      BY <1>0, <1>2, <2>1, <3>6, FaultIsNoCalm
      DEF UpdateRelease, StartUploads, CalmInv, Looks, GoTo, Tagged, forge, Working
    <3>. QED
      BY <3>1, <3>2, <3>3, <3>4, <3>5, <3>6
  <2>. QED
    BY <2>3, <2>4, <2>5
<1>. QED
  BY <1>1, <1>2

LEMMA LateCalm ==
  ASSUME IInv, CalmInv, WaitUploads \/ PublishRelease
  PROVE  Looks' /\ Own' /\ Clears'
<1>0. /\ run' = run /\ up' = up /\ opts' = opts /\ assets' = assets /\ rel' = rel
      /\ result = "none" /\ pc \in Working /\ releases \in Seq(ReleaseState)
  BY Types DEF IInv, TypeForge, Answer, WaitUploads, PublishRelease, Undraft, forge, Working
<1>1. CASE calm' # TRUE
  BY <1>1 DEF Looks, Own, Clears
<1>2. CASE calm' = TRUE
  <2>1. calm = TRUE
    BY <1>2, FaultIsNoCalm DEF WaitUploads, PublishRelease, NoFault
  <2>2. Own'
    BY <1>0, <2>1 DEF CalmInv, Own
  <2>3. pc' \in {"publish", "done"}
    BY <1>2, FaultIsNoCalm DEF WaitUploads, PublishRelease, GoTo, End
  <2>4. Looks'
    <3>1. CASE WaitUploads
      <4>1. releases' = releases /\ pc = "upload"
        BY <3>1 DEF WaitUploads, forge
      <4>2. CASE MayPublish
        BY <1>0, <2>1, <3>1, <4>1, <4>2
        DEF WaitUploads, GoTo, CalmInv, Looks, Tagged, Working
      <4>3. CASE ~MayPublish
        <5>1. PICK u \in Artifacts : up[u].at = "failed"
          BY <3>1, <4>3 DEF WaitUploads, AllAnswered, MayPublish
        <5>2. Occupied
          BY <2>1, <4>1, <5>1 DEF CalmInv, Clears, MakesRoom
        <5>3. Occupied'
          BY <1>0, <5>2 DEF Occupied, Found
        <5>. QED
          BY <3>1, <4>3, <5>3 DEF WaitUploads, End, Looks, Working
      <4>. QED
        BY <4>2, <4>3
    <3>2. CASE PublishRelease
      <4>0. pc' = "done"
        BY <1>2, <3>2, FaultIsNoCalm DEF PublishRelease, End
      <4>1. CASE End("ok")
        BY <4>0, <4>1 DEF End, Looks, Working
      <4>2. CASE ~(Tagged \subseteq {rel}) /\ UNCHANGED forge
        <5>1. opts.useExisting
          BY <1>0, <2>1, <3>2, <4>2 DEF CalmInv, Looks
        <5>2. AlreadyOut
          BY <4>2, <5>1 DEF AlreadyOut
        <5>3. AlreadyOut'
          BY <1>0, <4>2, <5>2 DEF AlreadyOut, Tagged, forge
        <5>. QED
          BY <4>0, <5>3 DEF Looks, Working
      <4>. QED
        BY <1>2, <3>2, <4>1, <4>2, FaultIsNoCalm DEF PublishRelease
    <3>. QED
      BY <3>1, <3>2
  <2>. QED
    BY <2>2, <2>3, <2>4 DEF Clears
<1>. QED
  BY <1>1, <1>2

LEMMA OutsideCalm ==
  ASSUME IInv, CalmInv, Kill \/ StartAgain \/ UNCHANGED vars
  PROVE  Looks' /\ Own' /\ Clears'
<1>1. CASE Kill
  BY <1>1, FaultIsNoCalm DEF Kill, Looks, Own, Clears
<1>2. CASE StartAgain
  <2>1. \A a \in assets' : a.run < run'
    <3>1. \A a \in assets : a.run \in Nat /\ a.run <= run
      BY Types, ReleaseAssumption DEF IInv, TypeForge, Asset, CalmInv, AtForge, Aged
    <3>. QED
      BY <1>2, <3>1, Types, ReleaseAssumption DEF StartAgain, forge, IInv, TypeRun
  <2>2. \A a \in assets' : a.run # run'
    BY <2>1, <1>2, Types, ReleaseAssumption DEF StartAgain, forge, IInv, TypeRun, TypeForge, Asset
  <2>. QED
    BY <1>2, <2>2 DEF StartAgain, Looks, Own, Clears, Working
<1>3. CASE UNCHANGED vars
  BY <1>3 DEF vars, CalmInv, Looks, Own, Clears, MakesRoom, Tagged, AlreadyOut, Occupied, Found
<1>. QED
  BY <1>1, <1>2, <1>3

(* Other uploads neither take a name of this one nor clear it.             *)
LEMMA OthersStay ==
  ASSUME NamesApart, IInv, CalmInv, calm = TRUE, UploadFrame, NEW u \in Artifacts,
         UNCHANGED forge \/ Store(u) \/ (up[u].at = "delete" /\ Discard(u))
  PROVE  /\ \A v \in Artifacts \ {u} : Found(rel, v)' = Found(rel, v)
         /\ Occupied => Occupied'
<1>1. CASE UNCHANGED forge
  BY <1>1 DEF forge, Found, Occupied, UploadFrame
<1>2. CASE Store(u)
  <2>. DEFINE new == [id |-> serial + 1, rel |-> rel, name |-> NameOf[u],
                      of |-> u, run |-> run]
  <2>1. assets' = assets \cup {new} /\ new.name = NameOf[u]
    BY <1>2 DEF Store
  <2>. HIDE DEF new
  <2>2. ASSUME NEW v \in Artifacts \ {u} PROVE Found(rel, v)' = Found(rel, v)
    <3>1. NameOf[v] # new.name
      BY <2>1, <2>2 DEF NamesApart
    <3>. QED
      BY <2>1, <3>1 DEF Found, UploadFrame
  <2>3. Occupied => Occupied'
    BY <2>1 DEF Occupied, Found, UploadFrame
  <2>. QED
    BY <2>2, <2>3
<1>3. CASE up[u].at = "delete" /\ Discard(u)
  <2>1. ASSUME NEW v \in Artifacts \ {u} PROVE Found(rel, v)' = Found(rel, v)
    <3>1. NameOf[v] # NameOf[u]
      BY <2>1 DEF NamesApart
    <3>2. \A a \in assets : a.id = up[u].target => a.name = NameOf[u]
      BY <1>3 DEF IInv, Targets
    <3>. QED
      BY <1>3, <3>1, <3>2 DEF Found, UploadFrame, Discard
  <2>2. ~Occupied
    BY <1>3 DEF CalmInv, Clears, MakesRoom, Occupied, UploadFrame
  <2>. QED
    BY <2>1, <2>2
<1>. QED
  BY <1>1, <1>2, <1>3

(* A step of one upload keeps what is said of calm runs, when the state it *)
(* moves to does.                                                          *)
LEMMA CalmAdvance ==
  ASSUME NamesApart, IInv, CalmInv, calm = TRUE, UploadFrame,
         NEW u \in Artifacts, up[u].at # "ok",
         NEW w \in UploadRecord(serial'), Moves(u, w),
         \/ UNCHANGED forge
         \/ Store(u) /\ w.at = "ok"
         \/ up[u].at = "delete" /\ Discard(u),
         w.at \in {"list", "delete", "again"} => opts.replaceAssets,
         w.at = "delete" => \E a \in Found(rel, u)' : a.id = w.target,
         w.at = "again" => Found(rel, u)' = {},
         w.at = "failed" => Occupied'
  PROVE  Looks' /\ Own' /\ Clears'
<1>1. serial' \in Nat /\ serial' >= serial
  BY Types DEF IInv, TypeForge, Store, Discard, forge
<1>2. up'[u] = w /\ \A v \in Artifacts \ {u} : up'[v] = up[v]
  BY <1>1, MovesType DEF IInv
<1>3. Looks'
  BY DEF CalmInv, Looks, UploadFrame, Tagged, IInv, Answer
<1>4. Own'
  <2>1. \A a \in assets : a.run = run => up[a.of].at = "ok" /\ a.of \in Artifacts
    BY Types DEF CalmInv, Own, IInv, TypeForge, Asset
  <2>2. \A a \in assets : a.run = run => up'[a.of].at = "ok"
    BY <1>2, <2>1
  <2>3. CASE assets' \subseteq assets
    BY <2>2, <2>3 DEF Own, UploadFrame
  <2>4. CASE Store(u) /\ w.at = "ok"
    <3>. DEFINE new == [id |-> serial + 1, rel |-> rel, name |-> NameOf[u],
                        of |-> u, run |-> run]
    <3>1. assets' = assets \cup {new} /\ new.of = u
      BY <2>4 DEF Store
    <3>. HIDE DEF new
    <3>. QED
      BY <1>2, <2>2, <2>4, <3>1 DEF Own, UploadFrame
  <2>. QED
    BY <2>3, <2>4 DEF Discard, forge
<1>5. Clears'
  <2>1. ASSUME NEW v \in Artifacts \ {u} PROVE MakesRoom(v)'
    <3>1. MakesRoom(v) /\ up'[v] = up[v]
      BY <1>2 DEF CalmInv, Clears, UploadFrame
    <3>2. Found(rel, v)' = Found(rel, v) /\ (Occupied => Occupied') /\ opts' = opts
      BY OthersStay DEF UploadFrame
    <3>. QED
      BY <3>1, <3>2 DEF MakesRoom
  <2>2. MakesRoom(u)'
    BY <1>2 DEF MakesRoom, UploadFrame
  <2>. QED
    BY <2>1, <2>2 DEF Clears
<1>. QED
  BY <1>3, <1>4, <1>5

LEMMA UploadCalm ==
  ASSUME NamesApart, IInv, CalmInv, NEW u \in Artifacts, UploadStep(u)
  PROVE  Looks' /\ Own' /\ Clears'
<1>0. UploadFrame /\ TypeOK
  BY UploadStepFrame DEF IInv
<1>1. CASE calm' # TRUE
  BY <1>1 DEF Looks, Own, Clears
<1>2. CASE calm' = TRUE
  <2>0. calm = TRUE
    BY <1>2, FaultIsNoCalm
    DEF UploadStep, BeginUpload, Uploaded, NameTaken, UploadLost, ListAssets,
        DeleteAsset, NoFault
  <2>1. MakesRoom(u) /\ pc = "upload"
    BY <1>0, <2>0 DEF CalmInv, Clears, UploadFrame
  <2>2. CASE BeginUpload(u)
    <3>1. Step(u, "post") /\ UNCHANGED forge /\ up[u].at = "idle"
      BY <2>2 DEF BeginUpload, InUpload
    <3>2. PICK w \in UploadRecord(serial) : Moves(u, w) /\ w.at = "post"
      BY <1>0, <3>1, StepMoves DEF UploadStates
    <3>. QED
      BY <1>0, <2>0, <3>1, <3>2, CalmAdvance DEF forge
  <2>3. CASE Uploaded(u)
    <3>1. Step(u, "ok") /\ Store(u) /\ up[u].at \in {"post", "again"}
      BY <2>3 DEF Uploaded, InUpload
    <3>2. PICK w \in UploadRecord(serial) : Moves(u, w) /\ w.at = "ok"
      BY <1>0, <3>1, StepMoves DEF UploadStates
    <3>3. w \in UploadRecord(serial')
      BY <1>0, <3>1, <3>2, UploadTypes DEF UploadRecord, Store
    <3>. QED
      BY <1>0, <2>0, <3>1, <3>2, <3>3, CalmAdvance
  <2>4. CASE NameTaken(u)
    <3>1. /\ up[u].at = "post" /\ UNCHANGED forge /\ Found(rel, u) # {}
          /\ IF opts.replaceAssets THEN Step(u, "list") ELSE Step(u, "failed")
      BY <2>1, <2>4 DEF NameTaken, InUpload, OnTaken, MakesRoom
    <3>2. CASE opts.replaceAssets
      <4>1. PICK w \in UploadRecord(serial) : Moves(u, w) /\ w.at = "list"
        BY <1>0, <3>1, <3>2, StepMoves DEF UploadStates
      <4>. QED
        BY <1>0, <2>0, <3>1, <3>2, <4>1, CalmAdvance DEF forge
    <3>3. CASE ~opts.replaceAssets
      <4>1. PICK w \in UploadRecord(serial) : Moves(u, w) /\ w.at = "failed"
        BY <1>0, <3>1, <3>3, StepMoves DEF UploadStates
      <4>2. PICK a \in Found(rel, u) : TRUE
        BY <3>1
      <4>3. a \in assets /\ a.of \in Artifacts /\ a.name = NameOf[u]
        BY <1>0, Types DEF Found, TypeForge, Asset
      <4>4. a.of = u
        BY <4>3 DEF CalmInv, AtForge, Aged, NamesApart
      <4>5. a.run # run
        BY <2>0, <3>1, <4>3, <4>4 DEF CalmInv, Own
      <4>6. a.run < run
        BY <1>0, <4>3, <4>5, Types, ReleaseAssumption
        DEF CalmInv, AtForge, Aged, TypeForge, TypeRun, Asset
      <4>7. Occupied'
        BY <1>0, <3>1, <3>3, <4>2, <4>6 DEF Occupied, Found, UploadFrame, forge
      <4>. QED
        BY <1>0, <2>0, <3>1, <4>1, <4>7, CalmAdvance DEF forge
    <3>. QED
      BY <3>2, <3>3
  <2>5. CASE ListAssets(u)
    <3>0. UNCHANGED forge /\ up[u].at = "list" /\ opts.replaceAssets
      BY <2>1, <2>5 DEF ListAssets, InUpload, MakesRoom
    <3>1. CASE \E a \in Found(rel, u) :
                 up' = [up EXCEPT ![u].at = "delete", ![u].target = a.id]
      <4>1. PICK a \in Found(rel, u) :
                   up' = [up EXCEPT ![u].at = "delete", ![u].target = a.id]
        BY <3>1
      <4>. DEFINE w == [up[u] EXCEPT !.at = "delete", !.target = a.id]
      <4>2. a.id \in 0..serial /\ a \in Found(rel, u)'
        BY <1>0, <3>0, Types DEF Found, TypeForge, Asset, UploadFrame, forge
      <4>3. w \in UploadRecord(serial) /\ w.at = "delete" /\ w.target = a.id
        BY <1>0, <4>2, UploadTypes DEF UploadRecord, UploadStates
      <4>4. Moves(u, w)
        BY <1>0, <4>1, Types DEF Moves, TypeUp
      <4>. HIDE DEF w
      <4>. QED
        BY <1>0, <2>0, <3>0, <4>2, <4>3, <4>4, CalmAdvance DEF forge
    <3>2. CASE Found(rel, u) = {} /\ Step(u, "again")
      <4>1. PICK w \in UploadRecord(serial) : Moves(u, w) /\ w.at = "again"
        BY <1>0, <3>2, StepMoves DEF UploadStates
      <4>2. Found(rel, u)' = {}
        BY <1>0, <3>0, <3>2 DEF Found, UploadFrame, forge
      <4>. QED
        BY <1>0, <2>0, <3>0, <4>1, <4>2, CalmAdvance DEF forge
    <3>. QED
      BY <1>2, <2>5, <3>1, <3>2, FaultIsNoCalm DEF ListAssets
  <2>6. CASE DeleteAsset(u)
    <3>1. /\ up[u].at = "delete" /\ Discard(u) /\ Step(u, "again")
          /\ opts.replaceAssets
      BY <1>2, <2>1, <2>6, FaultIsNoCalm
      DEF DeleteAsset, InUpload, MakesRoom, Found
    <3>2. PICK w \in UploadRecord(serial) : Moves(u, w) /\ w.at = "again"
      BY <1>0, <3>1, StepMoves DEF UploadStates
    <3>3. PICK a \in Found(rel, u) : a.id = up[u].target
      BY <2>1, <3>1 DEF MakesRoom
    <3>4. Found(rel, u) = {a}
      BY <3>3 DEF Found, CalmInv, AtForge, NameOnce
    <3>5. Found(rel, u)' = {}
      BY <1>0, <3>1, <3>3, <3>4 DEF Found, UploadFrame, Discard
    <3>. QED
      BY <1>0, <2>0, <3>1, <3>2, <3>5, CalmAdvance DEF Discard
  <2>7. ~UploadLost(u)
    BY <1>2, FaultIsNoCalm DEF UploadLost
  <2>. QED
    BY <2>2, <2>3, <2>4, <2>5, <2>6, <2>7 DEF UploadStep
<1>. QED
  BY <1>1, <1>2

(* A run that meets no fault itself succeeds, whatever earlier runs left   *)
(* behind, unless the tag is out and cannot be changed, or an asset is     *)
(* there that must not be replaced.                                        *)
THEOREM CalmMeansSuccess ==
  ASSUME NamesApart
  PROVE  Spec => []CalmRunSucceeds
<1>1. IInv /\ CalmInv /\ [Next]_vars => CalmInv'
  <2>. SUFFICES ASSUME IInv, CalmInv, [Next]_vars PROVE CalmInv'
    OBVIOUS
  <2>1. AtForge'
    BY ForgeKept DEF CalmInv
  <2>2. Looks' /\ Own' /\ Clears'
    BY EarlyCalm, LateCalm, OutsideCalm, UploadCalm DEF Next, Work
  <2>. QED
    BY <2>1, <2>2 DEF CalmInv
<1>2. CalmInv => CalmRunSucceeds
  BY DEF CalmInv, Looks, AlreadyOut, Occupied, CalmRunSucceeds
<1>. QED
  BY <1>1, <1>2, InitCalm, IInvHolds, PTL DEF Spec
=============================================================================
