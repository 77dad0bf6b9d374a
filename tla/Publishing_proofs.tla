------------------------- MODULE Publishing_proofs -------------------------
(***************************************************************************)
(* What a release leaves outside comes from a run that was validated and   *)
(* was to publish, in whatever order publishers fail, the program is       *)
(* stopped and the release run again; and what it leaves in the            *)
(* repositories of taps is sound: of archives that are assets of the       *)
(* release, one for each platform, complete for each pull request, and     *)
(* nothing of a tap that is not to be uploaded.                            *)
(*                                                                         *)
(* For any scenarios: any configuration, artifacts, flags and history.     *)
(***************************************************************************)
EXTENDS Publishing, FiniteSetTheorems, WellFoundedInduction, SequenceTheorems, TLAPS

(* Every set of numbers that is not empty has a least one.                 *)
LEMMA Least == \A T \in SUBSET Nat : T # {} => \E m \in T : \A n \in T : m <= n
<1>. SUFFICES ASSUME NEW T \in SUBSET Nat, T # {} PROVE \E m \in T : \A n \in T : m <= n
  OBVIOUS
<1>. DEFINE C == {0..n : n \in T}
<1>1. C \subseteq FiniteSubsetsOf(Nat) /\ C # {}
  <2>1. ASSUME NEW n \in T PROVE 0..n \in FiniteSubsetsOf(Nat)
    <3>1. IsFiniteSet(0..n)
      BY FS_Interval
    <3>2. 0..n \subseteq Nat
      OBVIOUS
    <3>. QED
      BY <3>1, <3>2 DEF FiniteSubsetsOf
  <2>. QED
    BY <2>1
<1>2. PICK x \in C : \A y \in C : <<y, x>> \notin StrictSubsetOrdering(Nat)
  BY <1>1, FS_StrictSubsetOrderingWellFounded, WFMin
<1>3. PICK m \in T : x = 0..m
  OBVIOUS
<1>4. ASSUME NEW n \in T PROVE m <= n
  <2>1. 0..n \in C /\ 0..n \subseteq Nat /\ 0..m \subseteq Nat
    OBVIOUS
  <2>2. ~(0..n \subseteq 0..m /\ 0..n # 0..m)
    BY <1>2, <1>3, <2>1 DEF StrictSubsetOrdering
  <2>3. CASE n < m
    <3>1. 0..n \subseteq 0..m /\ m \in 0..m /\ m \notin 0..n
      BY <2>3
    <3>. QED
      BY <2>2, <3>1
  <2>. QED
    BY <2>3
<1>. QED
  BY <1>4
-----------------------------------------------------------------------------
(* The stages, one by one.                                                 *)
Long(P, s, m) == s \in Seq(P) /\ m \in Nat /\ Len(s) = m
Joins(s, t, q, m, n) == (\A i \in 1..m : q[i] = s[i]) /\ (\A i \in 1..n : q[m + i] = t[i])

(* A sequence after another keeps the places of both.                      *)
LEMMA Joined ==
  \A P, s, t, m, n : Long(P, s, m) /\ Long(P, t, n) => Long(P, s \o t, m + n) /\ Joins(s, t, s \o t, m, n)
<1>. SUFFICES ASSUME NEW P, NEW s, NEW t, NEW m, NEW n, Long(P, s, m), Long(P, t, n)
              PROVE  Long(P, s \o t, m + n) /\ Joins(s, t, s \o t, m, n)
  OBVIOUS
<1>. DEFINE q == s \o t
<1>0. s \in Seq(P) /\ t \in Seq(P) /\ m \in Nat /\ n \in Nat /\ Len(s) = m /\ Len(t) = n
  BY DEF Long
<1>1. q \in Seq(P) /\ Len(q) = m + n /\ \A i \in 1..(m + n) : q[i] = IF i <= m THEN s[i] ELSE t[i - m]
  BY <1>0, ConcatProperties
<1>. HIDE DEF q
<1>2. ASSUME NEW i \in 1..m PROVE q[i] = s[i]
  BY ONLY <1>1, <1>0, i \in 1..m
<1>3. ASSUME NEW i \in 1..n PROVE q[m + i] = t[i]
  <2>1. m + i \in 1..(m + n) /\ ~(m + i <= m) /\ (m + i) - m = i
    BY ONLY <1>0, i \in 1..n
  <2>. QED
    BY ONLY <1>1, <2>1
<1>4. Joins(s, t, q, m, n)
  BY ONLY <1>2, <1>3 DEF Joins
<1>5. Long(P, q, m + n)
  BY ONLY <1>0, <1>1 DEF Long
<1>. QED
  BY <1>4, <1>5 DEF q

(* The pipes that run before publishing, and the publishers.               *)
LEMMA Tables ==
  /\ Len(Running) = 12 /\ DOMAIN Running = 1..12
  /\ Len(PublishPipeline) = 24 /\ DOMAIN PublishPipeline = 1..24
BY DEF Running, PublishPipeline

(* setup, the pipes, the publishers, and what comes after them.            *)
LEMMA StageList ==
  /\ Len(Stages) = 39
  /\ Stages[1] = <<"run", "setup">>
  /\ \A i \in 1..12 : Stages[1 + i] = <<"run", Running[i]>>
  /\ \A i \in 1..24 : Stages[13 + i] = <<"publish", PublishPipeline[i]>>
  /\ Stages[38] = <<"run", "metadata.Artifacts">>
  /\ Stages[39] = <<"run", "announce">>
<1>. DEFINE A == <<<<"run", "setup">>>>
            R == [i \in DOMAIN Running |-> <<"run", Running[i]>>]
            Q == [i \in DOMAIN PublishPipeline |-> <<"publish", PublishPipeline[i]>>]
            Z == <<<<"run", "metadata.Artifacts">>, <<"run", "announce">>>>
            P == {A[1], Z[1], Z[2]} \cup {R[i] : i \in 1..12} \cup {Q[i] : i \in 1..24}
<1>1. A \in Seq(P) /\ Z \in Seq(P) /\ Len(A) = 1 /\ Len(Z) = 2
  <2>1. <<"run", "setup">> \in P /\ <<"run", "metadata.Artifacts">> \in P /\ <<"run", "announce">> \in P
    OBVIOUS
  <2>. HIDE DEF P
  <2>. QED
    BY <2>1
<1>2. R \in Seq(P) /\ Len(R) = 12 /\ \A i \in 1..12 : R[i] = <<"run", Running[i]>>
  BY Tables
<1>3. Q \in Seq(P) /\ Len(Q) = 24 /\ \A i \in 1..24 : Q[i] = <<"publish", PublishPipeline[i]>>
  BY Tables
<1>4. Stages = ((A \o R) \o Q) \o Z
  BY DEF Stages
<1>5. A[1] = <<"run", "setup">> /\ Z[1] = <<"run", "metadata.Artifacts">> /\ Z[2] = <<"run", "announce">>
  OBVIOUS
<1>. HIDE DEF A, R, Q, Z, P
<1>6. Long(P, A, 1) /\ Long(P, R, 12) /\ Long(P, Q, 24) /\ Long(P, Z, 2)
  BY ONLY <1>1, <1>2, <1>3 DEF Long
<1>7. Long(P, A \o R, 1 + 12) /\ Joins(A, R, A \o R, 1, 12)
  BY ONLY <1>6, Joined
<1>. DEFINE B == A \o R
<1>. HIDE DEF B
<1>8. Long(P, B, 13) /\ Joins(A, R, B, 1, 12)
  BY ONLY <1>7 DEF B
<1>9. Long(P, B \o Q, 13 + 24) /\ Joins(B, Q, B \o Q, 13, 24)
  BY ONLY <1>6, <1>8, Joined
<1>. DEFINE C == B \o Q
<1>. HIDE DEF C
<1>10. Long(P, C, 37) /\ Joins(B, Q, C, 13, 24)
  BY ONLY <1>9 DEF C
<1>11. Long(P, C \o Z, 37 + 2) /\ Joins(C, Z, C \o Z, 37, 2)
  BY ONLY <1>6, <1>10, Joined
<1>. DEFINE S == C \o Z
<1>. HIDE DEF S
<1>12. Len(S) = 39 /\ S[38] = Z[1] /\ S[39] = Z[2] /\ \A i \in 1..37 : S[i] = C[i]
  <2>1. Len(S) = 37 + 2 /\ (\A i \in 1..37 : S[i] = C[i]) /\ \A i \in 1..2 : S[37 + i] = Z[i]
    BY ONLY <1>11 DEF S, Long, Joins
  <2>2. S[37 + 1] = Z[1] /\ S[37 + 2] = Z[2]
    BY ONLY <2>1
  <2>. QED
    BY ONLY <2>1, <2>2
<1>13. (\A i \in 1..13 : C[i] = B[i]) /\ \A i \in 1..24 : C[13 + i] = Q[i]
  BY ONLY <1>10 DEF Joins
<1>14. B[1] = A[1] /\ \A i \in 1..12 : B[1 + i] = R[i]
  BY ONLY <1>8 DEF Joins
<1>15. S[1] = A[1] /\ \A i \in 1..12 : S[1 + i] = R[i]
  BY ONLY <1>12, <1>13, <1>14
<1>16. \A i \in 1..24 : S[13 + i] = Q[i]
  BY ONLY <1>12, <1>13
<1>17. S = Stages
  BY <1>4 DEF S, C, B
<1>. QED
  BY ONLY <1>2, <1>3, <1>5, <1>12, <1>15, <1>16, <1>17

(* What is not a publisher, but for the setup.                             *)
Prepared == Kinds \cup {"docker", "dockerv2.Snapshot", "ko"}
Between == Prepared \cup {"setup", "metadata.Artifacts", "announce"}

LEMMA RunningPipes == \A i \in 1..12 : Running[i] \in Prepared
BY DEF Running, Prepared, Kinds

(* The setup comes first; the taps are published after the release.        *)
LEMMA Publishers ==
  \A i \in 1..24 :
    /\ PublishPipeline[i] # "setup"
    /\ PublishPipeline[i] \in Kinds => i > 12
    /\ PublishPipeline[i] = "release" <=> i = 12
BY DEF PublishPipeline, Kinds

LEMMA StageNames ==
  ASSUME stage \in 1..39
  PROVE  /\ Setting <=> stage = 1
         /\ ~Publishes => Pipe \in Between
         /\ Publishes => stage \in 14..37
         /\ Tapping => stage > 25
         /\ Publishes /\ Pipe = "release" <=> stage = 25
<1>. USE DEF Now, Pipe, Publishes, Setting
<1>1. CASE stage = 1
  BY <1>1, StageList DEF Between, Tapping
<1>2. CASE stage \in 2..13
  <2>1. PICK i \in 1..12 : stage = 1 + i
    <3>1. stage - 1 \in 1..12 /\ stage = 1 + (stage - 1)
      BY <1>2
    <3>. QED
      BY <3>1
  <2>2. Stages[stage] = <<"run", Running[i]>> /\ Running[i] \in Prepared
    BY <2>1, StageList, RunningPipes
  <2>. QED
    BY <1>2, <2>2 DEF Between, Prepared, Kinds, Tapping
<1>3. CASE stage \in 14..37
  <2>1. PICK i \in 1..24 : stage = 13 + i
    <3>1. stage - 13 \in 1..24 /\ stage = 13 + (stage - 13)
      BY <1>3
    <3>. QED
      BY <3>1
  <2>2. Stages[stage] = <<"publish", PublishPipeline[i]>>
    BY <2>1, StageList
  <2>3. /\ PublishPipeline[i] # "setup"
        /\ PublishPipeline[i] \in Kinds => i > 12
        /\ PublishPipeline[i] = "release" <=> i = 12
    BY Publishers
  <2>. QED
    BY <1>3, <2>1, <2>2, <2>3 DEF Tapping
<1>4. CASE stage \in {38, 39}
  BY <1>4, StageList DEF Between, Tapping
<1>. QED
  BY <1>1, <1>2, <1>3, <1>4
-----------------------------------------------------------------------------
(* A step of a job changes that job, or ends it and perhaps the others; it *)
(* leaves the stage and what the setup found out.                          *)
Flow(j) ==
  /\ UNCHANGED <<stage, at, memo, result>>
  /\ \A k \in todo' : k \in todo \/ \E left, phase : k = [j EXCEPT !.left = left, !.phase = phase]

LEMMA Flows ==
  ASSUME NEW j \in todo
  PROVE  /\ Done(j) => Flow(j)
         /\ \A left, phase : Proceeds(j, left, phase) => Flow(j)
         /\ \A why : Breaks(j, why) => Flow(j)
         /\ \A why : Refused(j, why) => Flow(j)
         /\ \A step : Unfortunate(j, step) => Flow(j)
         /\ \A step : Shrugged(j, step) => Flow(j)
         /\ Retries(j) => Flow(j)
<1>1. Done(j) => Flow(j)
  BY DEF Done, Flow, outcome
<1>2. ASSUME NEW left, NEW phase, Proceeds(j, left, phase) PROVE Flow(j)
  BY <1>2 DEF Proceeds, Flow, outcome
<1>3. ASSUME NEW why, Breaks(j, why) PROVE Flow(j)
  BY <1>3 DEF Breaks, Flow
<1>4. ASSUME NEW why, Refused(j, why) PROVE Flow(j)
  BY <1>3, <1>4 DEF Refused
<1>5. ASSUME NEW step, Unfortunate(j, step) PROVE Flow(j)
  BY <1>3, <1>5 DEF Unfortunate
<1>6. ASSUME NEW step, Shrugged(j, step) PROVE Flow(j)
  BY <1>6 DEF Shrugged, Flow
<1>7. Retries(j) => Flow(j)
  BY DEF Retries, Flow, place
<1>. QED
  BY <1>1, <1>2, <1>3, <1>4, <1>5, <1>6, <1>7

(* Only publishers and announcers leave traces, and only those of taps in  *)
(* their repositories.                                                     *)
Basis == <<cfg, tools, world, ctx, built, run>>
Checkouts == <<clones, remote, pulls>>
Outside == <<remote, pulls, sent, apps, released, signatures, announced>>
Framed(j) ==
  /\ UNCHANGED Basis /\ Flow(j)
  /\ ~Tapping => UNCHANGED Checkouts
  /\ Publishes \/ Pipe = "announce" \/ UNCHANGED Outside

LEMMA TapFrame == ASSUME NEW j \in todo, TapStep(j) PROVE Framed(j)
<1>. USE Flows DEF Framed, Basis, Checkouts, Outside, fixed, dist, forges, stores, records
<1>1. CASE Make(j)
  BY <1>1 DEF Make, Tapping
<1>2. CASE StartUnit(j)
  BY <1>2 DEF StartUnit, Tapping
<1>3. CASE PushPackage(j)
  BY <1>3 DEF PushPackage, Tapping
<1>4. CASE OpenClone(j)
  BY <1>4 DEF OpenClone, Tapping
<1>5. CASE Checkout(j)
  BY <1>5 DEF Checkout, Tapping
<1>6. CASE Commit(j)
  BY <1>6 DEF Commit, Tapping
<1>7. CASE Push(j)
  BY <1>7 DEF Push, Tapping
<1>8. ASSUME NEW p \in j.left, CreateFile(j, p) PROVE Framed(j)
  BY <1>8 DEF CreateFile, Tapping, Afterwards
<1>9. CASE OpenPullRequest(j)
  BY <1>9 DEF OpenPullRequest, Tapping
<1>. QED
  BY <1>1, <1>2, <1>3, <1>4, <1>5, <1>6, <1>7, <1>8, <1>9 DEF TapStep

LEMMA ImageFrame ==
  ASSUME stage \in 1..39, NEW j \in todo, ImageStep(j)
  PROVE  Framed(j) /\ UNCHANGED <<dist, Checkouts, released>>
<1>. USE Flows, StageNames DEF Framed, Basis, Checkouts, Outside, fixed, dist, forges, stores, records, Local, Quiet
<1>1. CASE BuildImage(j)
  BY <1>1 DEF BuildImage
<1>2. CASE PushImage(j)
  BY <1>2 DEF PushImage
<1>3. CASE PushManifest(j)
  BY <1>3 DEF PushManifest
<1>4. CASE BuildPush(j)
  BY <1>4 DEF BuildPush
<1>5. CASE KoBuild(j)
  BY <1>5 DEF KoBuild
<1>6. ASSUME NEW name \in j.left, CopyImage(j, name) PROVE Framed(j) /\ UNCHANGED <<dist, Checkouts, released>>
  BY <1>6 DEF CopyImage
<1>7. CASE WriteDigests(j)
  BY <1>7 DEF WriteDigests
<1>8. CASE SignImages(j)
  BY <1>8 DEF SignImages, Between, Prepared, Kinds
<1>9. CASE PushSnap(j)
  BY <1>9 DEF PushSnap, Between, Prepared, Kinds
<1>. QED
  BY <1>1, <1>2, <1>3, <1>4, <1>5, <1>6, <1>7, <1>8, <1>9 DEF ImageStep

LEMMA UploadFrame ==
  ASSUME stage \in 1..39, NEW j \in todo, UploadStep(j)
  PROVE  Framed(j) /\ UNCHANGED <<manifests, Checkouts>> /\ (UNCHANGED files \/ Pipe = "metadata.Artifacts")
<1>. USE Flows, StageNames DEF Framed, Basis, Checkouts, Outside, fixed, dist, forges, stores, records, Elsewhere,
       Sending, Between, Prepared, Kinds
<1>1. CASE Deliver(j)
  BY <1>1 DEF Deliver
<1>2. CASE Refuse(j)
  BY <1>2 DEF Refuse
<1>3. CASE UploadFile(j)
  BY <1>3 DEF UploadFile
<1>4. CASE CreateApp(j)
  BY <1>4 DEF CreateApp
<1>5. CASE UpdateApp(j)
  BY <1>5 DEF UpdateApp
<1>6. CASE Release(j)
  BY <1>6 DEF Release
<1>7. CASE writeArtifacts(j)
  BY <1>7 DEF writeArtifacts
<1>8. CASE PublishServer(j)
  BY <1>8 DEF PublishServer
<1>9. CASE CloseMilestone(j)
  BY <1>9 DEF CloseMilestone
<1>10. CASE StartAnnouncing(j)
  BY <1>10 DEF StartAnnouncing
<1>11. CASE Request(j)
  BY <1>11 DEF Request
<1>. QED
  BY <1>1, <1>2, <1>3, <1>4, <1>5, <1>6, <1>7, <1>8, <1>9, <1>10, <1>11 DEF UploadStep
-----------------------------------------------------------------------------
(* A stage works only when it is not skipped, with what the setup found    *)
(* out, and only when the setup found nothing wrong.                       *)
Control ==
  /\ stage \in 1..39 /\ world.command = "release"
  /\ stage = 1 => todo = {}
  /\ stage = 1 \/ Skipped => at = 0
  /\ stage # 1 => ctx = Context(world, cfg) /\ ~SetupErrs(world, cfg, Used)
  /\ todo # {} => ~Skipped

(* ko, when it is not publishing, works for a snapshot, which stays with   *)
(* the local daemon: it has no copies to make.                             *)
AtKo == Pipe = "ko" /\ ~Publishes
NoCopies == AtKo => \A j \in todo : j.phase = "start"

LeavesInv == Control /\ NoCopies /\ OnlyValidatedLeaves

LEMMA SnapshotStays ==
  ASSUME Control, NoCopies, AtKo, NEW j \in todo, TapStep(j) \/ ImageStep(j) \/ UploadStep(j)
  PROVE  UNCHANGED registry /\ todo' \subseteq todo
<1>1. ctx.snapshot
  BY DEF Control, AtKo, Skipped
<1>2. ~TapStep(j)
  BY DEF AtKo, TapStep, Make, Kinds, StartUnit, PushPackage, OpenClone, Checkout, Commit, Push, CreateFile,
    OpenPullRequest, Tapping
<1>3. ~UploadStep(j)
  BY DEF AtKo, UploadStep, Deliver, Refuse, UploadFile, CreateApp, UpdateApp, Release, writeArtifacts,
    PublishServer, CloseMilestone, StartAnnouncing, Request
<1>4. KoBuild(j)
  BY <1>2, <1>3 DEF AtKo, NoCopies, ImageStep, BuildImage, PushImage, PushManifest, BuildPush, CopyImage,
    WriteDigests, SignImages, PushSnap
<1>. QED
  BY <1>1, <1>4 DEF KoBuild, Done, Unfortunate, Breaks

LEMMA RegistryFrame ==
  ASSUME Control, NoCopies, NEW j \in todo, TapStep(j) \/ ImageStep(j) \/ UploadStep(j)
  PROVE  Publishes \/ UNCHANGED registry
<1>. SUFFICES ASSUME ~Publishes, ~AtKo PROVE UNCHANGED registry
  BY SnapshotStays
<1>1. CASE TapStep(j)
  BY <1>1 DEF TapStep, Make, StartUnit, PushPackage, OpenClone, Checkout, Commit, Push, CreateFile,
    OpenPullRequest, stores
<1>2. CASE ImageStep(j)
  <2>1. Pipe # "docker.Manifest"
    BY StageNames DEF Control, Between, Prepared, Kinds
  <2>. QED
    BY <1>2, <2>1 DEF ImageStep, BuildImage, PushImage, PushManifest, BuildPush, KoBuild, CopyImage, AtKo,
      WriteDigests, SignImages, PushSnap
<1>3. CASE UploadStep(j)
  BY <1>3 DEF UploadStep, Deliver, Refuse, UploadFile, CreateApp, UpdateApp, Release, writeArtifacts,
    PublishServer, CloseMilestone, StartAnnouncing, Request, Elsewhere, stores
<1>. QED
  BY <1>1, <1>2, <1>3

LEMMA Leaves == OnlyValidatedLeaves <=> (Traces => Validated)
BY DEF OnlyValidatedLeaves

(* What is at work publishing or announcing has been validated.            *)
LEMMA ValidatedAtWork ==
  ASSUME Control, todo # {}, Publishes \/ Pipe = "announce"
  PROVE  Validated /\ stage # 1 /\ ~Skipped
<1>1. stage # 1 /\ ~Skipped /\ world.command = "release"
  BY DEF Control
<1>2. /\ ctx.skips = setupReleaseContext(world)
      /\ ~ErrNoTag(world) /\ validate(world)
  <2>1. ctx = Context(world, cfg) /\ ~SetupErrs(world, cfg, Used)
    BY <1>1 DEF Control
  <2>2. ctx.skips = Skips(world)
    BY <2>1 DEF Context
  <2>3. ~ErrNoTag(world) /\ validate(world)
    BY <2>1 DEF SetupErrs
  <2>. QED
    BY <1>1, <2>2, <2>3 DEF Skips
<1>3. "publish" \notin ctx.skips \/ "announce" \notin ctx.skips
  BY <1>1 DEF Skipped, Unskippable, SkipKeyOf
<1>4. ~impliedSnapshot(world) /\ "publish" \notin world.skips
  BY <1>2, <1>3 DEF setupReleaseContext
<1>5. "validate" \in world.skips \/ (~world.dirty /\ AtHead(world, getInfo(world)))
  BY <1>1, <1>2, <1>4 DEF validate, Skips, setupReleaseContext
<1>6. getInfo(world) = getTag(world)
  BY <1>2, <1>4 DEF ErrNoTag, getInfo
<1>. QED
  BY <1>1, <1>4, <1>5, <1>6 DEF Validated

LEMMA InitLeaves == Init => LeavesInv
<1>. SUFFICES ASSUME Init PROVE LeavesInv
  OBVIOUS
<1>1. Control
  <2>1. PICK s \in Scenarios : world = s.world
    BY DEF Init
  <2>2. world.command = "release"
    BY <2>1, PublishingAssumption
  <2>. QED
    BY <2>2 DEF Init, Control
<1>2. Committed = {}
  BY DEF Init, Committed, Trees
<1>3. \A x \in registry : x[2][3] = 0
  BY PublishingAssumption DEF Init
<1>4. NoCopies
  BY DEF Init, NoCopies
<1>. QED
  BY <1>1, <1>2, <1>3, <1>4 DEF Init, LeavesInv, OnlyValidatedLeaves, Traces

(* What is skipped depends on the stage and what the setup found out.      *)
LEMMA SkippedStays == UNCHANGED <<Basis, stage>> => (Skipped <=> Skipped')
BY DEF Basis, Skipped, Pipe, Publishes, Now

LEMMA WorldStays == UNCHANGED world => (Validated <=> Validated')
BY DEF Validated

LEMMA TracesStay == UNCHANGED <<Outside, registry>> => (Traces <=> Traces')
BY DEF Outside, Traces, Committed, Trees

LEMMA AtKoStays == UNCHANGED stage => (AtKo <=> AtKo')
BY DEF AtKo, Pipe, Publishes, Now

LEMMA LeavesStay ==
  ASSUME LeavesInv, Control', NoCopies', UNCHANGED <<world, Outside, registry>>
  PROVE  LeavesInv'
<1>1. (Validated <=> Validated') /\ (Traces <=> Traces')
  BY WorldStays, TracesStay
<1>2. OnlyValidatedLeaves' <=> (Traces' => Validated')
  BY DEF OnlyValidatedLeaves, Traces, Validated
<1>. QED
  BY <1>1, <1>2, Leaves DEF LeavesInv

(* A stage begins when it is not skipped.                                  *)
LEMMA BeginLeaves == ASSUME LeavesInv, Begin PROVE LeavesInv'
<1>1. UNCHANGED <<Basis, Outside, registry, stage>>
  BY DEF Begin, Basis, Outside, fixed, forges, stores, records
<1>2. stage # 1 /\ ~Skipped
  <2>1. ~Setting /\ at < Number /\ (Skipped => at = 0) /\ stage \in 1..39
    BY DEF Begin, LeavesInv, Control
  <2>. QED
    BY <2>1, StageNames DEF Number
<1>3. Control'
  BY <1>1, <1>2, SkippedStays DEF Control, LeavesInv, Basis, Used
<1>4. NoCopies'
  <2>1. CASE Publishes
    BY <1>1, <2>1, AtKoStays DEF NoCopies, AtKo
  <2>2. CASE ~Publishes
    <3>1. \A i : JobsOf(i) = {Job(i, {}, "start")}
      BY <2>2 DEF JobsOf, Alone
    <3>. QED
      BY <3>1 DEF Begin, NoCopies, Job
  <2>. QED
    BY <2>1, <2>2
<1>. QED
  BY <1>1, <1>3, <1>4, LeavesStay DEF Basis

LEMMA StepLeaves == ASSUME LeavesInv, Step PROVE LeavesInv'
<1>1. PICK j \in todo : TapStep(j) \/ ImageStep(j) \/ UploadStep(j)
  BY DEF Step
<1>2. Control /\ stage \in 1..39 /\ todo # {} /\ stage # 1
  BY <1>1 DEF LeavesInv, Control
<1>3. Framed(j)
  BY <1>1, <1>2, TapFrame, ImageFrame, UploadFrame
<1>4. UNCHANGED <<Basis, stage, at>>
  BY <1>3 DEF Framed, Flow
<1>5. Control'
  BY <1>2, <1>4, SkippedStays DEF Control, Basis, Used
<1>8. NoCopies'
  BY <1>1, <1>2, <1>4, SnapshotStays, AtKoStays DEF NoCopies, LeavesInv
<1>6. CASE UNCHANGED <<Outside, registry>>
  BY <1>4, <1>5, <1>6, <1>8, LeavesStay DEF Basis
<1>7. CASE Publishes \/ Pipe = "announce"
  <2>1. Validated /\ (Validated <=> Validated')
    BY <1>2, <1>4, <1>7, ValidatedAtWork, WorldStays DEF Basis
  <2>2. OnlyValidatedLeaves' <=> (Traces' => Validated')
    BY DEF OnlyValidatedLeaves, Traces, Validated
  <2>. QED
    BY <1>5, <1>8, <2>1, <2>2 DEF LeavesInv
<1>. QED
  BY <1>1, <1>2, <1>3, <1>6, <1>7, RegistryFrame DEF Framed, LeavesInv

(* The next stage begins with nothing begun.                               *)
LEMMA FinishLeaves == ASSUME LeavesInv, Finish PROVE LeavesInv'
<1>1. UNCHANGED <<Basis, Outside, registry>> /\ Control /\ stage # 1 /\ stage \in 1..39
  <2>1. stage \in 1..39 /\ ~Setting
    BY DEF Finish, LeavesInv, Control
  <2>. QED
    BY <2>1, StageNames DEF Finish, LeavesInv, Basis, Outside, fixed, forges, stores, records
<1>2. CASE GoOn /\ stage # 39
  <2>1. todo' = {} /\ at' = 0 /\ stage' = stage + 1
    BY <1>2 DEF GoOn
  <2>2. Control'
    BY <1>1, <1>2, <2>1 DEF Control, Basis, Used
  <2>3. NoCopies'
    BY <2>1 DEF NoCopies
  <2>. QED
    BY <1>1, <2>2, <2>3, LeavesStay DEF Basis
<1>3. CASE todo' = {} /\ UNCHANGED <<stage, at>>
  <2>1. Control'
    BY <1>1, <1>3, SkippedStays DEF Control, Basis, Used
  <2>2. NoCopies'
    BY <1>3 DEF NoCopies
  <2>. QED
    BY <1>1, <2>1, <2>2, LeavesStay DEF Basis
<1>4. ContinuesOnError => stage # 39
  BY <1>1, StageNames DEF ContinuesOnError
<1>5. (GoOn /\ stage # 39) \/ End("err") \/ End("ok")
  BY <1>4, StageList DEF Finish
<1>. QED
  BY <1>2, <1>3, <1>5 DEF End

LEMMA SetUpLeaves == ASSUME LeavesInv, SetUp PROVE LeavesInv'
<1>. DEFINE c == Defaults(cfg, world.koRepo)
<1>. HIDE DEF c
<1>1. /\ Control /\ stage = 1 /\ at = 0 /\ todo = {}
      /\ UNCHANGED <<world, run, Outside, registry>>
  <2>1. stage \in 1..39 /\ Setting /\ Control
    BY DEF SetUp, LeavesInv, Control
  <2>2. stage = 1
    BY <2>1, StageNames
  <2>. QED
    BY <2>1, <2>2 DEF SetUp, Control, Outside, forges, stores
<1>2. CASE UNCHANGED <<cfg, ctx, place>>
  <2>1. Control'
    BY <1>1, <1>2 DEF Control, place
  <2>2. NoCopies'
    BY <1>1, <1>2 DEF NoCopies, place
  <2>. QED
    BY <1>1, <2>1, <2>2, LeavesStay
<1>3. CASE /\ ~SetupErrs(world, c, Used) /\ cfg' = c /\ ctx' = Context(world, c)
           /\ stage' = stage + 1 /\ UNCHANGED <<at, todo>>
  <2>1. Used' = Used
    BY <1>1 DEF Used
  <2>2. Control'
    BY <1>1, <1>3, <2>1 DEF Control
  <2>3. NoCopies'
    BY <1>1, <1>3 DEF NoCopies
  <2>. QED
    BY <1>1, <2>2, <2>3, LeavesStay
<1>. QED
  BY <1>2, <1>3 DEF SetUp, c

LEMMA CrashLeaves == ASSUME LeavesInv, Crash PROVE LeavesInv'
<1>1. UNCHANGED <<Basis, Outside, registry, stage, at, todo>>
  BY DEF Crash, Basis, Outside, fixed, place, forges, stores, records
<1>2. Control' /\ NoCopies'
  BY <1>1, SkippedStays, AtKoStays DEF LeavesInv, Control, NoCopies, Basis, Used
<1>. QED
  BY <1>1, <1>2, LeavesStay DEF Basis

LEMMA AgainLeaves == ASSUME LeavesInv, Again PROVE LeavesInv'
<1>1. stage' = 1 /\ at' = 0 /\ todo' = {} /\ UNCHANGED <<world, Outside, registry>>
  BY DEF Again, Outside, forges, stores, records
<1>2. Control' /\ NoCopies'
  BY <1>1 DEF LeavesInv, Control, NoCopies
<1>. QED
  BY <1>1, <1>2, LeavesStay

(* No commit, pull request, upload, app, asset, announcement, image or     *)
(* signature comes from a run that was not validated, or was not to        *)
(* publish, whatever fails and however often the release is run.           *)
THEOREM ValidatedOnly == Spec => []OnlyValidatedLeaves
<1>1. LeavesInv /\ [Next]_vars => LeavesInv'
  <2>. SUFFICES ASSUME LeavesInv, [Next]_vars PROVE LeavesInv'
    OBVIOUS
  <2>1. CASE UNCHANGED vars
    <3>1. UNCHANGED <<Basis, Outside, registry, stage, at, todo>>
      BY <2>1 DEF vars, fixed, place, forges, stores, records, Basis, Outside
    <3>2. Control' /\ NoCopies'
      BY <3>1, SkippedStays, AtKoStays DEF LeavesInv, Control, NoCopies, Basis, Used
    <3>. QED
      BY <3>1, <3>2, LeavesStay DEF Basis
  <2>. QED
    BY <2>1, BeginLeaves, StepLeaves, FinishLeaves, SetUpLeaves, CrashLeaves, AgainLeaves DEF Next
<1>2. LeavesInv => OnlyValidatedLeaves
  BY DEF LeavesInv
<1>. QED
  BY <1>1, <1>2, InitLeaves, PTL DEF Spec
-----------------------------------------------------------------------------
(* What is sound about a manifest, wherever it is: it lists archives of    *)
(* this release, one for each platform, and belongs to a tap that is to be *)
(* uploaded; a tree of the AUR has both files of a package.                *)
Listable == {"UploadableArchive", "UploadableBinary", "UploadableSourceArchive"}
Archived == {a.path : a \in {x \in built : x.type \in Listable}}
AurKinds == {"aur", "aursources"}
AurParts == {"PKGBUILD", ".SRCINFO"}

SoundEntries(p, entries) ==
  /\ \A e \in entries : e[2] \in Archived
  /\ p[1] # "krew" => \A e, g \in entries : e[1] = g[1] => e = g

Rightful(p) ==
  \E k \in Kinds : \E i \in DOMAIN cfg[k] :
    p \in FilesOf(<<k, cfg[k][i]>>) /\ ~SkipsUpload(cfg[k][i], Prerelease(world))

Paired(tree, f) ==
  f[1][1] \in AurKinds => \A part \in AurParts : <<<<f[1][1], f[1][2], part>>, f[2]>> \in tree

SoundTree(tree) ==
  \A f \in tree : SoundEntries(f[1], f[2]) /\ Rightful(f[1]) /\ Paired(tree, f)

Paths(tree) == {f[1] : f \in tree}

LEMMA WithPaths == \A tree, new : Paths(With(tree, new)) = Paths(tree) \cup Paths(new)
BY DEF Paths, With

LEMMA AurPath ==
  ASSUME NEW p, Rightful(p), p[1] \in AurKinds
  PROVE  \E part \in AurParts : p = <<p[1], p[2], part>>
<1>1. PICK k \in Kinds : \E i \in DOMAIN cfg[k] : p \in FilesOf(<<k, cfg[k][i]>>)
  BY DEF Rightful
<1>2. PICK i \in DOMAIN cfg[k] : p \in FilesOf(<<k, cfg[k][i]>>)
  BY <1>1
<1>3. PICK part \in Parts(k, cfg[k][i]) : p = <<k, cfg[k][i].name, part>>
  BY <1>2 DEF FilesOf, FileIn
<1>4. k = p[1] /\ p = <<p[1], p[2], part>>
  BY <1>3
<1>5. Parts(k, cfg[k][i]) = AurParts
  BY <1>4 DEF Parts, AurParts, AurKinds
<1>. QED
  BY <1>3, <1>4, <1>5

(* What is written over a sound tree leaves it sound, if it is whole.      *)
LEMMA WithSound ==
  ASSUME NEW tree, NEW new, SoundTree(tree), SoundTree(new)
  PROVE  SoundTree(With(tree, new))
<1>. SUFFICES ASSUME NEW f \in With(tree, new)
              PROVE  SoundEntries(f[1], f[2]) /\ Rightful(f[1]) /\ Paired(With(tree, new), f)
  BY DEF SoundTree
<1>1. CASE f \in new
  BY <1>1 DEF SoundTree, Paired, With
<1>2. CASE f \in tree /\ \A n \in new : n[1] # f[1]
  <2>1. SoundEntries(f[1], f[2]) /\ Rightful(f[1]) /\ Paired(tree, f)
    BY <1>2 DEF SoundTree
  <2>2. ASSUME f[1][1] \in AurKinds, NEW part \in AurParts
        PROVE  <<<<f[1][1], f[1][2], part>>, f[2]>> \in With(tree, new)
    <3>. DEFINE q == <<f[1][1], f[1][2], part>>
    <3>1. <<q, f[2]>> \in tree
      BY <2>1, <2>2 DEF Paired
    <3>2. ASSUME NEW n \in new, n[1] = q PROVE FALSE
      <4>1. Paired(new, n) /\ n[1][1] = f[1][1] /\ n[1][2] = f[1][2]
        BY <3>2 DEF SoundTree
      <4>2. PICK own \in AurParts : f[1] = <<f[1][1], f[1][2], own>>
        BY <2>1, <2>2, AurPath
      <4>3. <<<<f[1][1], f[1][2], own>>, n[2]>> \in new
        BY <2>2, <4>1 DEF Paired
      <4>. QED
        BY <1>2, <4>2, <4>3
    <3>. QED
      BY <3>1, <3>2 DEF With
  <2>. QED
    BY <2>1, <2>2 DEF Paired
<1>. QED
  BY <1>1, <1>2 DEF With

(* It depends on the taps and the archives only.                           *)
SameTaps ==
  /\ \A k \in Kinds : DOMAIN cfg'[k] = DOMAIN cfg[k] /\ \A i \in DOMAIN cfg[k] : cfg'[k][i] = cfg[k][i]
  /\ UNCHANGED <<world, built>>

LEMMA SameSound ==
  ASSUME SameTaps
  PROVE  /\ \A p, entries : SoundEntries(p, entries) <=> SoundEntries(p, entries)'
         /\ \A p : Rightful(p) <=> Rightful(p)'
         /\ \A tree : SoundTree(tree) <=> SoundTree(tree)'
<1>1. ASSUME NEW p, NEW entries PROVE SoundEntries(p, entries) <=> SoundEntries(p, entries)'
  BY DEF SoundEntries, Archived, SameTaps
<1>2. ASSUME NEW p PROVE Rightful(p) <=> Rightful(p)'
  BY DEF Rightful, SameTaps
<1>3. ASSUME NEW tree PROVE SoundTree(tree) <=> SoundTree(tree)'
  <2>1. SoundTree(tree)' <=>
          \A f \in tree : SoundEntries(f[1], f[2])' /\ Rightful(f[1])' /\ Paired(tree, f)
    BY DEF SoundTree, Paired
  <2>2. \A f \in tree : (SoundEntries(f[1], f[2]) <=> SoundEntries(f[1], f[2])') /\ (Rightful(f[1]) <=> Rightful(f[1])')
    BY <1>1, <1>2
  <2>. QED
    BY <2>1, <2>2 DEF SoundTree
<1>. QED
  BY <1>1, <1>2, <1>3
-----------------------------------------------------------------------------
(* The taps of a configuration: their fields, their repositories, and that *)
(* setting the defaults once is enough.                                    *)
TapFields ==
  {"name", "ids", "goamd64", "goarm", "repository", "skipUpload", "disable", "described", "locale", "locales"}
RefFields == {"name", "branch", "pullRequest", "git", "key"}

SoundTap(k, t) ==
  /\ DOMAIN t = TapFields /\ DOMAIN t.repository = RefFields
  /\ {t.repository.name, t.repository.git} \subseteq Repos \cup {""}
  /\ k \in {"krew", "scoop"} => t.repository.name # "" \/ t.repository.git # ""

SoundConfig ==
  /\ Kinds \cup {"release"} \subseteq DOMAIN cfg
  /\ \A k \in Kinds :
       /\ Len(cfg[k]) \in Nat /\ DOMAIN cfg[k] = 1..Len(cfg[k])
       /\ \A i \in DOMAIN cfg[k] : SoundTap(k, cfg[k][i])

Settled == \A k \in Kinds : \A i \in DOMAIN cfg[k] : WithDefaults(k, cfg[k][i]) = cfg[k][i]

LEMMA TextTwice == \A v, default : OrText(OrText(v, default), default) = OrText(v, default)
BY DEF OrText

Named(u) == u = [x \in TapFields |-> u[x]] /\ OrText(u.name, ProjectName) = u.name
Levelled(u) == Named(u) /\ OrText(u.goamd64, "v1") = u.goamd64 /\ OrText(u.goarm, "6") = u.goarm
Located(u) == Levelled(u) /\ OrText(u.locale, "en-US") = u.locale
Naming(t) == [t EXCEPT !.name = OrText(@, ProjectName)]
Locating(t) == [t EXCEPT !.locale = OrText(@, "en-US")]

LEMMA Kept ==
  \A u : /\ Named(u) => Naming(u) = u
         /\ Levelled(u) => tapDefault(u) = u
         /\ Located(u) => Locating(u) = u
<1>1. ASSUME NEW u, Named(u) PROVE Naming(u) = u
  BY <1>1 DEF Named, Naming, TapFields
<1>2. ASSUME NEW u, Levelled(u) PROVE tapDefault(u) = u
  BY <1>2 DEF Levelled, Named, tapDefault, TapFields
<1>3. ASSUME NEW u, Located(u) PROVE Locating(u) = u
  BY <1>3 DEF Located, Levelled, Named, Locating, TapFields
<1>. QED
  BY <1>1, <1>2, <1>3

LEMMA Set ==
  ASSUME NEW t, DOMAIN t = TapFields
  PROVE  /\ Named(Naming(t)) /\ Naming(t).repository = t.repository
         /\ Levelled(tapDefault(t)) /\ tapDefault(t).repository = t.repository
         /\ Levelled(t) => Located(Locating(t)) /\ Locating(t).repository = t.repository
<1>1. Named(Naming(t)) /\ Naming(t).repository = t.repository
  BY TextTwice DEF Named, Naming, TapFields
<1>2. Levelled(tapDefault(t)) /\ tapDefault(t).repository = t.repository
  BY TextTwice DEF Levelled, Named, tapDefault, TapFields
<1>3. ASSUME Levelled(t) PROVE Located(Locating(t)) /\ Locating(t).repository = t.repository
  BY <1>3, TextTwice DEF Located, Levelled, Named, Locating, TapFields
<1>. QED
  BY <1>1, <1>2, <1>3

(* The defaults of a tap do not touch its repository, and are kept when    *)
(* they are set again.                                                     *)
LEMMA DefaultTwice ==
  ASSUME NEW k \in Kinds, NEW t, SoundTap(k, t)
  PROVE  /\ SoundTap(k, WithDefaults(k, t)) /\ WithDefaults(k, WithDefaults(k, t)) = WithDefaults(k, t)
         /\ WithDefaults(k, t).repository = t.repository
<1>. DEFINE u == WithDefaults(k, t)
<1>1. DOMAIN t = TapFields
  BY DEF SoundTap
<1>2. \A x : /\ k \in {"cask", "aursources"} => WithDefaults(k, x) = Naming(x)
             /\ k = "winget" => WithDefaults(k, x) = Locating(tapDefault(x))
             /\ k \notin {"cask", "aursources", "winget"} => WithDefaults(k, x) = tapDefault(x)
  BY DEF WithDefaults, Kinds, brewDefault, caskDefault, nixDefault, wingetDefault, krewDefault, scoopDefault,
         aurDefault, aursourcesDefault, chocolateyDefault, Naming, Locating
<1>3. Named(u) /\ u.repository = t.repository /\ WithDefaults(k, u) = u
  <2>1. CASE k \in {"cask", "aursources"}
    BY <1>1, <1>2, <2>1, Set, Kept
  <2>2. CASE k = "winget"
    <3>. DEFINE v == tapDefault(t)
    <3>1. Levelled(v) /\ v.repository = t.repository /\ DOMAIN v = TapFields
      BY <1>1, Set DEF Levelled, Named
    <3>. HIDE DEF v
    <3>2. Located(Locating(v)) /\ Locating(v).repository = v.repository
      BY <3>1, Set
    <3>3. Levelled(Locating(v)) /\ Named(Locating(v))
      BY <3>2 DEF Located, Levelled
    <3>4. tapDefault(Locating(v)) = Locating(v) /\ Locating(Locating(v)) = Locating(v)
      BY <3>2, <3>3, Kept
    <3>5. u = Locating(v) /\ WithDefaults(k, u) = Locating(tapDefault(u))
      BY <1>2, <2>2 DEF v
    <3>. QED
      BY <3>1, <3>2, <3>3, <3>4, <3>5
  <2>3. CASE k \notin {"cask", "aursources", "winget"}
    <3>1. Levelled(u) /\ u.repository = t.repository /\ WithDefaults(k, u) = tapDefault(u)
      BY <1>1, <1>2, <2>3, Set
    <3>. QED
      BY <3>1, Kept DEF Levelled
  <2>. QED
    BY <2>1, <2>2, <2>3
<1>. QED
  BY <1>3 DEF SoundTap, Named

LEMMA InitConfig == Init => SoundConfig
<1>. SUFFICES ASSUME Init PROVE SoundConfig
  OBVIOUS
<1>1. PICK s \in Scenarios : cfg = s.cfg
  BY DEF Init
<1>2. cfg \in Config!Project
  BY <1>1, DeliveryAssumption
<1>3. Kinds \cup {"release"} \subseteq DOMAIN cfg
  BY <1>2 DEF Config!Project, Kinds
<1>4. ASSUME NEW k \in Kinds
      PROVE  /\ Len(cfg[k]) \in Nat /\ DOMAIN cfg[k] = 1..Len(cfg[k])
             /\ \A i \in DOMAIN cfg[k] : SoundTap(k, cfg[k][i])
  <2>1. cfg[k] \in Seq(Config!Tap)
    BY <1>2 DEF Config!Project, Kinds
  <2>2. Len(cfg[k]) \in Nat /\ DOMAIN cfg[k] = 1..Len(cfg[k])
    BY <2>1
  <2>3. ASSUME NEW i \in DOMAIN cfg[k] PROVE SoundTap(k, cfg[k][i])
    <3>1. cfg[k][i] \in Config!Tap
      BY <2>1, <2>3
    <3>2. cfg[k][i].repository \in Config!RepoRef /\ DOMAIN cfg[k][i] = TapFields
      BY <3>1 DEF Config!Tap, TapFields
    <3>3. DOMAIN cfg[k][i].repository = RefFields
      BY <3>2 DEF Config!RepoRef, RefFields
    <3>4. LET repository == cfg[k][i].repository IN
            /\ {repository.name, repository.git} \subseteq Repos \cup {""}
            /\ k \in {"krew", "scoop"} => repository.name # "" \/ repository.git # ""
      BY <1>1, PublishingAssumption
    <3>. QED
      BY <3>2, <3>3, <3>4 DEF SoundTap
  <2>. QED
    BY <2>2, <2>3
<1>. QED
  BY <1>3, <1>4 DEF SoundConfig

(* What the defaults make of a configuration.                              *)
LEMMA DefaultTaps ==
  ASSUME SoundConfig, NEW env
  PROVE  LET c == Defaults(cfg, env) IN
         /\ DOMAIN c = DOMAIN cfg /\ c.release = cfg.release
         /\ \A k \in Kinds : c[k] = [i \in DOMAIN cfg[k] |-> WithDefaults(k, cfg[k][i])]
<1>. DEFINE c == Defaults(cfg, env)
<1>1. DOMAIN c = DOMAIN cfg
  BY DEF Defaults
<1>2. c.release = cfg.release
  BY DEF Defaults, SoundConfig, Kinds
<1>3. ASSUME NEW k \in Kinds PROVE c[k] = [i \in DOMAIN cfg[k] |-> WithDefaults(k, cfg[k][i])]
  BY DEF Defaults, SoundConfig, Kinds, Each_
<1>. QED
  BY <1>1, <1>2, <1>3

LEMMA SetUpConfig ==
  ASSUME SoundConfig, NEW env, cfg' = Defaults(cfg, env), UNCHANGED <<world, built>>
  PROVE  SoundConfig' /\ Settled' /\ (Settled => SameTaps) /\ cfg'.release = cfg.release
<1>1. /\ DOMAIN cfg' = DOMAIN cfg /\ cfg'.release = cfg.release
      /\ \A k \in Kinds : cfg'[k] = [i \in DOMAIN cfg[k] |-> WithDefaults(k, cfg[k][i])]
  BY DefaultTaps
<1>2. ASSUME NEW k \in Kinds
      PROVE  /\ Len(cfg[k])' \in Nat /\ DOMAIN cfg'[k] = 1..Len(cfg[k])'
             /\ DOMAIN cfg'[k] = DOMAIN cfg[k]
             /\ \A i \in DOMAIN cfg'[k] :
                  SoundTap(k, cfg'[k][i]) /\ WithDefaults(k, cfg'[k][i]) = cfg'[k][i]
  <2>. DEFINE s == cfg[k]
              t == cfg'[k]
  <2>1. Len(s) \in Nat /\ DOMAIN s = 1..Len(s) /\ \A i \in DOMAIN s : SoundTap(k, s[i])
    BY DEF SoundConfig
  <2>2. t = [i \in DOMAIN s |-> WithDefaults(k, s[i])]
    BY <1>1
  <2>. HIDE DEF s, t
  <2>3. Len(t) = Len(s) /\ DOMAIN t = DOMAIN s
    <3>1. t \in Seq({t[i] : i \in DOMAIN s})
      BY <2>1, <2>2
    <3>. QED
      BY <3>1, <2>1, <2>2
  <2>4. ASSUME NEW i \in DOMAIN s PROVE SoundTap(k, t[i]) /\ WithDefaults(k, t[i]) = t[i]
    BY <2>1, <2>2, DefaultTwice
  <2>. QED
    BY <2>1, <2>3, <2>4 DEF s, t
<1>3. SoundConfig'
  BY <1>1, <1>2 DEF SoundConfig, SoundTap
<1>4. Settled'
  BY <1>2 DEF Settled
<1>5. ASSUME Settled, NEW k \in Kinds, NEW i \in DOMAIN cfg[k]
      PROVE  DOMAIN cfg'[k] = DOMAIN cfg[k] /\ cfg'[k][i] = cfg[k][i]
  BY <1>1, <1>5 DEF Settled
<1>. QED
  BY <1>1, <1>2, <1>3, <1>4, <1>5 DEF SameTaps
-----------------------------------------------------------------------------
(* The manifests of a run are those of its taps, each with all of its      *)
(* files, and written. A unit that is published is the files of one tap.   *)
SoundManifests ==
  /\ stage = 1 => manifests = {}
  /\ \A m \in manifests :
       /\ m.kind \in Kinds /\ m.at \in DOMAIN cfg[m.kind]
       /\ m \in Manifests(m.kind, m.at, cfg[m.kind][m.at])
       /\ Manifests(m.kind, m.at, cfg[m.kind][m.at]) \subseteq manifests
       /\ m.path \in DOMAIN files
       /\ m.kind \in {"brew", "cask", "nix", "winget"} => ~Nowhere(cfg[m.kind][m.at])

IdOf(k, i, t) ==
  CASE k = "winget" -> <<k, i>> [] k \in AurKinds -> <<k, t.name>> [] OTHER -> <<k, i, "alone">>

LEMMA ManifestFields ==
  ASSUME NEW k, NEW i, NEW t
  PROVE  /\ \A m \in Manifests(k, i, t) :
              /\ m.kind = k /\ m.at = i /\ m.id = IdOf(k, i, t)
              /\ \E part \in Parts(k, t) : m.path = FileIn(k, t, part)
         /\ \A part \in Parts(k, t) : \E m \in Manifests(k, i, t) : m.path = FileIn(k, t, part)
<1>1. Manifests(k, i, t) =
        {[kind |-> k, at |-> i, path |-> FileIn(k, t, part), id |-> IdOf(k, i, t)] : part \in Parts(k, t)}
  BY DEF Manifests, IdOf, AurKinds
<1>2. ASSUME NEW m \in Manifests(k, i, t)
      PROVE  /\ m.kind = k /\ m.at = i /\ m.id = IdOf(k, i, t)
             /\ \E part \in Parts(k, t) : m.path = FileIn(k, t, part)
  <2>1. PICK part \in Parts(k, t) :
          m = [kind |-> k, at |-> i, path |-> FileIn(k, t, part), id |-> IdOf(k, i, t)]
    BY <1>1
  <2>. QED
    BY <2>1
<1>3. ASSUME NEW part \in Parts(k, t) PROVE \E m \in Manifests(k, i, t) : m.path = FileIn(k, t, part)
  <2>. DEFINE m == [kind |-> k, at |-> i, path |-> FileIn(k, t, part), id |-> IdOf(k, i, t)]
  <2>1. m \in Manifests(k, i, t) /\ m.path = FileIn(k, t, part)
    BY <1>1
  <2>. QED
    BY <2>1
<1>. QED
  BY <1>2, <1>3

TapOf(k, unit) == cfg[k][First(unit).at]

LEMMA UnitIsTap ==
  ASSUME SoundManifests, SoundConfig, NEW k \in Kinds, NEW unit \in Units(manifests, k)
  PROVE  /\ First(unit) \in unit /\ unit \subseteq manifests /\ First(unit).kind = k
         /\ First(unit).at \in DOMAIN cfg[k]
         /\ PathsOf(unit) = FilesOf(<<k, TapOf(k, unit)>>)
<1>1. PICK id \in {m.id : m \in {x \in manifests : x.kind = k}} :
        unit = {m \in manifests : m.kind = k /\ m.id = id}
  BY DEF Units
<1>2. unit # {} /\ unit \subseteq manifests
  BY <1>1
<1>3. First(unit) \in unit
  <2>. DEFINE T == {m.at : m \in unit}
  <2>1. T \in SUBSET Nat /\ T # {}
    BY <1>1, <1>2 DEF SoundManifests, SoundConfig
  <2>2. PICK n \in T : \A o \in T : n <= o
    BY <2>1, Least
  <2>3. \E m \in unit : \A o \in unit : m.at <= o.at
    BY <2>2
  <2>. QED
    BY <2>3 DEF First
<1>. DEFINE f == First(unit)
            t == cfg[k][f.at]
<1>. HIDE DEF f
<1>4. /\ f \in manifests /\ f.kind = k /\ f.id = id /\ f.at \in DOMAIN cfg[k]
      /\ f \in Manifests(k, f.at, t) /\ Manifests(k, f.at, t) \subseteq manifests
      /\ id = IdOf(k, f.at, t)
  <2>1. f \in manifests /\ f.kind = k /\ f.id = id
    BY <1>1, <1>3 DEF f
  <2>. QED
    BY <2>1, ManifestFields DEF SoundManifests
<1>5. ASSUME NEW m \in unit PROVE m.path \in FilesOf(<<k, t>>)
  <2>. DEFINE u == cfg[k][m.at]
  <2>1. m.id = IdOf(k, m.at, u) /\ \E part \in Parts(k, u) : m.path = FileIn(k, u, part)
    BY <1>1, ManifestFields DEF SoundManifests
  <2>2. IdOf(k, m.at, u) = IdOf(k, f.at, t)
    BY <1>1, <1>4, <2>1
  <2>3. CASE k \in AurKinds
    <3>1. u.name = t.name
      BY <2>2, <2>3 DEF IdOf, AurKinds
    <3>2. Parts(k, u) = Parts(k, t)
      BY <2>3 DEF Parts, AurKinds
    <3>3. \A part : FileIn(k, u, part) = FileIn(k, t, part)
      BY <3>1 DEF FileIn
    <3>. QED
      BY <2>1, <3>2, <3>3 DEF FilesOf
  <2>4. CASE k \notin AurKinds
    <3>1. m.at = f.at
      BY <2>2, <2>4 DEF IdOf
    <3>. QED
      BY <2>1, <3>1 DEF FilesOf
  <2>. QED
    BY <2>3, <2>4
<1>6. ASSUME NEW p \in FilesOf(<<k, t>>) PROVE p \in PathsOf(unit)
  <2>1. PICK part \in Parts(k, t) : p = FileIn(k, t, part)
    BY DEF FilesOf
  <2>2. PICK m \in Manifests(k, f.at, t) : m.path = p /\ m.kind = k /\ m.id = id
    BY <1>4, <2>1, ManifestFields
  <2>. QED
    BY <1>1, <1>4, <2>2 DEF PathsOf
<1>. QED
  BY <1>2, <1>3, <1>4, <1>5, <1>6 DEF f, PathsOf, TapOf
-----------------------------------------------------------------------------
(* What a manifest lists. The archives of this run are those of the pipes  *)
(* before: whoever adds to the list adds something else.                   *)
SoundArts ==
  /\ \A a \in arts \cup built : "type" \in DOMAIN a
  /\ \A a \in arts \cup built : a.type \in Listable => (a \in arts <=> a \in built)

LEMMA ArchivesListable ==
  ASSUME NEW k \in Kinds, NEW t, NEW a \in Archives(k, t)
  PROVE  a \in arts /\ a.type \in Listable
<1>. USE DEF Archives, Listable, Kinds, Unpacks
<1>1. CASE k = "brew"
  BY <1>1 DEF brewArchives
<1>2. CASE k = "cask"
  BY <1>2 DEF caskArchives
<1>3. CASE k = "nix"
  BY <1>3 DEF nixArchives
<1>4. CASE k = "winget"
  BY <1>4 DEF wingetArchives
<1>5. CASE k = "krew"
  BY <1>5 DEF krewArchives
<1>6. CASE k = "scoop"
  BY <1>6 DEF scoopArchives
<1>7. CASE k = "aur"
  BY <1>7 DEF aurArchives, ByTypes, autoOr
<1>8. CASE k = "aursources"
  BY <1>8 DEF aursourcesArchives
<1>9. CASE k = "chocolatey"
  BY <1>9 DEF chocolateyArchives
<1>. QED
  BY <1>1, <1>2, <1>3, <1>4, <1>5, <1>6, <1>7, <1>8, <1>9

(* The pipes that list every archive refuse two for a platform, but krew.  *)
LEMMA MadeApart ==
  ASSUME NEW k \in Kinds, NEW t, doRun(k, t) = "made"
  PROVE  /\ k \notin {"krew", "scoop", "aursources"} => ~Clash(k, Archives(k, t))
         /\ k \in {"brew", "cask", "nix", "winget"} => ~Nowhere(t)
<1>. USE DEF doRun, Archives, Kinds, Verdict
<1>1. CASE k = "brew"
  BY <1>1 DEF brewRun
<1>2. CASE k = "cask"
  BY <1>2 DEF caskRun
<1>3. CASE k = "nix"
  BY <1>3 DEF nixRun
<1>4. CASE k = "winget"
  BY <1>4 DEF wingetRun
<1>5. CASE k = "aur"
  BY <1>5 DEF aurRun
<1>6. CASE k = "chocolatey"
  BY <1>6 DEF chocolateyRun
<1>. QED
  BY <1>1, <1>2, <1>3, <1>4, <1>5, <1>6

LEMMA MadeSound ==
  ASSUME SoundArts, NEW k \in Kinds, NEW t, doRun(k, t) = "made",
         NEW entries \in Entries(k, Archives(k, t)), NEW p, p[1] = k
  PROVE  SoundEntries(p, entries)
<1>. DEFINE archives == Archives(k, t)
            listed == Listed(k, archives)
<1>1. entries \subseteq listed
  BY DEF Entries, Last
<1>2. ASSUME NEW e \in listed PROVE e[2] \in Archived /\ \E a \in archives : e[1] \in PlatformsOf(k, a) /\ e[2] = a.path
  <2>1. PICK a \in archives : \E q \in PlatformsOf(k, a) : e = <<q, a.path>>
    BY DEF Listed
  <2>2. a \in arts /\ a.type \in Listable
    BY ArchivesListable
  <2>3. a \in built
    BY <2>2 DEF SoundArts
  <2>. QED
    BY <2>1, <2>2, <2>3 DEF Archived
<1>3. ASSUME k # "krew", NEW e \in entries, NEW g \in entries, e[1] = g[1] PROVE e = g
  <2>1. CASE k \in {"scoop", "aursources"}
    <3>1. \A x \in listed : \E y \in entries : \A z \in entries : z[1] = x[1] <=> z = y
      BY <2>1 DEF Entries, Last
    <3>. QED
      BY <1>1, <1>3, <3>1
  <2>2. CASE k \notin {"scoop", "aursources"}
    <3>1. ~Clash(k, archives)
      BY <1>3, <2>2, MadeApart
    <3>2. PICK a \in archives : \E q \in PlatformsOf(k, a) : e = <<q, a.path>>
      BY <1>1 DEF Listed
    <3>3. PICK b \in archives : \E q \in PlatformsOf(k, b) : g = <<q, b.path>>
      BY <1>1 DEF Listed
    <3>4. a = b
      BY <1>3, <3>1, <3>2, <3>3 DEF Clash
    <3>. QED
      BY <1>3, <3>2, <3>3, <3>4
  <2>. QED
    BY <2>1, <2>2
<1>. QED
  BY <1>1, <1>2, <1>3 DEF SoundEntries
-----------------------------------------------------------------------------
(* What is in dist, in the repositories and in their checkouts is sound. A *)
(* commit in a checkout has the files of what it is pushed over, and what  *)
(* is on a branch when a pull request is opened stays there.               *)
SoundFiles ==
  \A p \in DOMAIN files :
    /\ SoundEntries(p, files[p])
    /\ p[1] \in AurKinds =>
         /\ \E part \in AurParts : p = <<p[1], p[2], part>>
         /\ \A part \in AurParts :
              <<p[1], p[2], part>> \in DOMAIN files /\ files[<<p[1], p[2], part>>] = files[p]

SoundRemote ==
  /\ DOMAIN remote = Repos
  /\ \A r \in Repos : /\ "main" \in DOMAIN remote[r]
                      /\ \A b \in DOMAIN remote[r] : SoundTree(remote[r][b])

CloneFields == {"name", "url", "branch", "on", "base", "tree", "head"}
SoundClone(c) ==
  /\ DOMAIN c = CloneFields /\ c.url \in Repos
  /\ SoundTree(c.base) /\ SoundTree(c.tree) /\ SoundTree(c.head)
  /\ Paths(c.base) \subseteq Paths(c.head) /\ Paths(c.head) \subseteq Paths(c.tree)
SoundClones == \A c \in clones : SoundClone(c)

On(r, b, p) == b \in DOMAIN remote[r] /\ p \in Paths(remote[r][b])
SoundPulls ==
  \A p \in pulls :
    /\ p.repo \in Repos /\ p.head \in DOMAIN remote[p.repo]
    /\ \A path \in p.unit : On(p.repo, p.head, path)

(* A job of a publisher goes the way its tap asks for; by the API, what is *)
(* not left to be written is on the branch.                                *)
JobFields == {"at", "what", "left", "phase"}
Way(j) == doPublish(Pipe, Tap(j), Prerelease(world))
JobAt(j, left, phase) ==
  /\ j.what \in Units(manifests, Pipe) /\ left \subseteq PathsOf(j.what)
  /\ phase \in {"clone", "checkout", "commit", "push"} => Way(j) = "clone"
  /\ phase \in {"checkout", "commit", "push"} => Mine(j) # {}
  /\ phase \in {"file", "pull"} =>
       Way(j) = "file" /\ \A p \in PathsOf(j.what) \ left : On(To(j).name, Branch(j), p)
  /\ phase = "pull" => left = {}
SoundJob(j) == JobAt(j, j.left, j.phase)
SoundJobs ==
  /\ \A j \in todo : DOMAIN j = JobFields
  /\ Tapping => \A j \in todo : SoundJob(j)

Yard == SoundFiles /\ SoundManifests /\ SoundRemote /\ SoundClones /\ SoundPulls

(* Which way it goes, and where.                                           *)
LEMMA Ways ==
  ASSUME NEW k \in Kinds, NEW t, NEW pre
  PROVE  /\ doPublish(k, t, pre) = "clone" => t.repository.git # "" /\ ~SkipsUpload(t, pre)
         /\ doPublish(k, t, pre) = "file" =>
              k \notin AurKinds /\ t.repository.git = "" /\ ~SkipsUpload(t, pre) /\ k # "chocolatey"
         /\ doPublish(k, t, pre) \in {"skip", "clone", "file", "nupkg"}
<1>1. CASE k \in AurKinds
  BY <1>1 DEF AurKinds, doPublish, aurPublish, aursourcesPublish, ThroughGit
<1>2. CASE k = "chocolatey"
  BY <1>2 DEF doPublish, chocolateyPublish
<1>3. CASE k \notin AurKinds \cup {"chocolatey"}
  <2>1. doPublish(k, t, pre) = ThroughForge(t, pre)
    BY <1>3 DEF AurKinds, Kinds, doPublish, brewPublish, caskPublish, nixPublish, wingetPublish, krewPublish, scoopPublish
  <2>. QED
    BY <1>3, <2>1 DEF ThroughForge
<1>. QED
  BY <1>1, <1>2, <1>3

LEMMA Targets ==
  ASSUME NEW k \in Kinds, NEW t, SoundTap(k, t)
  PROVE  /\ Target(k, t).git = t.repository.git
         /\ k \notin AurKinds => Target(k, t).name = t.repository.name
<1>1. DOMAIN t.repository = RefFields
  BY DEF SoundTap
<1>. QED
  BY <1>1 DEF Target, TemplateRef, RefFields, AurKinds

LEMMA ContentPaths == \A S : Paths(Content(S)) = S
<1>. SUFFICES ASSUME NEW S PROVE Paths(Content(S)) = S
  OBVIOUS
<1>1. ASSUME NEW p \in S PROVE p \in Paths(Content(S))
  <2>1. <<p, files[p]>> \in Content(S) /\ <<p, files[p]>>[1] = p
    BY DEF Content
  <2>. QED
    BY <2>1 DEF Paths
<1>2. ASSUME NEW p \in Paths(Content(S)) PROVE p \in S
  BY DEF Paths, Content
<1>. QED
  BY <1>1, <1>2

(* What is written of a unit is sound, as a whole, and file by file where  *)
(* it is not for the AUR.                                                  *)
LEMMA UnitSound ==
  ASSUME SoundFiles, SoundManifests, SoundConfig, NEW k \in Kinds, NEW unit \in Units(manifests, k),
         ~SkipsUpload(TapOf(k, unit), Prerelease(world))
  PROVE  /\ SoundTree(Content(PathsOf(unit))) /\ Paths(Content(PathsOf(unit))) = PathsOf(unit)
         /\ k \notin AurKinds =>
              \A p \in PathsOf(unit) : SoundTree(Content({p})) /\ Paths(Content({p})) = {p}
<1>. DEFINE t == TapOf(k, unit)
<1>1. /\ PathsOf(unit) = FilesOf(<<k, t>>) /\ First(unit).at \in DOMAIN cfg[k] /\ t = cfg[k][First(unit).at]
      /\ unit \subseteq manifests
  BY UnitIsTap DEF TapOf
<1>2. ASSUME NEW p \in PathsOf(unit)
      PROVE  SoundEntries(p, files[p]) /\ Rightful(p) /\ p[1] = k /\ p \in DOMAIN files
  <2>1. p \in DOMAIN files
    BY <1>1 DEF PathsOf, SoundManifests
  <2>2. Rightful(p)
    BY <1>1 DEF Rightful
  <2>3. p[1] = k
    BY <1>1 DEF FilesOf, FileIn
  <2>. QED
    BY <2>1, <2>2, <2>3 DEF SoundFiles
<1>3. \A S : Paths(Content(S)) = S
  BY ContentPaths
<1>4. ASSUME NEW f \in Content(PathsOf(unit)) PROVE Paired(Content(PathsOf(unit)), f)
  <2>1. PICK p \in PathsOf(unit) : f = <<p, files[p]>>
    BY DEF Content
  <2>2. ASSUME k \in AurKinds, NEW part \in AurParts
        PROVE  <<p[1], p[2], part>> \in PathsOf(unit) /\ files[<<p[1], p[2], part>>] = files[p]
    <3>1. p[1] = k /\ p[2] = t.name
      BY <1>1 DEF FilesOf, FileIn
    <3>2. part \in Parts(k, t)
      BY <2>2 DEF Parts, AurKinds, AurParts
    <3>3. <<p[1], p[2], part>> \in FilesOf(<<k, t>>)
      BY <3>1, <3>2 DEF FilesOf, FileIn
    <3>. QED
      BY <1>1, <1>2, <2>2, <3>1, <3>3 DEF SoundFiles
  <2>. QED
    BY <1>2, <2>1, <2>2 DEF Paired, Content
<1>5. SoundTree(Content(PathsOf(unit)))
  BY <1>2, <1>4 DEF SoundTree, Content
<1>6. ASSUME k \notin AurKinds, NEW p \in PathsOf(unit) PROVE SoundTree(Content({p}))
  <2>1. SoundEntries(p, files[p]) /\ Rightful(p) /\ p[1] \notin AurKinds
    BY <1>2, <1>6
  <2>. QED
    BY <2>1 DEF SoundTree, Content, Paired
<1>. QED
  BY <1>3, <1>5, <1>6

(* A unit that goes to a repository goes to one of Repos.                  *)
LEMMA WayTo ==
  ASSUME SoundManifests, SoundConfig, Tapping, NEW j, SoundJob(j)
  PROVE  /\ PathsOf(j.what) # {}
         /\ Way(j) = "clone" => To(j).git \in Repos /\ ~SkipsUpload(TapOf(Pipe, j.what), Prerelease(world))
         /\ Way(j) = "file" =>
              /\ To(j).name \in Repos /\ ~SkipsUpload(TapOf(Pipe, j.what), Prerelease(world))
              /\ Pipe \notin AurKinds
<1>. DEFINE k == Pipe
            f == First(j.what)
            t == TapOf(k, j.what)
            pre == Prerelease(world)
<1>1. k \in Kinds /\ j.what \in Units(manifests, k)
  BY DEF Tapping, SoundJob, JobAt
<1>2. f \in j.what /\ f \in manifests /\ f.kind = k /\ f.at \in DOMAIN cfg[k]
  BY <1>1, UnitIsTap
<1>3. SoundTap(k, t)
  BY <1>1, <1>2 DEF SoundConfig, TapOf
<1>4. Tap(j) = t
  BY <1>1 DEF Tap, TapOf, Configured, Field, Kinds
<1>5. Way(j) = doPublish(k, t, pre) /\ To(j) = Target(k, t)
  BY <1>4 DEF Way, To
<1>6. k \in {"brew", "cask", "nix", "winget"} => t.repository.name # ""
  BY <1>2 DEF SoundManifests, TapOf, Nowhere
<1>. HIDE DEF k, f, t, pre
<1>7. CASE Way(j) = "clone"
  <2>1. t.repository.git # "" /\ ~SkipsUpload(t, pre)
    BY <1>1, <1>5, <1>7, Ways
  <2>. QED
    BY <1>1, <1>2, <1>3, <1>5, <1>7, <2>1, Targets DEF SoundTap, PathsOf, t, k, pre
<1>8. CASE Way(j) = "file"
  <2>1. k \notin AurKinds /\ t.repository.git = "" /\ ~SkipsUpload(t, pre) /\ k # "chocolatey"
    BY <1>1, <1>5, <1>8, Ways
  <2>2. t.repository.name # ""
    BY <1>1, <1>3, <1>6, <2>1 DEF SoundTap, Kinds, AurKinds
  <2>3. t.repository.name \in Repos /\ To(j).name = t.repository.name
    BY <1>1, <1>3, <1>5, <2>1, <2>2, Targets DEF SoundTap
  <2>. QED
    BY <1>2, <1>8, <2>1, <2>3 DEF PathsOf, t, k, pre
<1>. QED
  BY <1>2, <1>7, <1>8 DEF PathsOf

(* A job that moves on keeps its tap, and others keep what they have: what *)
(* is on a branch, and their checkouts.                                    *)
Grown ==
  \A r \in Repos :
    DOMAIN remote[r] \subseteq DOMAIN remote'[r] /\ \A b, p : On(r, b, p) => On(r, b, p)'
KeptClones ==
  \A c \in clones : \E d \in clones' : d.name = c.name /\ d.url = c.url /\ d.branch = c.branch

LEMMA TapKept ==
  ASSUME UNCHANGED <<Basis, stage, manifests>>, NEW j
  PROVE  /\ Pipe' = Pipe /\ (Tapping <=> Tapping') /\ Way(j)' = Way(j)
         /\ To(j)' = To(j) /\ Branch(j)' = Branch(j)
BY DEF Basis, Pipe, Now, Tapping, Publishes, Way, To, Tap, Configured, Branch

LEMMA MineKept ==
  ASSUME UNCHANGED <<Basis, stage, manifests>>, KeptClones, NEW j, Mine(j) # {}
  PROVE  Mine(j)' # {}
<1>1. To(j)' = To(j)
  BY TapKept
<1>2. PICK c \in Mine(j) : TRUE
  OBVIOUS
<1>3. c \in clones /\ c.name = To(j).name /\ c.url = To(j).git /\ c.branch = To(j).branch
  BY <1>2 DEF Mine
<1>4. PICK d \in clones' : d.name = c.name /\ d.url = c.url /\ d.branch = c.branch
  BY <1>3 DEF KeptClones
<1>. QED
  BY <1>1, <1>3, <1>4 DEF Mine

LEMMA JobKept ==
  ASSUME UNCHANGED <<Basis, stage, manifests>>, Grown, KeptClones, SoundManifests, SoundConfig, Tapping,
         NEW j, SoundJob(j)
  PROVE  SoundJob(j)'
<1>1. /\ Pipe' = Pipe /\ Way(j)' = Way(j) /\ To(j)' = To(j) /\ Branch(j)' = Branch(j)
      /\ manifests' = manifests
  BY TapKept
<1>2. Mine(j) # {} => Mine(j)' # {}
  BY MineKept
<1>3. ASSUME NEW p, Way(j) = "file", On(To(j).name, Branch(j), p) PROVE On(To(j).name, Branch(j), p)'
  <2>1. To(j).name \in Repos
    BY <1>3, WayTo
  <2>2. On(To(j).name, Branch(j), p)' <=> /\ Branch(j) \in DOMAIN (remote'[To(j).name])
                                         /\ p \in Paths(remote'[To(j).name][Branch(j)])
    BY <1>1 DEF On, Paths
  <2>3. \A r \in Repos : \A b, q : On(r, b, q) => b \in DOMAIN (remote'[r]) /\ q \in Paths(remote'[r][b])
    BY DEF Grown, On, Paths
  <2>. QED
    BY <1>3, <2>1, <2>2, <2>3
<1>. QED
  BY <1>1, <1>2, <1>3 DEF SoundJob, JobAt, PathsOf

(* What a step leaves alone stays sound.                                   *)
LEMMA SameBasis == UNCHANGED Basis => SameTaps
BY DEF Basis, SameTaps

LEMMA RemoteKept ==
  ASSUME SoundRemote, SameTaps, UNCHANGED remote
  PROVE  SoundRemote' /\ Grown
<1>1. SoundRemote'
  BY SameSound DEF SoundRemote
<1>2. Grown
  BY DEF Grown, On, Paths
<1>. QED
  BY <1>1, <1>2

LEMMA SoundCloneKept == ASSUME SameTaps, NEW c, SoundClone(c) PROVE SoundClone(c)'
<1>1. /\ DOMAIN c = CloneFields /\ c.url \in Repos
      /\ SoundTree(c.base)' /\ SoundTree(c.tree)' /\ SoundTree(c.head)'
      /\ Paths(c.base) \subseteq Paths(c.head) /\ Paths(c.head) \subseteq Paths(c.tree)
  BY SameSound DEF SoundClone
<1>. QED
  BY <1>1 DEF SoundClone, Paths

LEMMA ClonesKept ==
  ASSUME SoundClones, SameTaps, UNCHANGED clones
  PROVE  SoundClones' /\ KeptClones
<1>1. SoundClones'
  BY SoundCloneKept DEF SoundClones
<1>. QED
  BY <1>1 DEF KeptClones

LEMMA OnGrown ==
  ASSUME Grown, NEW r \in Repos, NEW b, NEW p, On(r, b, p)
  PROVE  On(r, b, p)'
BY DEF Grown

LEMMA PullsKept == ASSUME SoundPulls, Grown, UNCHANGED pulls PROVE SoundPulls'
<1>1. ASSUME NEW p \in pulls
      PROVE  /\ p.repo \in Repos /\ p.head \in DOMAIN remote'[p.repo]
             /\ \A path \in p.unit : On(p.repo, p.head, path)'
  BY OnGrown DEF SoundPulls, Grown
<1>. QED
  BY <1>1 DEF SoundPulls

LEMMA FilesKept == ASSUME SoundFiles, SameTaps, UNCHANGED files PROVE SoundFiles'
BY SameSound DEF SoundFiles

LEMMA ManifestsKept ==
  ASSUME SoundManifests, UNCHANGED <<Basis, stage, manifests, files>>
  PROVE  SoundManifests'
BY DEF SoundManifests, Basis

(* A checkout that is replaced by one of the same repository and branch.   *)
LEMMA CloneReplaced ==
  ASSUME SoundClones, SameTaps, NEW j, NEW c, SoundClone(c), ReplaceClone(j, c),
         c.name = To(j).name, c.url = To(j).git, c.branch = To(j).branch
  PROVE  SoundClones' /\ KeptClones /\ c \in clones'
<1>1. clones' = (clones \ Mine(j)) \cup {c}
  BY DEF ReplaceClone
<1>2. SoundClones'
  BY <1>1, SoundCloneKept DEF SoundClones
<1>3. ASSUME NEW d \in clones
      PROVE  \E e \in clones' : e.name = d.name /\ e.url = d.url /\ e.branch = d.branch
  BY <1>1 DEF Mine
<1>. QED
  BY <1>1, <1>2, <1>3 DEF KeptClones

LEMMA CloneIsMine ==
  ASSUME NEW j, Mine(j) # {}
  PROVE  /\ Clone(j) \in clones
         /\ Clone(j).name = To(j).name /\ Clone(j).url = To(j).git /\ Clone(j).branch = To(j).branch
<1>1. Clone(j) \in Mine(j)
  BY DEF Clone
<1>. QED
  BY <1>1 DEF Mine

(* A tree on a branch that has the files of the one that was there.        *)
LEMMA BranchReset ==
  ASSUME SoundRemote, SameTaps, NEW r \in Repos, NEW b, NEW tree, SoundTree(tree),
         b \in DOMAIN remote[r] => Paths(remote[r][b]) \subseteq Paths(tree),
         remote' = [remote EXCEPT ![r] = Reset(@, b, tree)]
  PROVE  SoundRemote' /\ Grown /\ \A p \in Paths(tree) : On(r, b, p)'
<1>. DEFINE new == Reset(remote[r], b, tree)
<1>1. /\ DOMAIN new = DOMAIN remote[r] \cup {b}
      /\ \A x \in DOMAIN new : new[x] = IF x = b THEN tree ELSE remote[r][x]
  BY DEF Reset
<1>. HIDE DEF new
<1>2. DOMAIN remote' = Repos /\ remote'[r] = new /\ \A x \in Repos : x # r => remote'[x] = remote[x]
  BY DEF SoundRemote, new
<1>3. \A z : SoundTree(z) => SoundTree(z)'
  BY SameSound
<1>4. SoundRemote'
  <2>1. ASSUME NEW x \in Repos PROVE "main" \in DOMAIN remote'[x] /\ \A y \in DOMAIN remote'[x] : SoundTree(remote[x][y])'
    <3>1. CASE x = r
      <4>1. "main" \in DOMAIN new
        BY <1>1 DEF SoundRemote
      <4>2. ASSUME NEW y \in DOMAIN new PROVE SoundTree(remote[x][y])'
        <5>1. PICK z : z = remote'[x][y]
          OBVIOUS
        <5>2. SoundTree(z)
          BY <1>1, <1>2, <3>1, <5>1 DEF SoundRemote
        <5>3. SoundTree(z)'
          BY <1>3, <5>2
        <5>. QED
          BY <5>1, <5>3 DEF SoundTree, Paired
      <4>. QED
        BY <1>2, <3>1, <4>1, <4>2
    <3>2. CASE x # r
      BY <1>2, <1>3, <3>2 DEF SoundRemote
    <3>. QED
      BY <3>1, <3>2
  <2>. QED
    BY <1>2, <2>1 DEF SoundRemote
<1>5. ASSUME NEW x \in Repos, NEW y, NEW p, On(x, y, p) PROVE On(x, y, p)'
  <2>1. y \in DOMAIN remote[x] /\ p \in Paths(remote[x][y])
    BY <1>5 DEF On
  <2>2. On(x, y, p)' <=> y \in DOMAIN remote'[x] /\ p \in Paths(remote'[x][y])
    BY DEF On, Paths
  <2>. QED
    BY <1>1, <1>2, <2>1, <2>2
<1>6. ASSUME NEW p \in Paths(tree) PROVE On(r, b, p)'
  <2>1. On(r, b, p)' <=> b \in DOMAIN remote'[r] /\ p \in Paths(remote'[r][b])
    BY DEF On, Paths
  <2>. QED
    BY <1>1, <1>2, <2>1
<1>. QED
  BY <1>1, <1>2, <1>4, <1>5, <1>6 DEF Grown, SoundRemote
-----------------------------------------------------------------------------
(* The steps of a unit. What they all need, and what they all keep.        *)
YardInv == Control /\ SoundConfig /\ Yard /\ SoundJobs

Changed(j, left, phase) == [j EXCEPT !.left = left, !.phase = phase]
Turned(j) ==
  \A k \in todo' : k \in todo \/ \E left, phase : k = Changed(j, left, phase) /\ JobAt(j, left, phase)'

LEMMA ChangedJob ==
  ASSUME NEW j, DOMAIN j = JobFields
  PROVE  \A left, phase :
           DOMAIN Changed(j, left, phase) = JobFields /\ (JobAt(j, left, phase) <=> SoundJob(Changed(j, left, phase)))
<1>. SUFFICES ASSUME NEW left, NEW phase
              PROVE  /\ DOMAIN Changed(j, left, phase) = JobFields
                     /\ JobAt(j, left, phase) <=> SoundJob(Changed(j, left, phase))
  OBVIOUS
<1>. DEFINE k == Changed(j, left, phase)
<1>1. DOMAIN k = JobFields /\ k.what = j.what /\ k.left = left /\ k.phase = phase
  BY DEF Changed, JobFields
<1>. HIDE DEF k
<1>2. Way(k) = Way(j) /\ To(k) = To(j) /\ Branch(k) = Branch(j) /\ Mine(k) = Mine(j)
  BY <1>1 DEF Way, To, Tap, Branch, Mine
<1>3. JobAt(k, left, phase) <=> JobAt(j, left, phase)
  BY <1>1, <1>2 DEF JobAt
<1>. QED
  BY <1>1, <1>3 DEF SoundJob, k

LEMMA ChangedJobs ==
  \A j : DOMAIN j = JobFields =>
    \A left, phase :
      DOMAIN Changed(j, left, phase) = JobFields /\ (JobAt(j, left, phase) <=> SoundJob(Changed(j, left, phase)))
BY ChangedJob

LEMMA ChangedJobsNext ==
  \A j : DOMAIN j = JobFields =>
    \A left, phase :
      /\ DOMAIN Changed(j, left, phase) = JobFields
      /\ JobAt(j, left, phase)' <=> SoundJob(Changed(j, left, phase))'
<1>1. (\A j : DOMAIN j = JobFields =>
         \A left, phase :
           DOMAIN Changed(j, left, phase) = JobFields /\ (JobAt(j, left, phase) <=> SoundJob(Changed(j, left, phase))))'
  BY ChangedJobs, PTL
<1>. QED
  BY <1>1 DEF Changed

LEMMA JobsAdvance ==
  ASSUME YardInv, Tapping, UNCHANGED <<Basis, stage, manifests>>, Grown, KeptClones, NEW j \in todo, Turned(j)
  PROVE  SoundJobs'
<1>1. ASSUME NEW k \in todo' PROVE DOMAIN k = JobFields /\ SoundJob(k)'
  <2>1. CASE k \in todo
    BY <2>1, JobKept DEF YardInv, SoundJobs, Yard
  <2>2. ASSUME NEW left, NEW phase, k = Changed(j, left, phase), JobAt(j, left, phase)'
        PROVE  DOMAIN k = JobFields /\ SoundJob(k)'
    <3>1. DOMAIN j = JobFields
      BY DEF YardInv, SoundJobs
    <3>. QED
      BY <2>2, <3>1, ChangedJobsNext
  <2>. QED
    BY <2>1, <2>2 DEF Turned
<1>. QED
  BY <1>1 DEF SoundJobs

LEMMA Turns ==
  ASSUME NEW j \in todo
  PROVE  /\ Done(j) => Turned(j)
         /\ \A left, phase : Proceeds(j, left, phase) /\ JobAt(j, left, phase)' => Turned(j)
         /\ \A why : Refused(j, why) => Turned(j)
         /\ \A step : Unfortunate(j, step) => Turned(j)
<1>1. Done(j) => Turned(j)
  BY DEF Done, Turned
<1>2. ASSUME NEW left, NEW phase, Proceeds(j, left, phase), JobAt(j, left, phase)' PROVE Turned(j)
  BY <1>2 DEF Proceeds, Turned, Changed
<1>3. ASSUME NEW why, Breaks(j, why) PROVE Turned(j)
  BY <1>3 DEF Breaks, Turned
<1>. QED
  BY <1>1, <1>2, <1>3 DEF Refused, Unfortunate

(* The next phase of a unit that stays on its way.                         *)
LEMMA Phases ==
  ASSUME UNCHANGED <<Basis, stage, manifests>>, KeptClones, Tapping, NEW j, SoundJob(j)
  PROVE  /\ PathsOf(j.what)' = PathsOf(j.what)
         /\ Way(j) = "clone" => JobAt(j, {}, "clone")'
         /\ Way(j) = "clone" /\ Mine(j)' # {} => \A phase \in {"checkout", "commit", "push"} : JobAt(j, {}, phase)'
         /\ \A phase : phase \notin {"clone", "checkout", "commit", "push", "file", "pull"} => JobAt(j, {}, phase)'
         /\ Way(j) = "file" =>
              \A left \in SUBSET PathsOf(j.what) :
                (\A p \in PathsOf(j.what) \ left : On(To(j).name, Branch(j), p)') =>
                  JobAt(j, left, "file")' /\ (left = {} => JobAt(j, left, "pull")')
<1>1. /\ Pipe' = Pipe /\ Way(j)' = Way(j) /\ To(j)' = To(j) /\ Branch(j)' = Branch(j)
      /\ manifests' = manifests
  BY TapKept
<1>2. PathsOf(j.what)' = PathsOf(j.what) /\ (j.what \in Units(manifests, Pipe))'
  BY <1>1 DEF PathsOf, SoundJob, JobAt
<1>. QED
  BY <1>1, <1>2 DEF JobAt

(* A step that leaves dist but for the checkouts, and does what is right.  *)
LEMMA YardAdvance ==
  ASSUME YardInv, Tapping, NEW j \in todo, UNCHANGED <<Basis, stage, manifests, files>>,
         SoundRemote', SoundClones', SoundPulls', Grown, KeptClones, Turned(j)
  PROVE  Yard' /\ SoundJobs'
BY JobsAdvance, FilesKept, ManifestsKept, SameBasis DEF Yard, YardInv

LEMMA AtTap ==
  ASSUME YardInv, Tapping, NEW j \in todo
  PROVE  SoundJob(j) /\ SoundManifests /\ SoundConfig /\ ctx.prerelease = Prerelease(world)
<1>1. ctx = Context(world, cfg)
  BY DEF YardInv, Control
<1>2. ctx.prerelease = Prerelease(world)
  BY <1>1 DEF Context
<1>3. SoundJob(j)
  BY DEF YardInv, SoundJobs
<1>. QED
  BY <1>2, <1>3 DEF YardInv, Yard

LEMMA StartYard == ASSUME YardInv, NEW j \in todo, StartUnit(j), UNCHANGED <<Basis, stage>> PROVE Yard' /\ SoundJobs'
<1>1. Tapping /\ UNCHANGED <<manifests, files, clones, remote, pulls>>
  BY DEF StartUnit, dist, forges
<1>2. SoundJob(j) /\ ctx.prerelease = Prerelease(world)
  BY <1>1, AtTap
<1>3. SoundRemote' /\ SoundClones' /\ SoundPulls' /\ Grown /\ KeptClones
  BY <1>1, RemoteKept, ClonesKept, PullsKept, SameBasis DEF YardInv, Yard
<1>4. Turned(j)
  <2>1. PICK first, left :
          /\ first = Way(j) /\ left = IF first = "file" THEN PathsOf(j.what) ELSE {}
          /\ Done(j) \/ (first # "skip" /\ Proceeds(j, left, first)) \/ Unfortunate(j, "hash")
    BY <1>2 DEF StartUnit, Way
  <2>2. first \in {"skip", "clone", "file", "nupkg"}
    BY <1>1, <2>1, Ways DEF Way, Tapping
  <2>3. CASE first = "file"
    <3>1. JobAt(j, left, "file")'
      BY <1>1, <1>2, <1>3, <2>1, <2>3, Phases
    <3>. QED
      BY <2>1, <2>3, <3>1, Turns
  <2>4. CASE first = "clone"
    <3>1. JobAt(j, {}, "clone")' /\ left = {}
      BY <1>1, <1>2, <1>3, <2>1, <2>4, Phases
    <3>. QED
      BY <2>1, <2>4, <3>1, Turns
  <2>5. CASE first = "nupkg"
    <3>1. JobAt(j, {}, "nupkg")' /\ left = {}
      BY <1>1, <1>2, <1>3, <2>1, <2>5, Phases
    <3>. QED
      BY <2>1, <2>5, <3>1, Turns
  <2>. QED
    BY <2>1, <2>2, <2>3, <2>4, <2>5, Turns
<1>. QED
  BY <1>1, <1>3, <1>4, YardAdvance

LEMMA PackageYard == ASSUME YardInv, NEW j \in todo, PushPackage(j), UNCHANGED <<Basis, stage>> PROVE Yard' /\ SoundJobs'
<1>1. Tapping /\ UNCHANGED <<manifests, files, clones, remote, pulls>>
  BY DEF PushPackage, dist, forges
<1>2. SoundRemote' /\ SoundClones' /\ SoundPulls' /\ Grown /\ KeptClones
  BY <1>1, RemoteKept, ClonesKept, PullsKept, SameBasis DEF YardInv, Yard
<1>3. Turned(j)
  BY Turns DEF PushPackage
<1>. QED
  BY <1>1, <1>2, <1>3, YardAdvance

LEMMA OpenYard == ASSUME YardInv, NEW j \in todo, OpenClone(j), UNCHANGED <<Basis, stage>> PROVE Yard' /\ SoundJobs'
<1>. DEFINE main == remote[To(j).git]["main"]
            new == [name |-> To(j).name, url |-> To(j).git, branch |-> To(j).branch,
                    on |-> "main", base |-> main, tree |-> main, head |-> main]
<1>1. Tapping /\ j.phase = "clone" /\ UNCHANGED <<manifests, files, remote, pulls>>
  BY DEF OpenClone, dist, forges
<1>2. SoundJob(j) /\ Way(j) = "clone" /\ To(j).git \in Repos
  BY <1>1, AtTap, WayTo DEF SoundJob, JobAt
<1>3. SoundRemote' /\ SoundPulls' /\ Grown
  BY <1>1, RemoteKept, PullsKept, SameBasis DEF YardInv, Yard
<1>4. CASE /\ UNCHANGED clones
           /\ (Mine(j) # {} /\ Proceeds(j, {}, "commit")) \/ Unfortunate(j, "clone")
  <2>1. SoundClones' /\ KeptClones
    BY <1>4, ClonesKept, SameBasis DEF YardInv, Yard
  <2>2. CASE Mine(j) # {} /\ Proceeds(j, {}, "commit")
    <3>1. Mine(j)' # {}
      BY <1>1, <2>1, <2>2, MineKept
    <3>2. JobAt(j, {}, "commit")'
      BY <1>1, <1>2, <2>1, <3>1, Phases
    <3>3. Turned(j)
      BY <2>2, <3>2, Turns
    <3>. QED
      BY <1>1, <1>3, <2>1, <3>3, YardAdvance
  <2>3. CASE Unfortunate(j, "clone")
    <3>1. Turned(j)
      BY <2>3, Turns
    <3>. QED
      BY <1>1, <1>3, <2>1, <3>1, YardAdvance
  <2>. QED
    BY <1>4, <2>2, <2>3
<1>5. CASE ReplaceClone(j, new) /\ Proceeds(j, {}, IF To(j).branch = "" THEN "commit" ELSE "checkout")
  <2>1. SoundTree(main)
    BY <1>2 DEF YardInv, Yard, SoundRemote
  <2>2. SoundClone(new)
    BY <1>2, <2>1 DEF SoundClone, CloneFields
  <2>3. SoundClones' /\ KeptClones /\ new \in clones'
    BY <1>5, <2>2, CloneReplaced, SameBasis DEF YardInv, Yard
  <2>4. Mine(j)' # {}
    <3>1. To(j)' = To(j)
      BY <1>1, TapKept
    <3>2. new.name = To(j).name /\ new.url = To(j).git /\ new.branch = To(j).branch
      OBVIOUS
    <3>. HIDE DEF new
    <3>. QED
      BY <2>3, <3>1, <3>2 DEF Mine
  <2>5. JobAt(j, {}, "commit")' /\ JobAt(j, {}, "checkout")'
    BY <1>1, <1>2, <2>3, <2>4, Phases
  <2>6. Turned(j)
    BY <1>5, <2>5, Turns
  <2>. QED
    BY <1>1, <1>3, <2>3, <2>6, YardAdvance
<1>. QED
  BY <1>4, <1>5 DEF OpenClone

(* A checkout that was changed where the git client changes it.            *)
LEMMA CloneChanged ==
  ASSUME YardInv, NEW j, Mine(j) # {}, UNCHANGED Basis, NEW c, SoundClone(c), ReplaceClone(j, c),
         c.name = Clone(j).name, c.url = Clone(j).url, c.branch = Clone(j).branch
  PROVE  SoundClones' /\ KeptClones
BY CloneIsMine, CloneReplaced, SameBasis DEF YardInv, Yard

LEMMA MySound ==
  ASSUME YardInv, Tapping, NEW j \in todo, j.phase \in {"checkout", "commit", "push"}
  PROVE  /\ SoundJob(j) /\ Way(j) = "clone" /\ Mine(j) # {} /\ SoundClone(Clone(j))
         /\ Clone(j).url = To(j).git /\ To(j).git \in Repos
         /\ SoundTree(Content(PathsOf(j.what)))
<1>1. SoundJob(j) /\ SoundManifests /\ SoundConfig /\ SoundFiles /\ SoundClones
  BY AtTap DEF YardInv, Yard
<1>2. Way(j) = "clone" /\ Mine(j) # {} /\ j.what \in Units(manifests, Pipe)
  BY <1>1 DEF SoundJob, JobAt
<1>3. To(j).git \in Repos /\ ~SkipsUpload(TapOf(Pipe, j.what), Prerelease(world))
  BY <1>1, <1>2, WayTo
<1>4. SoundTree(Content(PathsOf(j.what)))
  BY <1>1, <1>2, <1>3, UnitSound DEF Tapping
<1>. QED
  BY <1>1, <1>2, <1>3, <1>4, CloneIsMine DEF SoundClones

LEMMA CheckoutYard == ASSUME YardInv, NEW j \in todo, Checkout(j), UNCHANGED <<Basis, stage>> PROVE Yard' /\ SoundJobs'
<1>1. Tapping /\ j.phase = "checkout" /\ UNCHANGED <<manifests, files, remote, pulls>>
  BY DEF Checkout, dist, forges
<1>2. /\ SoundJob(j) /\ Way(j) = "clone" /\ Mine(j) # {} /\ SoundClone(Clone(j))
      /\ To(j).git \in Repos
  BY <1>1, MySound
<1>3. SoundRemote' /\ SoundPulls' /\ Grown
  BY <1>1, RemoteKept, PullsKept, SameBasis DEF YardInv, Yard
<1>4. CASE Unfortunate(j, "checkout") /\ UNCHANGED clones
  <2>1. SoundClones' /\ KeptClones /\ Turned(j)
    BY <1>4, ClonesKept, SameBasis, Turns DEF YardInv, Yard
  <2>. QED
    BY <1>1, <1>3, <2>1, YardAdvance
<1>5. ASSUME NEW b, NEW tree, SoundTree(tree), Proceeds(j, {}, "commit"),
             ReplaceClone(j, [Clone(j) EXCEPT !.on = b, !.base = tree, !.tree = tree, !.head = tree])
      PROVE  Yard' /\ SoundJobs'
  <2>. DEFINE c == [Clone(j) EXCEPT !.on = b, !.base = tree, !.tree = tree, !.head = tree]
  <2>1. /\ SoundClone(c)
        /\ c.name = Clone(j).name /\ c.url = Clone(j).url /\ c.branch = Clone(j).branch
    BY <1>2, <1>5 DEF SoundClone, CloneFields
  <2>2. SoundClones' /\ KeptClones
    BY <1>2, <1>5, <2>1, CloneChanged
  <2>3. JobAt(j, {}, "commit")'
    BY <1>1, <1>2, <2>2, MineKept, Phases
  <2>4. Turned(j)
    BY <1>5, <2>3, Turns
  <2>. QED
    BY <1>1, <1>3, <2>2, <2>4, YardAdvance
<1>6. ASSUME NEW b PROVE SoundTree(IF b \in DOMAIN remote[To(j).git] THEN remote[To(j).git][b] ELSE Clone(j).head)
  BY <1>2 DEF YardInv, Yard, SoundRemote, SoundClone
<1>. QED
  BY <1>4, <1>5, <1>6 DEF Checkout

LEMMA CommitYard == ASSUME YardInv, NEW j \in todo, Commit(j), UNCHANGED <<Basis, stage>> PROVE Yard' /\ SoundJobs'
<1>. DEFINE written == With(Clone(j).tree, Content(PathsOf(j.what)))
            dirty == [Clone(j) EXCEPT !.tree = written]
            done == [Clone(j) EXCEPT !.tree = written, !.head = written]
<1>1. Tapping /\ j.phase = "commit" /\ UNCHANGED <<manifests, files, remote, pulls>>
  BY DEF Commit, dist, forges
<1>2. /\ SoundJob(j) /\ Way(j) = "clone" /\ Mine(j) # {} /\ SoundClone(Clone(j))
      /\ SoundTree(Content(PathsOf(j.what)))
  BY <1>1, MySound
<1>3. SoundRemote' /\ SoundPulls' /\ Grown
  BY <1>1, RemoteKept, PullsKept, SameBasis DEF YardInv, Yard
<1>4. SoundTree(written) /\ Paths(Clone(j).tree) \subseteq Paths(written)
  BY <1>2, WithSound, WithPaths DEF SoundClone
<1>5. CASE /\ ReplaceClone(j, dirty)
           /\ Refused(j, "state") \/ Unfortunate(j, "commit")
  <2>. HIDE DEF written
  <2>1. /\ SoundClone(dirty)
        /\ dirty.name = Clone(j).name /\ dirty.url = Clone(j).url /\ dirty.branch = Clone(j).branch
    BY <1>2, <1>4 DEF SoundClone, CloneFields
  <2>2. SoundClones' /\ KeptClones
    BY <1>2, <1>5, <2>1, CloneChanged
  <2>3. Turned(j)
    BY <1>5, Turns
  <2>. QED
    BY <1>1, <1>3, <2>2, <2>3, YardAdvance
<1>6. CASE ReplaceClone(j, done) /\ Proceeds(j, {}, "push")
  <2>. HIDE DEF written
  <2>1. /\ SoundClone(done)
        /\ done.name = Clone(j).name /\ done.url = Clone(j).url /\ done.branch = Clone(j).branch
    BY <1>2, <1>4 DEF SoundClone, CloneFields
  <2>2. SoundClones' /\ KeptClones
    BY <1>2, <1>6, <2>1, CloneChanged
  <2>3. JobAt(j, {}, "push")'
    BY <1>1, <1>2, <2>2, MineKept, Phases
  <2>4. Turned(j)
    BY <1>6, <2>3, Turns
  <2>. QED
    BY <1>1, <1>3, <2>2, <2>4, YardAdvance
<1>. QED
  BY <1>5, <1>6 DEF Commit

(* A push is refused unless the branch is what it was when it was cloned:  *)
(* no file that is on it is lost.                                          *)
LEMMA PushYard == ASSUME YardInv, NEW j \in todo, Push(j), UNCHANGED <<Basis, stage>> PROVE Yard' /\ SoundJobs'
<1>. DEFINE c == Clone(j)
            pushed == [c EXCEPT !.base = c.head]
<1>1. Tapping /\ j.phase = "push" /\ UNCHANGED <<manifests, files, pulls>>
  BY DEF Push, dist
<1>2. SoundJob(j) /\ Mine(j) # {} /\ SoundClone(c)
  BY <1>1, MySound
<1>3. CASE UNCHANGED <<remote, clones>> /\ (Refused(j, "state") \/ Unfortunate(j, "push"))
  <2>1. SoundRemote' /\ SoundPulls' /\ Grown
    BY <1>1, <1>3, RemoteKept, PullsKept, SameBasis DEF YardInv, Yard
  <2>2. SoundClones' /\ KeptClones /\ Turned(j)
    BY <1>3, ClonesKept, SameBasis, Turns DEF YardInv, Yard
  <2>. QED
    BY <1>1, <2>1, <2>2, YardAdvance
<1>4. CASE /\ c.on \in DOMAIN remote[c.url] => remote[c.url][c.on] = c.base
           /\ Done(j) /\ ReplaceClone(j, pushed)
           /\ remote' = [remote EXCEPT ![c.url] = Reset(@, c.on, c.head)]
  <2>. HIDE DEF c
  <2>1. /\ SoundTree(c.head) /\ c.url \in Repos
        /\ c.on \in DOMAIN remote[c.url] => Paths(remote[c.url][c.on]) \subseteq Paths(c.head)
    BY <1>2, <1>4 DEF SoundClone
  <2>2. SoundRemote' /\ Grown
    BY <1>4, <2>1, BranchReset, SameBasis DEF YardInv, Yard
  <2>3. SoundPulls'
    BY <1>1, <2>2, PullsKept DEF YardInv, Yard
  <2>4. SoundClone(pushed) /\ pushed.name = c.name /\ pushed.url = c.url /\ pushed.branch = c.branch
    BY <1>2 DEF SoundClone, CloneFields
  <2>5. SoundClones' /\ KeptClones
    BY <1>2, <1>4, <2>4, CloneChanged DEF c
  <2>6. Turned(j)
    BY <1>4, Turns
  <2>. QED
    BY <1>1, <2>2, <2>3, <2>5, <2>6, YardAdvance
<1>. QED
  BY <1>3, <1>4 DEF Push

LEMMA CreateYard ==
  ASSUME YardInv, NEW j \in todo, NEW p \in j.left, CreateFile(j, p), UNCHANGED <<Basis, stage>>
  PROVE  Yard' /\ SoundJobs'
<1>0. PICK r, b : r = To(j).name /\ b = Branch(j)
  OBVIOUS
<1>. DEFINE tree == TreeOf(remote[r], b)
            written == With(tree, Content({p}))
            left == j.left \ {p}
            Leaving(t) == remote' = [remote EXCEPT ![r] = Reset(@, b, t)]
<1>1. Tapping /\ j.phase = "file" /\ UNCHANGED <<manifests, files, clones, pulls>>
  BY DEF CreateFile, dist
<1>2. /\ SoundJob(j) /\ Way(j) = "file" /\ r \in Repos /\ j.left \subseteq PathsOf(j.what)
      /\ SoundTree(Content({p})) /\ Paths(Content({p})) = {p}
  <2>1. SoundJob(j) /\ SoundManifests /\ SoundConfig /\ SoundFiles
    BY <1>1, AtTap DEF YardInv, Yard
  <2>2. Way(j) = "file" /\ j.what \in Units(manifests, Pipe) /\ j.left \subseteq PathsOf(j.what)
    BY <1>1, <2>1 DEF SoundJob, JobAt
  <2>3. r \in Repos /\ ~SkipsUpload(TapOf(Pipe, j.what), Prerelease(world)) /\ Pipe \notin AurKinds
    BY <1>0, <1>1, <2>1, <2>2, WayTo
  <2>4. SoundTree(Content({p})) /\ Paths(Content({p})) = {p}
    BY <1>1, <2>1, <2>2, <2>3, UnitSound DEF Tapping
  <2>. QED
    BY <1>0, <2>1, <2>2, <2>3, <2>4
<1>3. /\ SoundTree(tree)
      /\ b \in DOMAIN remote[r] => Paths(remote[r][b]) \subseteq Paths(tree)
      /\ SoundTree(written) /\ Paths(written) = Paths(tree) \cup {p}
  <2>1. SoundTree(tree) /\ (b \in DOMAIN remote[r] => tree = remote[r][b])
    BY <1>2 DEF TreeOf, YardInv, Yard, SoundRemote
  <2>. QED
    BY <1>2, <2>1, WithSound, WithPaths
<1>. HIDE DEF tree, written
<1>4. SoundClones' /\ KeptClones
  BY <1>1, ClonesKept, SameBasis DEF YardInv, Yard
<1>5. ASSUME NEW t, SoundTree(t), Paths(tree) \subseteq Paths(t), Leaving(t)
      PROVE  SoundRemote' /\ Grown /\ SoundPulls' /\ \A q \in Paths(t) : On(r, b, q)'
  <2>1. SoundRemote' /\ Grown /\ \A q \in Paths(t) : On(r, b, q)'
    BY <1>2, <1>3, <1>5, BranchReset, SameBasis DEF YardInv, Yard
  <2>. QED
    BY <1>1, <2>1, PullsKept DEF YardInv, Yard
<1>6. CASE Unfortunate(j, "file") /\ (UNCHANGED remote \/ Leaving(tree) \/ Leaving(written))
  <2>1. ASSUME UNCHANGED remote PROVE SoundRemote' /\ Grown /\ SoundPulls'
    BY <1>1, <2>1, RemoteKept, PullsKept, SameBasis DEF YardInv, Yard
  <2>2. ASSUME NEW t, SoundTree(t), Paths(tree) \subseteq Paths(t), Leaving(t) PROVE SoundRemote' /\ Grown /\ SoundPulls'
    BY <1>5, <2>2
  <2>3. Leaving(tree) \/ Leaving(written) => SoundRemote' /\ Grown /\ SoundPulls'
    BY <1>3, <2>2
  <2>4. Turned(j)
    BY <1>6, Turns
  <2>. QED
    BY <1>1, <1>4, <1>6, <2>1, <2>3, <2>4, YardAdvance
<1>7. CASE Leaving(written) /\ Afterwards(j, left)
  <2>1. SoundRemote' /\ Grown /\ SoundPulls' /\ \A q \in Paths(written) : On(r, b, q)'
    BY <1>3, <1>5, <1>7
  <2>2. ASSUME NEW q \in PathsOf(j.what) \ left PROVE On(To(j).name, Branch(j), q)'
    <3>1. To(j)' = To(j) /\ Branch(j)' = Branch(j)
      BY <1>1, TapKept
    <3>2. On(r, b, q)'
      <4>1. CASE q = p
        BY <1>3, <2>1, <4>1
      <4>2. CASE q # p
        <5>1. On(r, b, q)
          BY <1>0, <1>1, <1>2, <2>2, <4>2 DEF SoundJob, JobAt
        <5>. QED
          BY <1>2, <2>1, <5>1, OnGrown
      <4>. QED
        BY <4>1, <4>2
    <3>. QED
      BY <1>0, <3>1, <3>2
  <2>3. JobAt(j, left, "file")' /\ (left = {} => JobAt(j, left, "pull")')
    BY <1>1, <1>2, <1>4, <2>2, Phases
  <2>4. Turned(j)
    BY <1>7, <2>3, Turns DEF Afterwards
  <2>. QED
    BY <1>1, <1>4, <2>1, <2>4, YardAdvance
<1>. QED
  BY <1>0, <1>6, <1>7 DEF CreateFile, tree, written

LEMMA PullYard ==
  ASSUME YardInv, NEW j \in todo, OpenPullRequest(j), UNCHANGED <<Basis, stage>>
  PROVE  Yard' /\ SoundJobs'
<1>. DEFINE pull == [repo |-> To(j).name, head |-> Branch(j), unit |-> PathsOf(j.what)]
<1>1. Tapping /\ j.phase = "pull" /\ UNCHANGED <<manifests, files, clones, remote>>
  BY DEF OpenPullRequest, dist
<1>2. SoundRemote' /\ Grown /\ SoundClones' /\ KeptClones
  BY <1>1, RemoteKept, ClonesKept, SameBasis DEF YardInv, Yard
<1>3. /\ To(j).name \in Repos /\ PathsOf(j.what) # {}
      /\ \A p \in PathsOf(j.what) : On(To(j).name, Branch(j), p)
  <2>1. SoundJob(j) /\ SoundManifests /\ SoundConfig
    BY <1>1, AtTap
  <2>2. Way(j) = "file" /\ \A p \in PathsOf(j.what) : On(To(j).name, Branch(j), p)
    BY <1>1, <2>1 DEF SoundJob, JobAt
  <2>. QED
    BY <1>1, <2>1, <2>2, WayTo
<1>4. pulls' \subseteq pulls \cup {pull} /\ Turned(j)
  BY Turns DEF OpenPullRequest
<1>5. SoundPulls'
  <2>1. ASSUME NEW x \in {pull}
        PROVE  x.repo \in Repos /\ x.head \in DOMAIN remote[x.repo] /\ \A p \in x.unit : On(x.repo, x.head, p)
    BY <1>3 DEF On
  <2>2. \A x \in pulls' :
          x.repo \in Repos /\ x.head \in DOMAIN remote[x.repo] /\ \A p \in x.unit : On(x.repo, x.head, p)
    BY <1>4, <2>1 DEF YardInv, Yard, SoundPulls
  <2>. QED
    BY <1>1, <2>2 DEF SoundPulls, On, Paths
<1>. QED
  BY <1>1, <1>2, <1>4, <1>5, YardAdvance

LEMMA TapsYard ==
  ASSUME YardInv, Tapping, NEW j \in todo, TapStep(j), UNCHANGED <<Basis, stage>>
  PROVE  Yard' /\ SoundJobs'
<1>1. ~Make(j)
  BY DEF Make, Tapping
<1>. QED
  BY <1>1, StartYard, PackageYard, OpenYard, CheckoutYard, CommitYard, PushYard, CreateYard, PullYard DEF TapStep
-----------------------------------------------------------------------------
(* What a job is about, and how many configurations were begun.            *)
SoundPlace ==
  /\ AllAtOnce \/ at \in Nat
  /\ ~Publishes /\ Pipe \in Kinds => \A j \in todo : j.at \in DOMAIN cfg[Pipe]
  /\ Publishes /\ Pipe = "docker" => \A j \in todo : "type" \in DOMAIN j.what
  /\ Publishes /\ Pipe = "snapcraft" =>
       \A j \in todo : "type" \in DOMAIN j.what /\ j.what.type = "PublishableSnapcraft"

(* A step that leaves the repositories, their checkouts and the manifests. *)
LEMMA ElsewhereKept ==
  ASSUME YardInv, UNCHANGED <<Basis, Checkouts>>
  PROVE  SoundRemote' /\ SoundClones' /\ SoundPulls'
<1>1. UNCHANGED <<remote, clones, pulls>>
  BY DEF Checkouts
<1>. QED
  BY <1>1, RemoteKept, ClonesKept, PullsKept, SameBasis DEF YardInv, Yard

LEMMA JobsOutside ==
  ASSUME YardInv, ~Tapping, NEW j \in todo, Flow(j), UNCHANGED Basis
  PROVE  SoundJobs'
<1>1. ~Tapping'
  BY DEF Flow, Tapping, Publishes, Pipe, Now
<1>2. ASSUME NEW k \in todo' PROVE DOMAIN k = JobFields
  BY <1>2 DEF Flow, YardInv, SoundJobs
<1>. QED
  BY <1>1, <1>2 DEF SoundJobs

(* A pipe that makes the manifests of a tap writes all of its files.       *)
LEMMA MakeYard ==
  ASSUME YardInv, SoundArts, SoundPlace, NEW j \in todo, Make(j), Flow(j), UNCHANGED Basis
  PROVE  Yard' /\ SoundJobs'
<1>. DEFINE kind == Pipe
            t == Configured[j.at]
            made == Manifests(kind, j.at, t)
            paths == {m.path : m \in made}
<1>1. ~Publishes /\ ~Tapping /\ kind \in Kinds /\ UNCHANGED <<clones, remote, pulls, stage>>
  BY DEF Make, Tapping, dist, forges, Flow
<1>2. SoundJobs' /\ SoundRemote' /\ SoundClones' /\ SoundPulls'
  BY <1>1, JobsOutside, ElsewhereKept DEF Checkouts
<1>3. t = cfg[kind][j.at] /\ j.at \in DOMAIN cfg[kind] /\ stage # 1
  BY <1>1 DEF Configured, Field, Kinds, SoundPlace, YardInv, Control
<1>4. paths = FilesOf(<<kind, t>>)
  BY ManifestFields DEF FilesOf
<1>5. CASE UNCHANGED <<manifests, files>>
  BY <1>1, <1>2, <1>5, FilesKept, ManifestsKept, SameBasis DEF YardInv, Yard
<1>6. ASSUME doRun(kind, t) = "made", NEW entries \in Entries(kind, Archives(kind, t)),
             files' = [p \in DOMAIN files \cup paths |-> IF p \in paths THEN entries ELSE files[p]],
             manifests' \in {manifests, manifests \cup made}
      PROVE  Yard' /\ SoundJobs'
  <2>. HIDE DEF kind, t, paths, made
  <2>0. SoundFiles /\ SoundManifests /\ SameTaps
    BY SameBasis DEF YardInv, Yard
  <2>1. ASSUME NEW p \in paths
        PROVE  /\ SoundEntries(p, entries)
               /\ p[1] \in AurKinds =>
                    (\E part \in AurParts : p = <<p[1], p[2], part>>) /\ \A part \in AurParts : <<p[1], p[2], part>> \in paths
    <3>1. PICK own \in Parts(kind, t) : p = <<kind, t.name, own>>
      BY <1>4 DEF FilesOf, FileIn
    <3>2. SoundEntries(p, entries)
      BY <1>1, <1>6, <3>1, MadeSound
    <3>3. ASSUME p[1] \in AurKinds
          PROVE  (\E part \in AurParts : p = <<p[1], p[2], part>>) /\ \A part \in AurParts : <<p[1], p[2], part>> \in paths
      <4>1. Parts(kind, t) = AurParts
        BY <3>1, <3>3 DEF Parts, AurKinds, AurParts
      <4>. QED
        BY <1>4, <3>1, <4>1 DEF FilesOf, FileIn
    <3>. QED
      BY <3>2, <3>3
  <2>2. ASSUME NEW p \in DOMAIN files \ paths, p[1] \in AurKinds, NEW part \in AurParts
        PROVE  <<p[1], p[2], part>> \notin paths
    <3>1. PICK own \in AurParts : p = <<p[1], p[2], own>>
      BY <2>0, <2>2 DEF SoundFiles
    <3>. DEFINE q == <<p[1], p[2], part>>
    <3>2. q \in paths => <<q[1], q[2], own>> \in paths
      BY <2>1, <2>2
    <3>. QED
      BY <2>2, <3>1, <3>2
  <2>3. SoundFiles'
    <3>1. ASSUME NEW p \in DOMAIN files'
          PROVE  /\ SoundEntries(p, files'[p])
                 /\ p[1] \in AurKinds =>
                      /\ \E part \in AurParts : p = <<p[1], p[2], part>>
                      /\ \A part \in AurParts :
                           <<p[1], p[2], part>> \in DOMAIN files' /\ files'[<<p[1], p[2], part>>] = files'[p]
      <4>1. CASE p \in paths
        BY <1>6, <2>1, <4>1
      <4>2. CASE p \in DOMAIN files \ paths
        BY <1>6, <2>0, <2>2, <4>2 DEF SoundFiles
      <4>. QED
        BY <1>6, <4>1, <4>2
    <3>2. ASSUME NEW p \in DOMAIN files' PROVE SoundEntries(p, files[p])'
      <4>1. PICK e : e = files'[p]
        OBVIOUS
      <4>2. SoundEntries(p, e)'
        BY <2>0, <3>1, <4>1, SameSound
      <4>. QED
        BY <4>1, <4>2 DEF SoundEntries
    <3>. QED
      BY <3>1, <3>2 DEF SoundFiles
  <2>4. SoundManifests'
    <3>1. ASSUME NEW m \in manifests'
          PROVE  /\ m.kind \in Kinds /\ m.at \in DOMAIN cfg[m.kind]
                 /\ m \in Manifests(m.kind, m.at, cfg[m.kind][m.at])
                 /\ Manifests(m.kind, m.at, cfg[m.kind][m.at]) \subseteq manifests'
                 /\ m.path \in DOMAIN files'
                 /\ m.kind \in {"brew", "cask", "nix", "winget"} => ~Nowhere(cfg[m.kind][m.at])
      <4>1. CASE m \in manifests
        BY <1>6, <2>0, <4>1 DEF SoundManifests
      <4>2. CASE m \in made /\ made \subseteq manifests'
        <5>1. m.kind = kind /\ m.at = j.at
          BY <4>2, ManifestFields DEF made
        <5>2. m.path \in DOMAIN files'
          BY <1>6, <4>2 DEF paths
        <5>3. kind \in {"brew", "cask", "nix", "winget"} => ~Nowhere(t)
          BY <1>1, <1>6, MadeApart
        <5>. QED
          BY <1>1, <1>3, <4>2, <5>1, <5>2, <5>3 DEF made
      <4>. QED
        BY <1>6, <4>1, <4>2
    <3>. QED
      BY <1>1, <1>3, <3>1 DEF SoundManifests, Basis
  <2>. QED
    BY <1>2, <2>3, <2>4 DEF Yard
<1>. QED
  BY <1>1, <1>5, <1>6 DEF Make, dist
-----------------------------------------------------------------------------
(* Images, uploads and the rest do not touch what taps are made of.        *)
LEMMA OtherPipes == ASSUME NEW j, ImageStep(j) \/ UploadStep(j) PROVE ~Tapping
<1>1. \A name : CopyImage(j, name) => Pipe = "ko"
  BY DEF CopyImage
<1>2. ImageStep(j) => Pipe \in {"docker", "docker.Manifest", "dockerv2.Publish", "dockerv2.Snapshot", "ko",
                               "dockerdigest", "sign.Docker", "snapcraft"}
  BY <1>1 DEF ImageStep, BuildImage, PushImage, PushManifest, BuildPush, KoBuild, WriteDigests, SignImages, PushSnap
<1>3. UploadStep(j) => Pipe \in {"blob", "upload", "artifactory", "custompublishers", "iru", "release",
                                "metadata.Artifacts", "mcp", "milestone", "announce"}
  BY DEF UploadStep, Deliver, PlaceOf, Refuse, UploadFile, CreateApp, UpdateApp, Release, writeArtifacts,
         PublishServer, CloseMilestone, StartAnnouncing, Request
<1>. QED
  BY <1>2, <1>3 DEF Tapping, Kinds

(* The list of artifacts that metadata.Artifacts writes lists no archive.  *)
LEMMA ListWritten ==
  ASSUME NEW j, UploadStep(j), Pipe = "metadata.Artifacts"
  PROVE  files' = [p \in DOMAIN files \cup {<<"artifacts.json">>} |-> IF p \in DOMAIN files THEN files[p] ELSE {}]
BY DEF UploadStep, Deliver, PlaceOf, Refuse, UploadFile, CreateApp, UpdateApp, Release, writeArtifacts,
       PublishServer, CloseMilestone, StartAnnouncing, Request

LEMMA OutsideYard ==
  ASSUME YardInv, NEW j \in todo, ImageStep(j) \/ UploadStep(j)
  PROVE  Yard' /\ SoundJobs' /\ Framed(j)
<1>1. stage \in 1..39 /\ stage # 1
  BY DEF YardInv, Control
<1>2. Framed(j) /\ UNCHANGED <<manifests, Checkouts>> /\ (UNCHANGED files \/ (UploadStep(j) /\ Pipe = "metadata.Artifacts"))
  BY <1>1, ImageFrame, UploadFrame DEF dist
<1>3. ~Tapping /\ UNCHANGED <<Basis, stage>> /\ Flow(j)
  BY <1>2, OtherPipes DEF Framed, Flow
<1>4. SoundJobs' /\ SoundRemote' /\ SoundClones' /\ SoundPulls'
  BY <1>2, <1>3, JobsOutside, ElsewhereKept
<1>5. SoundFiles /\ SoundManifests /\ SameTaps
  BY <1>3, SameBasis DEF YardInv, Yard
<1>6. CASE UNCHANGED files
  BY <1>2, <1>3, <1>4, <1>5, <1>6, FilesKept, ManifestsKept DEF Yard
<1>7. CASE UploadStep(j) /\ Pipe = "metadata.Artifacts"
  <2>. DEFINE list == <<"artifacts.json">>
  <2>1. files' = [p \in DOMAIN files \cup {list} |-> IF p \in DOMAIN files THEN files[p] ELSE {}]
    BY <1>7, ListWritten
  <2>2. list[1] \notin AurKinds
    BY DEF AurKinds
  <2>. HIDE DEF list
  <2>3. ASSUME NEW p \in DOMAIN files'
        PROVE  /\ SoundEntries(p, files[p])'
               /\ p[1] \in AurKinds =>
                    /\ \E part \in AurParts : p = <<p[1], p[2], part>>
                    /\ \A part \in AurParts :
                         <<p[1], p[2], part>> \in DOMAIN files' /\ files'[<<p[1], p[2], part>>] = files'[p]
    <3>1. PICK e : e = files'[p]
      OBVIOUS
    <3>2. SoundEntries(p, e)
      <4>1. CASE p \in DOMAIN files
        BY <1>5, <2>1, <3>1, <4>1 DEF SoundFiles
      <4>2. CASE p \notin DOMAIN files
        BY <2>1, <3>1, <4>2 DEF SoundEntries
      <4>. QED
        BY <4>1, <4>2
    <3>3. SoundEntries(p, files[p])'
      <4>1. SoundEntries(p, e)'
        BY <1>5, <3>2, SameSound
      <4>. QED
        BY <3>1, <4>1 DEF SoundEntries
    <3>4. p[1] \in AurKinds => p \in DOMAIN files
      BY <2>1, <2>2
    <3>. QED
      BY <1>5, <2>1, <3>3, <3>4 DEF SoundFiles
  <2>4. SoundFiles'
    BY <2>3 DEF SoundFiles
  <2>5. SoundManifests'
    BY <1>2, <1>3, <1>5, <2>1 DEF SoundManifests, Basis
  <2>. QED
    BY <1>2, <1>4, <2>4, <2>5 DEF Yard
<1>. QED
  BY <1>2, <1>6, <1>7
-----------------------------------------------------------------------------
(* What is added to the list of artifacts is not what taps list, nor what  *)
(* is copied into an image.                                                *)
Contained == Copied \cup {"PyWheel"}
Other(a) == "type" \in DOMAIN a /\ a.type \notin Listable \cup Contained
Added ==
  /\ \A a \in arts' : a \in arts \/ Other(a)
  /\ \A a \in arts \ arts' : a.type \notin Listable

LEMMA NewArtifacts ==
  /\ \A d, i : \A a \in PublishableImages(d, i) : Other(a)
  /\ \A image, d, digest : "type" \in DOMAIN image => Other(Pushed(image, d, digest))
  /\ \A m, images, digest : Other(ManifestArtifact(m, images, digest))
  /\ \A d, name, digest : Other(V2Image(d, name, digest))
  /\ \A k, name, digest : Other(KoArtifact(k, name, digest))
  /\ \A u : \A a \in ExtraFiles(u) : Other(a)
  /\ \A snap : "type" \in DOMAIN snap => Other([snap EXCEPT !.type = "Snapcraft"])
  /\ Other(writeMetadata)
<1>. USE DEF Other, Listable, Contained, Copied
<1>1. ASSUME NEW a, "type" \in DOMAIN a PROVE \A type : [a EXCEPT !.type = type].type = type
  BY <1>1
<1>2. ASSUME NEW d, NEW i, NEW a \in PublishableImages(d, i) PROVE Other(a)
  BY <1>2 DEF PublishableImages, Blank
<1>3. ASSUME NEW image, NEW d, NEW digest, "type" \in DOMAIN image PROVE Other(Pushed(image, d, digest))
  BY <1>3 DEF Pushed
<1>4. ASSUME NEW m, NEW images, NEW digest PROVE Other(ManifestArtifact(m, images, digest))
  BY DEF ManifestArtifact, Blank
<1>5. ASSUME NEW k, NEW name, NEW digest PROVE Other(V2Image(k, name, digest)) /\ Other(KoArtifact(k, name, digest))
  BY DEF V2Image, KoArtifact, Blank
<1>6. ASSUME NEW u, NEW a \in ExtraFiles(u) PROVE Other(a)
  BY DEF ExtraFiles, UploadableFile, Blank
<1>7. ASSUME NEW snap, "type" \in DOMAIN snap PROVE Other([snap EXCEPT !.type = "Snapcraft"])
  BY <1>7
<1>8. Other(writeMetadata)
  BY DEF writeMetadata, Blank
<1>. HIDE DEF Other
<1>. QED
  BY <1>2, <1>3, <1>4, <1>5, <1>6, <1>7, <1>8

LEMMA ArtsKept == ASSUME SoundArts, Added, UNCHANGED built PROVE SoundArts'
BY DEF SoundArts, Added, Other

LEMMA Adding ==
  ASSUME NEW new, arts' \in {arts, arts \cup new}, \A a \in new : Other(a)
  PROVE  Added
BY DEF Added

LEMMA StepArts ==
  ASSUME Control, SoundPlace, NEW j \in todo, TapStep(j) \/ ImageStep(j) \/ UploadStep(j)
  PROVE  Added
<1>1. ASSUME UNCHANGED arts PROVE Added
  BY <1>1 DEF Added
<1>2. TapStep(j) => UNCHANGED arts
  BY DEF TapStep, Make, StartUnit, PushPackage, OpenClone, Checkout, Commit, Push, CreateFile, OpenPullRequest
<1>3. CASE BuildImage(j)
  <2>. DEFINE new == PublishableImages(Configured[j.at], j.at)
  <2>1. arts' \in {arts, arts \cup new}
    BY <1>3 DEF BuildImage
  <2>2. \A a \in new : Other(a)
    BY NewArtifacts
  <2>. HIDE DEF new
  <2>. QED
    BY <2>1, <2>2, Adding
<1>4. CASE PushImage(j)
  <2>. DEFINE new == {Pushed(j.what, Configured[j.what.format], DigestOf(j.what.format))}
  <2>1. arts' \in {arts, arts \cup new}
    BY <1>4 DEF PushImage
  <2>2. "type" \in DOMAIN j.what
    BY <1>4 DEF PushImage, SoundPlace
  <2>3. \A a \in new : Other(a)
    BY <2>2, NewArtifacts
  <2>. HIDE DEF new
  <2>. QED
    BY <2>1, <2>3, Adding
<1>5. CASE PushManifest(j)
  <2>. DEFINE m == Configured[j.at]
              new == {ManifestArtifact(m, Resolved(manifestImages(m)), DigestOf(j.at))}
  <2>1. arts' \in {arts, arts \cup new}
    BY <1>5 DEF PushManifest
  <2>2. \A a \in new : Other(a)
    BY NewArtifacts
  <2>. HIDE DEF new
  <2>. QED
    BY <2>1, <2>2, Adding
<1>6. CASE BuildPush(j)
  <2>. DEFINE d == Configured[j.at]
              new == {V2Image(d, n, DigestOf(j.at)) : n \in makeImageList(d.images, d.tags)}
  <2>1. arts' \in {arts, arts \cup new}
    BY <1>6 DEF BuildPush
  <2>2. \A a \in new : Other(a)
    BY NewArtifacts
  <2>. HIDE DEF new
  <2>. QED
    BY <2>1, <2>2, Adding
<1>7. CASE KoBuild(j)
  <2>. DEFINE k == Configured[j.at]
              new == {KoArtifact(k, KoName(k, k.repositories[1]), DigestOf(j.at))}
  <2>1. arts' \in {arts, arts \cup new}
    BY <1>7 DEF KoBuild
  <2>2. \A a \in new : Other(a)
    BY NewArtifacts
  <2>. HIDE DEF new
  <2>. QED
    BY <2>1, <2>2, Adding
<1>8. ASSUME NEW name, CopyImage(j, name) PROVE Added
  <2>. DEFINE new == {KoArtifact(Configured[j.at], name, DigestOf(j.at))}
  <2>1. arts' \in {arts, arts \cup new}
    BY <1>8 DEF CopyImage
  <2>2. \A a \in new : Other(a)
    BY NewArtifacts
  <2>. HIDE DEF new
  <2>. QED
    BY <2>1, <2>2, Adding
<1>9. WriteDigests(j) \/ SignImages(j) => UNCHANGED arts
  BY DEF WriteDigests, SignImages
<1>10. CASE PushSnap(j)
  <2>. DEFINE snap == j.what
              new == [snap EXCEPT !.type = "Snapcraft"]
  <2>1. Pipe = "snapcraft" /\ (UNCHANGED arts \/ arts' = (arts \ {snap}) \cup {new})
    BY <1>10 DEF PushSnap
  <2>2. Publishes
    BY <2>1, StageNames DEF Control, Between, Prepared, Kinds
  <2>3. "type" \in DOMAIN snap /\ snap.type = "PublishableSnapcraft"
    BY <2>1, <2>2 DEF SoundPlace
  <2>4. Other(new) /\ snap.type \notin Listable
    BY <2>3, NewArtifacts DEF Listable
  <2>. HIDE DEF new
  <2>. QED
    BY <2>1, <2>4 DEF Added
<1>11. CASE Release(j)
  <2>1. arts' \in {arts, arts \cup ExtraFiles(cfg.release)}
    BY <1>11 DEF Release
  <2>2. \A a \in ExtraFiles(cfg.release) : Other(a)
    BY NewArtifacts
  <2>. QED
    BY <2>1, <2>2, Adding
<1>12. UploadStep(j) => Release(j) \/ UNCHANGED arts
  BY DEF UploadStep, Deliver, Refuse, UploadFile, CreateApp, UpdateApp, writeArtifacts,
         PublishServer, CloseMilestone, StartAnnouncing, Request
<1>. QED
  BY <1>1, <1>2, <1>3, <1>4, <1>5, <1>6, <1>7, <1>8, <1>9, <1>10, <1>11, <1>12 DEF ImageStep
-----------------------------------------------------------------------------
(* The release comes before the taps, and ends the run when it fails: once *)
(* anything is committed, or the release is past, the archives are there.  *)
Whole == ~cfg.release.disable /\ ~cfg.release.skipUpload /\ cfg.release.ids = {}
Uploaded == Archived \subseteq released
Past ==
  /\ "publish" \notin ctx.skips
  /\ stage > 25 \/ (stage = 25 /\ at > 0 /\ todo = {} /\ ~failed)
ReleasedBefore == Whole => (Committed # {} \/ Past => Uploaded)

LEMMA CommittedStays == UNCHANGED remote => Committed' = Committed
BY DEF Committed, Trees

LEMMA UploadedStays == ASSUME Uploaded, UNCHANGED built, released \subseteq released' PROVE Uploaded'
BY DEF Uploaded, Archived

(* Every archive is an asset of a release that is limited to no ids.       *)
LEMMA AllAssets ==
  ASSUME SoundArts, NEW c, c.ids = {}
  PROVE  Archived \subseteq {a.path : a \in Assets(c)}
<1>. SUFFICES ASSUME NEW a \in built, a.type \in Listable PROVE a \in Assets(c)
  BY DEF Archived
<1>1. a \in arts
  BY DEF SoundArts
<1>2. ByIDs(a, c.ids)
  BY DEF ByIDs, autoOr
<1>3. \A more : ByTypes(a, ReleaseUploadableTypes \cup more)
  BY DEF ByTypes, autoOr, ReleaseUploadableTypes, Listable
<1>. QED
  BY <1>1, <1>2, <1>3 DEF Assets

LEMMA StepReleased ==
  ASSUME Control, SoundArts, ReleasedBefore, NEW j \in todo, TapStep(j) \/ ImageStep(j) \/ UploadStep(j), Framed(j)
  PROVE  ReleasedBefore'
<1>1. stage \in 1..39 /\ ~Skipped
  BY DEF Control
<1>2. UNCHANGED <<Basis, stage, at>>
  BY DEF Framed, Flow
<1>3. Whole' = Whole /\ UNCHANGED built
  BY <1>2 DEF Basis, Whole
<1>4. released \subseteq released'
  <2>1. TapStep(j) => UNCHANGED released
    BY DEF TapStep, Make, StartUnit, PushPackage, OpenClone, Checkout, Commit, Push, CreateFile, OpenPullRequest, records
  <2>2. ImageStep(j) => UNCHANGED released
    BY <1>1, ImageFrame
  <2>3. UploadStep(j) => UNCHANGED released \/ Release(j)
    BY DEF UploadStep, Deliver, Refuse, UploadFile, CreateApp, UpdateApp, writeArtifacts,
           PublishServer, CloseMilestone, StartAnnouncing, Request, records
  <2>4. Release(j) => released \subseteq released'
    BY DEF Release
  <2>. QED
    BY <2>1, <2>2, <2>3, <2>4
<1>5. Uploaded => Uploaded'
  BY <1>3, <1>4, UploadedStays
<1>6. CASE Tapping
  <2>1. Past
    BY <1>1, <1>6, StageNames DEF Past, Tapping, Skipped
  <2>. QED
    BY <1>3, <1>5, <2>1 DEF ReleasedBefore
<1>7. CASE ~Tapping
  <2>1. Committed' = Committed
    BY <1>7, CommittedStays DEF Framed, Checkouts
  <2>2. ASSUME Whole, Past', ~Past PROVE Uploaded'
    <3>1. stage = 25 /\ todo' = {} /\ ~failed'
      BY <1>2, <2>2 DEF Past, Basis
    <3>2. Publishes /\ Pipe = "release"
      BY <1>1, <3>1, StageNames
    <3>3. ~TapStep(j)
      BY <1>7, <3>2 DEF TapStep, Make, StartUnit, PushPackage, OpenClone, Checkout, Commit, Push, CreateFile, OpenPullRequest
    <3>4. ~ImageStep(j)
      BY <3>2 DEF ImageStep, BuildImage, PushImage, PushManifest, BuildPush, KoBuild, CopyImage, WriteDigests, SignImages,
             PushSnap
    <3>5. UploadStep(j) => Release(j)
      BY <3>2 DEF UploadStep, Deliver, PlaceOf, Refuse, UploadFile, CreateApp, UpdateApp, writeArtifacts,
             PublishServer, CloseMilestone, StartAnnouncing, Request
    <3>6. Unfortunate(j, "release") => failed'
      BY DEF Unfortunate, Breaks
    <3>7. released' = released \cup {a.path : a \in Assets(cfg.release)}
      BY <2>2, <3>1, <3>3, <3>4, <3>5, <3>6 DEF Release, Whole
    <3>8. Archived \subseteq {a.path : a \in Assets(cfg.release)}
      BY <2>2, AllAssets DEF Whole
    <3>. QED
      BY <1>3, <3>7, <3>8 DEF Uploaded, Archived
  <2>. QED
    BY <1>3, <1>5, <2>1, <2>2 DEF ReleasedBefore
<1>. QED
  BY <1>6, <1>7
-----------------------------------------------------------------------------
(* All of it. Until the first run is set up nothing is there; from then on *)
(* setting the defaults again changes no tap.                              *)
Untouched == manifests = {} /\ files = <<>> /\ clones = {} /\ pulls = {} /\ Committed = {}
Sound ==
  /\ YardInv /\ SoundArts /\ SoundPlace /\ ReleasedBefore
  /\ Settled \/ (stage = 1 /\ Untouched)

LEMMA UntouchedYard ==
  Untouched /\ DOMAIN remote = Repos /\ (\A r \in Repos : "main" \in DOMAIN remote[r]) => Yard
<1>. SUFFICES ASSUME Untouched, DOMAIN remote = Repos, \A r \in Repos : "main" \in DOMAIN remote[r] PROVE Yard
  OBVIOUS
<1>1. \A r \in Repos : \A b \in DOMAIN remote[r] : remote[r][b] = {}
  BY DEF Untouched, Committed, Trees
<1>2. SoundRemote
  BY <1>1 DEF SoundRemote, SoundTree
<1>3. SoundFiles
  BY DEF Untouched, SoundFiles
<1>. QED
  BY <1>2, <1>3 DEF Yard, Untouched, SoundManifests, SoundClones, SoundPulls

LEMMA SettledStays == ASSUME Settled, UNCHANGED cfg PROVE Settled'
BY DEF Settled

LEMMA ConfigStays == ASSUME SoundConfig, UNCHANGED cfg PROVE SoundConfig'
BY DEF SoundConfig

LEMMA InitSound == Init => Sound
<1>. SUFFICES ASSUME Init PROVE Sound
  OBVIOUS
<1>1. Control /\ SoundConfig
  BY InitLeaves, InitConfig DEF LeavesInv
<1>2. Untouched /\ stage = 1 /\ at = 0 /\ todo = {}
  BY DEF Init, Untouched, Committed, Trees
<1>3. Yard
  BY <1>2, UntouchedYard DEF Init
<1>4. SoundArts
  <2>1. PICK s \in Scenarios : built = s.built
    BY DEF Init
  <2>2. \A a \in built : "type" \in DOMAIN a
    BY <2>1, PublishingAssumption DEF Blank
  <2>. QED
    BY <2>2 DEF Init, SoundArts
<1>5. SoundJobs /\ SoundPlace /\ ReleasedBefore
  BY <1>2 DEF SoundJobs, SoundPlace, ReleasedBefore, Past, Untouched
<1>. QED
  BY <1>1, <1>2, <1>3, <1>4, <1>5 DEF Sound, YardInv

(* Nothing that matters here changes.                                      *)
LEMMA SoundStays ==
  ASSUME Sound, Control', UNCHANGED <<Basis, Checkouts, stage, at, todo, failed, manifests, files, arts, released>>
  PROVE  Sound'
<1>1. SameTaps /\ UNCHANGED <<remote, clones, pulls, cfg, built, ctx>>
  BY SameBasis DEF Basis, Checkouts
<1>2. Yard'
  BY <1>1, ElsewhereKept, FilesKept, ManifestsKept DEF Sound, YardInv, Yard
<1>3. Grown /\ KeptClones
  BY <1>1, RemoteKept, ClonesKept DEF Sound, YardInv, Yard
<1>4. SoundJobs'
  <2>1. Tapping' <=> Tapping
    BY DEF Tapping, Publishes, Pipe, Now
  <2>. QED
    BY <1>3, <2>1, JobKept DEF Sound, YardInv, Yard, SoundJobs
<1>5. SoundArts' /\ SoundConfig' /\ (Settled => Settled')
  BY <1>1, ArtsKept, ConfigStays, SettledStays DEF Sound, YardInv, Added
<1>6. SoundPlace'
  BY <1>1 DEF Sound, SoundPlace, AllAtOnce, Publishes, Pipe, Now
<1>7. Committed' = Committed
  BY <1>1, CommittedStays
<1>8. ReleasedBefore'
  BY <1>1, <1>7 DEF Sound, ReleasedBefore, Whole, Past, Uploaded, Archived
<1>9. Untouched => Untouched'
  BY <1>1, <1>7 DEF Untouched
<1>. QED
  BY <1>2, <1>4, <1>5, <1>6, <1>8, <1>9 DEF Sound, YardInv

LEMMA StepPlace ==
  ASSUME SoundJobs, SoundPlace, NEW j \in todo, Flow(j), UNCHANGED Basis
  PROVE  SoundPlace'
<1>1. ASSUME NEW k \in todo' PROVE \E o \in todo : k.at = o.at /\ k.what = o.what
  <2>1. ASSUME NEW left, NEW phase, k = [j EXCEPT !.left = left, !.phase = phase]
        PROVE  k.at = j.at /\ k.what = j.what
    BY <2>1 DEF SoundJobs, JobFields
  <2>. QED
    BY <1>1, <2>1 DEF Flow
<1>2. UNCHANGED <<cfg, stage, at>>
  BY DEF Flow, Basis
<1>3. Pipe' = Pipe /\ (Publishes' <=> Publishes) /\ (AllAtOnce' <=> AllAtOnce)
  BY <1>2 DEF Pipe, Publishes, Now, AllAtOnce
<1>. QED
  BY <1>1, <1>2, <1>3 DEF SoundPlace

LEMMA StepSound == ASSUME Sound, Control', Step PROVE Sound'
<1>1. PICK j \in todo : TapStep(j) \/ ImageStep(j) \/ UploadStep(j)
  BY DEF Step
<1>2. Control /\ stage # 1 /\ YardInv /\ SoundArts /\ SoundPlace /\ ReleasedBefore /\ Settled
  BY <1>1 DEF Sound, YardInv, Control
<1>3. Framed(j) /\ Yard' /\ SoundJobs'
  <2>1. CASE TapStep(j) /\ Tapping
    <3>1. Framed(j)
      BY <2>1, TapFrame
    <3>2. UNCHANGED <<Basis, stage>>
      BY <3>1 DEF Framed, Flow
    <3>. QED
      BY <1>2, <2>1, <3>1, <3>2, TapsYard
  <2>2. CASE TapStep(j) /\ ~Tapping
    <3>1. Framed(j)
      BY <2>2, TapFrame
    <3>2. Make(j)
      BY <2>2 DEF TapStep, StartUnit, PushPackage, OpenClone, Checkout, Commit, Push, CreateFile, OpenPullRequest
    <3>. QED
      BY <1>2, <3>1, <3>2, MakeYard DEF Framed
  <2>3. CASE ImageStep(j) \/ UploadStep(j)
    BY <1>2, <2>3, OutsideYard
  <2>. QED
    BY <1>1, <2>1, <2>2, <2>3
<1>4. UNCHANGED <<cfg, built, Basis>> /\ Flow(j)
  BY <1>3 DEF Framed, Basis
<1>5. SoundArts' /\ SoundConfig' /\ Settled'
  BY <1>1, <1>2, <1>4, StepArts, ArtsKept, ConfigStays, SettledStays DEF YardInv
<1>6. SoundPlace'
  BY <1>2, <1>4, StepPlace DEF YardInv
<1>7. ReleasedBefore'
  BY <1>1, <1>2, <1>3, StepReleased
<1>. QED
  BY <1>3, <1>5, <1>6, <1>7 DEF Sound, YardInv

(* The jobs a stage begins with.                                           *)
LEMMA NewJobs ==
  ASSUME NEW i, NEW k \in JobsOf(i)
  PROVE  /\ DOMAIN k = JobFields /\ k.at = i /\ k.left = {}
         /\ Tapping => k.what \in Units(manifests, Pipe) /\ k.phase = "start"
         /\ Publishes /\ Pipe = "docker" => k.what \in OfType("PublishableDockerImage")
         /\ Publishes /\ Pipe = "snapcraft" => k.what \in OfType("PublishableSnapcraft")
<1>1. \A what, phase :
        LET job == Job(i, what, phase) IN
        DOMAIN job = JobFields /\ job.at = i /\ job.left = {} /\ job.what = what /\ job.phase = phase
  BY DEF Job, JobFields
<1>2. PICK what, phase : k = Job(i, what, phase)
  BY DEF JobsOf, Alone, Each
<1>3. CASE Tapping
  <2>1. k \in Each(i, Units(manifests, Pipe))
    BY <1>3 DEF JobsOf, Tapping, Kinds
  <2>2. \E x \in Units(manifests, Pipe) : k = Job(i, x, "start")
    BY <2>1 DEF Each
  <2>. QED
    BY <1>1, <1>3, <2>2 DEF Tapping, Kinds
<1>4. CASE Publishes /\ Pipe \in {"docker", "snapcraft"}
  <2>1. \/ Pipe = "docker" /\ k \in Each(i, OfType("PublishableDockerImage"))
        \/ Pipe = "snapcraft" /\ k \in Each(i, OfType("PublishableSnapcraft"))
    BY <1>4 DEF JobsOf, Kinds
  <2>. QED
    BY <1>1, <1>4, <2>1 DEF Each, Tapping, Kinds
<1>. QED
  BY <1>1, <1>2, <1>3, <1>4

LEMMA BeginSound == ASSUME Sound, Control', Begin PROVE Sound'
<1>1. /\ UNCHANGED <<Basis, Checkouts, stage, failed, manifests, files, arts, released>>
      /\ ~Setting /\ todo = {} /\ at < Number
      /\ at' = IF AllAtOnce THEN Number ELSE at + 1
      /\ todo' = UNION {JobsOf(i) : i \in (at + 1)..at'}
  BY DEF Begin, Basis, Checkouts, fixed, dist, forges, stores, records
<1>2. /\ stage \in 1..39 /\ stage # 1 /\ Settled /\ SameTaps /\ SoundConfig /\ SoundArts /\ SoundPlace
      /\ UNCHANGED <<remote, clones, pulls, cfg, built, ctx>>
  BY <1>1, StageNames, SameBasis DEF Sound, YardInv, Control, Basis, Checkouts
<1>3. /\ Pipe' = Pipe /\ (Publishes' <=> Publishes) /\ (Tapping' <=> Tapping) /\ (AllAtOnce' <=> AllAtOnce)
  BY <1>1 DEF Pipe, Publishes, Now, Tapping, AllAtOnce
<1>4. Yard'
  BY <1>1, <1>2, ElsewhereKept, FilesKept, ManifestsKept DEF Sound, YardInv, Yard
<1>5. ASSUME NEW k \in todo' PROVE \E i \in (at + 1)..at' : k \in JobsOf(i)
  BY <1>1
<1>6. SoundJobs'
  <2>1. ASSUME NEW k \in todo', Tapping PROVE SoundJob(k)'
    <3>1. k.what \in Units(manifests, Pipe) /\ k.phase = "start" /\ k.left = {}
      BY <1>5, <2>1, NewJobs
    <3>. QED
      BY <1>1, <1>3, <3>1 DEF SoundJob, JobAt
  <2>. QED
    BY <1>3, <1>5, <2>1, NewJobs DEF SoundJobs
<1>7. SoundPlace'
  <2>1. AllAtOnce \/ at' \in Nat
    BY <1>1, <1>2 DEF SoundPlace
  <2>2. ASSUME ~Publishes, Pipe \in Kinds, NEW k \in todo' PROVE k.at \in DOMAIN cfg[Pipe]
    <3>1. ~AllAtOnce /\ at \in Nat
      BY <1>2, <2>2 DEF SoundPlace, AllAtOnce, Kinds
    <3>2. Number \in {0, Len(cfg[Pipe])}
      BY <2>2 DEF Number, FromArtifacts, Configured, Field, Kinds
    <3>3. k.at \in (at + 1)..(at + 1)
      BY <1>1, <1>5, <3>1, NewJobs
    <3>4. Len(cfg[Pipe]) \in Nat /\ DOMAIN cfg[Pipe] = 1..Len(cfg[Pipe])
      BY <1>2, <2>2 DEF SoundConfig
    <3>. QED
      BY <1>1, <3>1, <3>2, <3>3, <3>4
  <2>3. ASSUME Publishes, NEW k \in todo'
        PROVE  /\ Pipe = "docker" => "type" \in DOMAIN k.what
               /\ Pipe = "snapcraft" => "type" \in DOMAIN k.what /\ k.what.type = "PublishableSnapcraft"
    <3>1. /\ Pipe = "docker" => k.what \in OfType("PublishableDockerImage")
          /\ Pipe = "snapcraft" => k.what \in OfType("PublishableSnapcraft")
      BY <1>5, <2>3, NewJobs
    <3>. QED
      BY <1>2, <3>1 DEF OfType, SoundArts
  <2>. QED
    BY <1>2, <1>3, <2>1, <2>2, <2>3 DEF SoundPlace
<1>8. Past' => Past
  <2>1. CASE stage = 25
    <3>1. Publishes /\ Pipe = "release"
      BY <1>2, <2>1, StageNames
    <3>2. ~AllAtOnce /\ at \in Nat /\ at + 1 \in (at + 1)..(at + 1)
      BY <1>2, <3>1 DEF SoundPlace, AllAtOnce
    <3>3. JobsOf(at + 1) = {Job(at + 1, {}, "start")}
      BY <3>1 DEF JobsOf, Alone, Kinds
    <3>4. todo' # {}
      BY <1>1, <3>2, <3>3
    <3>. QED
      BY <1>1, <2>1, <3>4 DEF Past
  <2>2. CASE stage # 25
    BY <1>1, <1>2, <2>2 DEF Past
  <2>. QED
    BY <2>1, <2>2
<1>9. Committed' = Committed
  BY <1>2, CommittedStays
<1>10. ReleasedBefore'
  BY <1>1, <1>2, <1>8, <1>9 DEF Sound, ReleasedBefore, Whole, Uploaded, Archived
<1>11. SoundArts' /\ SoundConfig' /\ Settled'
  BY <1>1, <1>2, ArtsKept, ConfigStays, SettledStays DEF Added
<1>. QED
  BY <1>4, <1>6, <1>7, <1>10, <1>11 DEF Sound, YardInv

(* The release is past when it did not fail: a failed one ends the run.    *)
LEMMA FinishSound == ASSUME Sound, Control', Finish PROVE Sound'
<1>1. /\ UNCHANGED <<Basis, Checkouts, manifests, files, arts, released>>
      /\ ~Setting /\ todo = {} /\ todo' = {} /\ (failed \/ at = Number)
  BY DEF Finish, GoOn, End, Basis, Checkouts, fixed, dist, forges, records
<1>2. /\ stage \in 1..39 /\ stage # 1 /\ Settled /\ SameTaps /\ SoundConfig /\ SoundArts /\ SoundPlace
      /\ UNCHANGED <<remote, clones, pulls, cfg, built, ctx>>
  BY <1>1, StageNames, SameBasis DEF Sound, YardInv, Control, Basis, Checkouts
<1>3. \/ UNCHANGED <<stage, at, failed>>
      \/ stage' = stage + 1 /\ at' = 0 /\ (~failed \/ ContinuesOnError)
  BY DEF Finish, GoOn, End
<1>4. stage' # 1
  BY <1>2, <1>3
<1>5. SoundManifests'
  BY <1>1, <1>2, <1>4 DEF Sound, YardInv, Yard, SoundManifests
<1>6. Yard'
  BY <1>1, <1>2, <1>5, ElsewhereKept, FilesKept DEF Sound, YardInv, Yard
<1>7. SoundJobs'
  BY <1>1 DEF SoundJobs
<1>8. SoundPlace'
  <2>1. CASE UNCHANGED <<stage, at, failed>>
    BY <1>1, <1>2, <2>1 DEF SoundPlace, AllAtOnce, Publishes, Pipe, Now
  <2>2. CASE at' = 0
    BY <1>1, <2>2 DEF SoundPlace
  <2>. QED
    BY <1>3, <2>1, <2>2
<1>9. ASSUME Whole, Past' PROVE Past
  <2>1. CASE UNCHANGED <<stage, at, failed>>
    BY <1>1, <1>2, <1>9, <2>1 DEF Past
  <2>2. CASE stage' = stage + 1 /\ at' = 0 /\ (~failed \/ ContinuesOnError)
    <3>1. stage > 24
      BY <1>2, <1>9, <2>2 DEF Past
    <3>2. CASE stage = 25
      <4>1. Publishes /\ Pipe = "release"
        BY <1>2, <3>2, StageNames
      <4>2. ~ContinuesOnError
        BY <4>1 DEF ContinuesOnError, ContinuablePublishers
      <4>3. ~failed /\ at = Number
        BY <1>1, <2>2, <4>2
      <4>4. ~Skipped
        BY <1>2, <1>9, <4>1 DEF Past, Whole, Skipped, Unskippable
      <4>5. Number = 1
        BY <4>1, <4>4 DEF Number
      <4>. QED
        BY <1>1, <1>2, <1>9, <3>2, <4>3, <4>5 DEF Past
    <3>3. CASE stage > 25
      BY <1>2, <1>9, <3>3 DEF Past
    <3>. QED
      BY <1>2, <3>1, <3>2, <3>3
  <2>. QED
    BY <1>3, <2>1, <2>2
<1>10. Committed' = Committed
  BY <1>2, CommittedStays
<1>11. ReleasedBefore'
  BY <1>1, <1>2, <1>9, <1>10 DEF Sound, ReleasedBefore, Whole, Uploaded, Archived
<1>12. SoundArts' /\ SoundConfig' /\ Settled'
  BY <1>1, <1>2, ArtsKept, ConfigStays, SettledStays DEF Added
<1>. QED
  BY <1>6, <1>7, <1>8, <1>11, <1>12 DEF Sound, YardInv

(* The setup: what was there stays, or is emptied.                         *)
LEMMA SetUpSound == ASSUME Sound, Control', SetUp PROVE Sound'
<1>1. /\ stage = 1 /\ at = 0 /\ todo = {} /\ manifests = {}
      /\ UNCHANGED <<manifests, remote, pulls, released, built, world, at, todo>>
      /\ clones' \in {clones, {}} /\ files' \in {files, <<>>} /\ arts' = arts \cup {writeMetadata}
      /\ \/ UNCHANGED <<cfg, stage>>
         \/ cfg' = Defaults(cfg, world.koRepo) /\ stage' = 2
  <2>1. Control /\ Setting
    BY DEF SetUp, Sound, YardInv
  <2>2. stage = 1 /\ at = 0 /\ todo = {}
    BY <2>1, StageNames DEF Control
  <2>3. manifests = {}
    BY <2>2 DEF Sound, YardInv, Yard, SoundManifests
  <2>. QED
    BY <2>2, <2>3 DEF SetUp, place, forges
<1>2. SoundConfig' /\ cfg'.release = cfg.release /\ (Settled => SameTaps /\ Settled')
  <2>1. CASE UNCHANGED cfg
    BY <1>1, <2>1, ConfigStays, SettledStays DEF Sound, YardInv, SameTaps
  <2>2. CASE cfg' = Defaults(cfg, world.koRepo)
    BY <1>1, <2>2, SetUpConfig DEF Sound, YardInv
  <2>. QED
    BY <1>1, <2>1, <2>2
<1>3. Committed' = Committed
  BY <1>1, CommittedStays
<1>4. Yard'
  <2>1. CASE Settled
    <3>1. SameTaps
      BY <1>2, <2>1
    <3>2. SoundRemote' /\ Grown
      BY <1>1, <3>1, RemoteKept DEF Sound, YardInv, Yard
    <3>3. SoundPulls'
      BY <1>1, <3>2, PullsKept DEF Sound, YardInv, Yard
    <3>4. SoundClones'
      BY <1>1, <3>1, SoundCloneKept DEF Sound, YardInv, Yard, SoundClones
    <3>5. SoundFiles'
      <4>1. CASE UNCHANGED files
        BY <3>1, <4>1, FilesKept DEF Sound, YardInv, Yard
      <4>2. CASE files' = <<>>
        BY <4>2 DEF SoundFiles
      <4>. QED
        BY <1>1, <4>1, <4>2
    <3>6. SoundManifests'
      BY <1>1 DEF SoundManifests
    <3>. QED
      BY <3>2, <3>3, <3>4, <3>5, <3>6 DEF Yard
  <2>2. CASE Untouched
    <3>1. (Untouched /\ DOMAIN remote = Repos /\ (\A r \in Repos : "main" \in DOMAIN remote[r]) => Yard)'
      BY UntouchedYard, PTL
    <3>2. Untouched'
      BY <1>1, <1>3, <2>2 DEF Untouched
    <3>. QED
      BY <1>1, <3>1, <3>2 DEF Sound, YardInv, Yard, SoundRemote
  <2>. QED
    BY <2>1, <2>2 DEF Sound
<1>5. SoundJobs' /\ SoundPlace'
  BY <1>1 DEF SoundJobs, SoundPlace
<1>6. SoundArts'
  <2>. DEFINE new == {writeMetadata}
  <2>1. (\A a \in new : Other(a)) /\ arts' \in {arts, arts \cup new}
    BY <1>1, NewArtifacts
  <2>. HIDE DEF new
  <2>2. Added
    BY <2>1, Adding
  <2>. QED
    BY <1>1, <2>2, ArtsKept DEF Sound
<1>7. ReleasedBefore'
  BY <1>1, <1>2, <1>3 DEF Sound, ReleasedBefore, Whole, Past, Uploaded, Archived
<1>8. Settled' \/ (stage' = 1 /\ Untouched')
  <2>1. cfg' = Defaults(cfg, world.koRepo) => Settled'
    BY <1>1, SetUpConfig DEF Sound, YardInv
  <2>2. Untouched => Untouched'
    BY <1>1, <1>3 DEF Untouched
  <2>. QED
    BY <1>1, <1>2, <2>1, <2>2 DEF Sound
<1>. QED
  BY <1>2, <1>4, <1>5, <1>6, <1>7, <1>8 DEF Sound, YardInv

(* The next run begins with the artifacts that were built and with what    *)
(* the last one has left in dist and in the repositories.                  *)
LEMMA AgainSound == ASSUME Sound, Control', Again PROVE Sound'
<1>1. /\ stage' = 1 /\ at' = 0 /\ todo' = {} /\ manifests' = {} /\ arts' = built
      /\ UNCHANGED <<cfg, world, built, files, clones, remote, pulls, released>>
  BY DEF Again, forges, records
<1>2. SameTaps
  BY <1>1 DEF SameTaps
<1>3. SoundRemote' /\ SoundClones' /\ SoundPulls' /\ SoundFiles'
  BY <1>1, <1>2, RemoteKept, ClonesKept, PullsKept, FilesKept DEF Sound, YardInv, Yard
<1>4. SoundManifests' /\ SoundJobs' /\ SoundPlace'
  BY <1>1 DEF SoundManifests, SoundJobs, SoundPlace
<1>5. Committed' = Committed
  BY <1>1, CommittedStays
<1>6. ReleasedBefore'
  BY <1>1, <1>5 DEF Sound, ReleasedBefore, Whole, Past, Uploaded, Archived
<1>7. SoundArts' /\ SoundConfig' /\ (Settled => Settled') /\ (Untouched => Untouched')
  BY <1>1, <1>5, ConfigStays, SettledStays DEF Sound, YardInv, SoundArts, Untouched
<1>. QED
  BY <1>1, <1>3, <1>4, <1>6, <1>7 DEF Sound, YardInv, Yard

(* It is an invariant.                                                     *)
LEMMA AlwaysSound == Spec => []Sound
<1>. DEFINE Inv == Sound /\ LeavesInv
<1>1. Init => Inv
  BY InitSound, InitLeaves
<1>2. Inv /\ [Next]_vars => Inv'
  <2>. SUFFICES ASSUME Sound, LeavesInv, [Next]_vars PROVE Sound' /\ LeavesInv'
    OBVIOUS
  <2>1. CASE UNCHANGED vars \/ Crash
    <3>1. UNCHANGED <<Basis, Checkouts, Outside, registry, stage, at, todo, failed, manifests, files, arts, released>>
      BY <2>1 DEF Crash, vars, fixed, place, dist, forges, stores, records, Basis, Checkouts, Outside
    <3>2. Control' /\ NoCopies'
      BY <3>1, SkippedStays, AtKoStays DEF LeavesInv, Control, NoCopies, Basis, Used
    <3>. QED
      BY <3>1, <3>2, LeavesStay, SoundStays DEF Basis
  <2>2. CASE Begin
    <3>1. LeavesInv'
      BY <2>2, BeginLeaves
    <3>. QED
      BY <2>2, <3>1, BeginSound DEF LeavesInv
  <2>3. CASE Step
    <3>1. LeavesInv'
      BY <2>3, StepLeaves
    <3>. QED
      BY <2>3, <3>1, StepSound DEF LeavesInv
  <2>4. CASE Finish
    <3>1. LeavesInv'
      BY <2>4, FinishLeaves
    <3>. QED
      BY <2>4, <3>1, FinishSound DEF LeavesInv
  <2>5. CASE SetUp
    <3>1. LeavesInv'
      BY <2>5, SetUpLeaves
    <3>. QED
      BY <2>5, <3>1, SetUpSound DEF LeavesInv
  <2>6. CASE Again
    <3>1. LeavesInv'
      BY <2>6, AgainLeaves
    <3>. QED
      BY <2>6, <3>1, AgainSound DEF LeavesInv
  <2>. QED
    BY <2>1, <2>2, <2>3, <2>4, <2>5, <2>6 DEF Next
<1>. QED
  BY <1>1, <1>2, PTL DEF Spec

LEMMA OfTree == \A f \in Committed : Sound => SoundEntries(f[1], f[2]) /\ Rightful(f[1])
<1>. SUFFICES ASSUME Sound, NEW f \in Committed PROVE SoundEntries(f[1], f[2]) /\ Rightful(f[1])
  OBVIOUS
<1>1. PICK r \in Repos : \E b \in DOMAIN remote[r] : f \in remote[r][b]
  BY DEF Committed, Trees
<1>. QED
  BY <1>1 DEF Sound, YardInv, Yard, SoundRemote, SoundTree

(* What a tap in any repository lists is an asset of the release, whatever *)
(* failed and however often it was run: the release comes before the taps, *)
(* and ends the run when it fails.                                         *)
THEOREM ListsWhatIsReleased == Spec => []RefersToReleased
<1>1. Sound => RefersToReleased
  <2>. SUFFICES ASSUME Sound, Whole, NEW f \in Committed, NEW e \in f[2] PROVE e[2] \in released
    BY DEF RefersToReleased, Whole
  <2>1. Uploaded
    BY DEF Sound, ReleasedBefore
  <2>. QED
    BY <2>1, OfTree DEF SoundEntries, Uploaded
<1>. QED
  BY <1>1, AlwaysSound, PTL

(* No tap but krew's offers two archives for one platform.                 *)
THEOREM ListsOneEach == Spec => []OnePerPlatform
<1>1. Sound => OnePerPlatform
  BY OfTree DEF OnePerPlatform, SoundEntries
<1>. QED
  BY <1>1, AlwaysSound, PTL

(* A pull request is opened when every file of the manifest is on its      *)
(* branch, and no later push or commit takes one of them away.             *)
THEOREM PullRequestsWhole == Spec => []PullRequestIsWhole
<1>1. Sound => PullRequestIsWhole
  <2>. SUFFICES ASSUME Sound, NEW p \in pulls
                PROVE  /\ p.head \in DOMAIN remote[p.repo]
                       /\ p.unit \subseteq {f[1] : f \in remote[p.repo][p.head]}
    BY DEF PullRequestIsWhole
  <2>1. p.head \in DOMAIN remote[p.repo] /\ \A path \in p.unit : On(p.repo, p.head, path)
    BY DEF Sound, YardInv, Yard, SoundPulls
  <2>. QED
    BY <2>1 DEF On, Paths
<1>. QED
  BY <1>1, AlwaysSound, PTL

(* On every branch PKGBUILD and .SRCINFO of a package tell the same.       *)
THEOREM AurAgrees == Spec => []AurFilesAgree
<1>1. Sound => AurFilesAgree
  <2>. SUFFICES ASSUME Sound, NEW tree \in Trees PROVE \A f \in tree : Paired(tree, f)
    BY DEF AurFilesAgree, Paired, AurKinds, AurParts
  <2>1. PICK r \in Repos : \E b \in DOMAIN remote[r] : tree = remote[r][b]
    BY DEF Trees
  <2>. QED
    BY <2>1 DEF Sound, YardInv, Yard, SoundRemote, SoundTree
<1>. QED
  BY <1>1, AlwaysSound, PTL

(* A tap that is not to be uploaded leaves no file of its own anywhere.    *)
THEOREM SkippedLeaves == Spec => []SkippedLeavesNothing
<1>1. Sound => SkippedLeavesNothing
  <2>. SUFFICES ASSUME Sound, NEW x \in TapsOf, SkipsUpload(x[2], Prerelease(world)),
                       NEW f \in Committed, f[1] \in FilesOf(x)
                PROVE  \E y \in TapsOf \ {x} : f[1] \in FilesOf(y)
    BY DEF SkippedLeavesNothing, SkipsUpload
  <2>1. PICK k \in Kinds : \E i \in DOMAIN cfg[k] :
          f[1] \in FilesOf(<<k, cfg[k][i]>>) /\ ~SkipsUpload(cfg[k][i], Prerelease(world))
    BY OfTree DEF Rightful
  <2>2. PICK i \in DOMAIN cfg[k] :
          f[1] \in FilesOf(<<k, cfg[k][i]>>) /\ ~SkipsUpload(cfg[k][i], Prerelease(world))
    BY <2>1
  <2>. DEFINE y == <<k, cfg[k][i]>>
  <2>3. y \in TapsOf /\ y[2] = cfg[k][i]
    BY DEF TapsOf
  <2>4. y # x
    BY <2>2, <2>3
  <2>. QED
    BY <2>2, <2>3, <2>4
<1>. QED
  BY <1>1, AlwaysSound, PTL
-----------------------------------------------------------------------------
(* Branches. What is on a branch is a file of a tap that is for it, or for *)
(* main, where the branch was started from; a branch is there because a    *)
(* tap is for it. A checkout is on its branch, or its job is about to      *)
(* change to it, or it was left by a run before, and is emptied.           *)
RepoOf(k, t) == IF Target(k, t).git # "" THEN Target(k, t).git ELSE Target(k, t).name
HomeOf(k, t) == IF Target(k, t).branch = "" THEN "main" ELSE Target(k, t).branch
Meant(r, b, p) ==
  \E k \in Kinds : \E i \in DOMAIN cfg[k] :
    /\ p \in FilesOf(<<k, cfg[k][i]>>)
    /\ RepoOf(k, cfg[k][i]) = r /\ HomeOf(k, cfg[k][i]) \in {b, "main"}
Belongs(r, b, tree) == \A f \in tree : Meant(r, b, f[1])
AskedFor(r, b) ==
  b = "main" \/ \E k \in Kinds : \E i \in DOMAIN cfg[k] : RepoOf(k, cfg[k][i]) = r /\ HomeOf(k, cfg[k][i]) = b
ForItsBranch == \A r \in Repos : \A b \in DOMAIN remote[r] : AskedFor(r, b) /\ Belongs(r, b, remote[r][b])

MeantClone(c) == AskedFor(c.url, c.on) /\ Belongs(c.url, c.on, c.tree) /\ Belongs(c.url, c.on, c.head)
ClonesMeant == \A c \in clones : MeantClone(c)
OnHome(c) == c.on = IF c.branch = "" THEN "main" ELSE c.branch
Waiting(c) == c.on = "main" /\ Tapping /\ \E j \in todo : j.phase = "checkout" /\ c \in Mine(j)
ClonesAtHome == \A c \in clones : OnHome(c) \/ Waiting(c) \/ (stage = 1 /\ Used)
Branched == Tapping => \A j \in todo : j.phase = "checkout" => To(j).branch # ""
BranchInv == ForItsBranch /\ ClonesMeant /\ ClonesAtHome /\ Branched /\ run \in Nat \ {0}

LEMMA SameMeant ==
  ASSUME SameTaps
  PROVE  /\ \A r, b, tree : Belongs(r, b, tree) <=> Belongs(r, b, tree)'
         /\ \A r, b : AskedFor(r, b) <=> AskedFor(r, b)'
         /\ \A c : MeantClone(c) <=> MeantClone(c)'
<1>1. ASSUME NEW r, NEW b, NEW p PROVE Meant(r, b, p) <=> Meant(r, b, p)'
  BY DEF SameTaps, Meant
<1>2. ASSUME NEW r, NEW b, NEW tree PROVE Belongs(r, b, tree) <=> Belongs(r, b, tree)'
  BY <1>1 DEF Belongs
<1>3. ASSUME NEW r, NEW b PROVE AskedFor(r, b) <=> AskedFor(r, b)'
  BY DEF SameTaps, AskedFor
<1>4. ASSUME NEW c PROVE MeantClone(c) <=> MeantClone(c)'
  BY <1>2, <1>3 DEF MeantClone
<1>. QED
  BY <1>2, <1>3, <1>4

LEMMA Meanings ==
  /\ \A r, b, tree, new : Belongs(r, b, tree) /\ Belongs(r, b, new) => Belongs(r, b, With(tree, new))
  /\ \A r, b, tree : Belongs(r, "main", tree) => Belongs(r, b, tree)
BY DEF With, Belongs, Meant

(* What a unit writes belongs to the branch its tap is for.                *)
LEMMA UnitMeant ==
  ASSUME SoundManifests, SoundConfig, Tapping, NEW j, SoundJob(j), NEW r,
         \/ Way(j) = "clone" /\ r = To(j).git
         \/ Way(j) = "file" /\ r = To(j).name
  PROVE  /\ AskedFor(r, Branch(j)) /\ Belongs(r, Branch(j), Content(PathsOf(j.what)))
         /\ \A p \in PathsOf(j.what) : Belongs(r, Branch(j), Content({p}))
<1>. DEFINE k == Pipe
            t == TapOf(k, j.what)
            n == First(j.what).at
            pre == Prerelease(world)
<1>1. k \in Kinds /\ j.what \in Units(manifests, k)
  BY DEF Tapping, SoundJob, JobAt
<1>2. n \in DOMAIN cfg[k] /\ t = cfg[k][n] /\ PathsOf(j.what) = FilesOf(<<k, t>>)
  BY <1>1, UnitIsTap DEF TapOf
<1>3. SoundTap(k, t)
  BY <1>1, <1>2 DEF SoundConfig
<1>4. Tap(j) = t
  BY <1>1 DEF Tap, TapOf, Configured, Field, Kinds
<1>5. Way(j) = doPublish(k, t, pre) /\ To(j) = Target(k, t)
  BY <1>4 DEF Way, To
<1>. HIDE DEF k, t, n, pre
<1>6. RepoOf(k, t) = r /\ HomeOf(k, t) = Branch(j)
  <2>1. HomeOf(k, t) = Branch(j)
    BY <1>5 DEF HomeOf, Branch
  <2>2. Target(k, t).git = t.repository.git
    BY <1>1, <1>3, Targets
  <2>3. CASE Way(j) = "clone"
    <3>1. t.repository.git # ""
      BY <1>1, <1>5, <2>3, Ways
    <3>. QED
      BY <1>5, <2>1, <2>2, <2>3, <3>1 DEF RepoOf
  <2>4. CASE Way(j) = "file"
    <3>1. t.repository.git = ""
      BY <1>1, <1>5, <2>4, Ways
    <3>. QED
      BY <1>5, <2>1, <2>2, <2>4, <3>1 DEF RepoOf
  <2>. QED
    BY <2>3, <2>4
<1>7. ASSUME NEW p \in PathsOf(j.what) PROVE Meant(r, Branch(j), p)
  BY <1>1, <1>2, <1>6 DEF Meant
<1>8. \A S : \A f \in Content(S) : f[1] \in S
  BY DEF Content
<1>. QED
  BY <1>1, <1>2, <1>6, <1>7, <1>8 DEF AskedFor, Belongs

LEMMA BranchMeant ==
  ASSUME ForItsBranch, SoundRemote, SameTaps, NEW r \in Repos, NEW b, NEW tree, AskedFor(r, b), Belongs(r, b, tree),
         remote' = [remote EXCEPT ![r] = Reset(@, b, tree)]
  PROVE  ForItsBranch'
<1>. DEFINE new == Reset(remote[r], b, tree)
<1>1. /\ DOMAIN new = DOMAIN remote[r] \cup {b}
      /\ \A x \in DOMAIN new : new[x] = IF x = b THEN tree ELSE remote[r][x]
  BY DEF Reset
<1>. HIDE DEF new
<1>2. DOMAIN remote' = Repos /\ remote'[r] = new /\ \A x \in Repos : x # r => remote'[x] = remote[x]
  BY DEF SoundRemote, new
<1>3. ASSUME NEW x \in Repos, NEW y \in DOMAIN remote'[x] PROVE AskedFor(x, y)' /\ Belongs(x, y, remote[x][y])'
  <2>1. PICK z : z = remote'[x][y]
    OBVIOUS
  <2>2. AskedFor(x, y) /\ Belongs(x, y, z)
    BY <1>1, <1>2, <2>1 DEF ForItsBranch
  <2>3. AskedFor(x, y)' /\ Belongs(x, y, z)'
    BY <2>2, SameMeant
  <2>. QED
    BY <2>1, <2>3 DEF Belongs
<1>. QED
  BY <1>3 DEF ForItsBranch

LEMMA BranchesStay == ASSUME ForItsBranch, SameTaps, UNCHANGED remote PROVE ForItsBranch'
<1>1. ASSUME NEW x \in Repos, NEW y \in DOMAIN remote[x] PROVE AskedFor(x, y)' /\ Belongs(x, y, remote[x][y])'
  <2>1. PICK z : z = remote[x][y]
    OBVIOUS
  <2>2. AskedFor(x, y)' /\ Belongs(x, y, z)'
    BY <2>1, SameMeant DEF ForItsBranch
  <2>. QED
    BY <2>1, <2>2 DEF Belongs
<1>. QED
  BY <1>1 DEF ForItsBranch

LEMMA MeantStay == ASSUME ClonesMeant, SameTaps, clones' \subseteq clones PROVE ClonesMeant'
BY SameMeant DEF ClonesMeant

(* Publishers of taps work at one unit at a time: when it is not one that  *)
(* is about to change its branch, every checkout is on its own.            *)
LEMMA OneAtATime ==
  ASSUME Tapping, NEW j \in todo, Turn(j), NEW k \in todo, k.phase # "start"
  PROVE  k = j
BY DEF Turn, Tapping, GoesOnAnyway, AllAtOnce, Kinds

LEMMA AllAtHome ==
  ASSUME Control, ClonesAtHome, Tapping, NEW j \in todo, Turn(j), j.phase # "checkout"
  PROVE  \A c \in clones : OnHome(c)
<1>1. stage # 1
  BY DEF Control
<1>2. ASSUME NEW c, Waiting(c) PROVE FALSE
  BY <1>2, OneAtATime DEF Waiting
<1>. QED
  BY <1>1, <1>2 DEF ClonesAtHome

(* The jobs after a step of a unit: none is about to change its branch but *)
(* the one that has just been cloned for it.                               *)
Calm(j) == \A k \in todo' : k \in todo \/ k.phase # "checkout"
LEMMA CalmSteps ==
  ASSUME NEW j, DOMAIN j = JobFields
  PROVE  /\ Done(j) => Calm(j)
         /\ \A left, phase : phase # "checkout" /\ Proceeds(j, left, phase) => Calm(j)
         /\ \A why : Refused(j, why) => Calm(j)
         /\ \A step : Unfortunate(j, step) => Calm(j)
<1>1. \A left, phase : [j EXCEPT !.left = left, !.phase = phase].phase = phase
  BY DEF JobFields
<1>2. \A left, phase : phase # "checkout" /\ Proceeds(j, left, phase) => Calm(j)
  BY <1>1 DEF Proceeds, Calm
<1>3. \A why : Breaks(j, why) => Calm(j)
  BY DEF Breaks, Calm
<1>. QED
  BY <1>2, <1>3 DEF Done, Refused, Unfortunate, Calm

LEMMA BranchedStays ==
  ASSUME Branched, Tapping, UNCHANGED <<Basis, stage, manifests>>, NEW j, Calm(j)
  PROVE  Branched'
<1>1. \A k : To(k)' = To(k)
  BY TapKept
<1>. QED
  BY <1>1 DEF Branched, Calm

(* What a step of a unit needs.                                            *)
AtUnit(j) == Sound /\ BranchInv /\ Tapping /\ j \in todo /\ Turn(j) /\ UNCHANGED <<Basis, stage, manifests>>

LEMMA AtUnits ==
  ASSUME NEW j, AtUnit(j)
  PROVE  /\ YardInv /\ Control /\ SoundRemote /\ SoundClones /\ SoundJob(j) /\ DOMAIN j = JobFields /\ SameTaps
         /\ SoundManifests /\ SoundConfig /\ ctx.prerelease = Prerelease(world)
         /\ run' \in Nat \ {0}
BY AtTap, SameBasis DEF AtUnit, Sound, YardInv, Yard, SoundJobs, BranchInv, Basis

LEMMA QuietBranch ==
  ASSUME NEW j, AtUnit(j), j.phase # "checkout", UNCHANGED <<remote, clones>>, Calm(j)
  PROVE  BranchInv'
<1>1. Control /\ SameTaps /\ run' \in Nat \ {0}
  BY AtUnits
<1>2. ForItsBranch' /\ ClonesMeant' /\ Branched'
  BY <1>1, BranchesStay, MeantStay, BranchedStays DEF AtUnit, BranchInv
<1>3. ClonesAtHome'
  BY <1>1, AllAtHome DEF AtUnit, BranchInv, ClonesAtHome, OnHome
<1>. QED
  BY <1>1, <1>2, <1>3 DEF BranchInv

(* A checkout that is replaced by one that is meant, and on its branch.    *)
LEMMA ReplacedHome ==
  ASSUME NEW j, AtUnit(j), NEW c, MeantClone(c), ReplaceClone(j, c)
  PROVE  /\ ClonesMeant'
         /\ OnHome(c) => ClonesAtHome'
<1>1. clones' = (clones \ Mine(j)) \cup {c} /\ Control /\ SameTaps
  BY AtUnits DEF ReplaceClone
<1>2. ClonesMeant'
  BY <1>1, SameMeant DEF AtUnit, BranchInv, ClonesMeant
<1>3. ASSUME NEW d \in clones \ Mine(j) PROVE OnHome(d)
  <2>1. stage # 1
    BY <1>1 DEF AtUnit, Control
  <2>2. ASSUME Waiting(d) PROVE FALSE
    <3>1. PICK k \in todo : k.phase = "checkout" /\ d \in Mine(k)
      BY <2>2 DEF Waiting
    <3>2. k = j
      BY <3>1, OneAtATime DEF AtUnit
    <3>. QED
      BY <1>3, <3>1, <3>2
  <2>. QED
    BY <2>1, <2>2 DEF AtUnit, BranchInv, ClonesAtHome
<1>4. OnHome(c) => ClonesAtHome'
  BY <1>1, <1>3 DEF ClonesAtHome, OnHome
<1>. QED
  BY <1>2, <1>4

LEMMA StartBranch == ASSUME NEW j, AtUnit(j), StartUnit(j) PROVE BranchInv'
<1>1. Tapping /\ j.phase = "start" /\ UNCHANGED <<clones, remote>>
  BY DEF StartUnit, dist, forges
<1>2. DOMAIN j = JobFields /\ ctx.prerelease = Prerelease(world)
  BY AtUnits
<1>3. Calm(j)
  <2>1. PICK first, left : first = Way(j) /\ (Done(j) \/ Proceeds(j, left, first) \/ Unfortunate(j, "hash"))
    BY <1>2 DEF StartUnit, Way
  <2>2. first # "checkout"
    BY <1>1, <2>1, Ways DEF Way, Tapping
  <2>. QED
    BY <1>2, <2>1, <2>2, CalmSteps
<1>. QED
  BY <1>1, <1>3, QuietBranch

LEMMA PackageBranch == ASSUME NEW j, AtUnit(j), PushPackage(j) PROVE BranchInv'
<1>1. j.phase = "nupkg" /\ UNCHANGED <<clones, remote>>
  BY DEF PushPackage, dist, forges
<1>2. DOMAIN j = JobFields
  BY AtUnits
<1>3. Calm(j)
  BY <1>2, CalmSteps DEF PushPackage
<1>. QED
  BY <1>1, <1>3, QuietBranch

LEMMA PullBranch == ASSUME NEW j, AtUnit(j), OpenPullRequest(j) PROVE BranchInv'
<1>1. j.phase = "pull" /\ UNCHANGED <<clones, remote>>
  BY DEF OpenPullRequest, dist
<1>2. DOMAIN j = JobFields
  BY AtUnits
<1>3. Calm(j)
  BY <1>2, CalmSteps DEF OpenPullRequest
<1>. QED
  BY <1>1, <1>3, QuietBranch

LEMMA OpenBranch == ASSUME NEW j, AtUnit(j), OpenClone(j) PROVE BranchInv'
<1>. DEFINE main == remote[To(j).git]["main"]
            new == [name |-> To(j).name, url |-> To(j).git, branch |-> To(j).branch,
                    on |-> "main", base |-> main, tree |-> main, head |-> main]
<1>1. Tapping /\ j.phase = "clone" /\ UNCHANGED remote
  BY DEF OpenClone, forges
<1>2. /\ SoundManifests /\ SoundConfig /\ SoundJob(j) /\ SoundRemote /\ SameTaps /\ DOMAIN j = JobFields
      /\ run' \in Nat \ {0}
  BY AtUnits
<1>3. To(j).git \in Repos
  BY <1>1, <1>2, WayTo DEF SoundJob, JobAt
<1>4. CASE UNCHANGED clones /\ (Proceeds(j, {}, "commit") \/ Unfortunate(j, "clone"))
  <2>1. Calm(j)
    BY <1>2, <1>4, CalmSteps
  <2>. QED
    BY <1>1, <1>4, <2>1, QuietBranch
<1>5. CASE ReplaceClone(j, new) /\ Proceeds(j, {}, IF To(j).branch = "" THEN "commit" ELSE "checkout")
  <2>1. Belongs(To(j).git, "main", main) /\ AskedFor(To(j).git, "main")
    BY <1>2, <1>3 DEF AtUnit, BranchInv, ForItsBranch, SoundRemote, AskedFor
  <2>. HIDE DEF main
  <2>0. /\ new.name = To(j).name /\ new.url = To(j).git /\ new.branch = To(j).branch
        /\ new.on = "main" /\ new.tree = main /\ new.head = main
    OBVIOUS
  <2>. HIDE DEF new
  <2>2. PICK c :
          /\ c = new /\ c.name = To(j).name /\ c.url = To(j).git /\ c.branch = To(j).branch
          /\ c.on = "main" /\ c.tree = main /\ c.head = main
    BY <2>0
  <2>3. MeantClone(c)
    BY <2>1, <2>2 DEF MeantClone
  <2>4. ClonesMeant' /\ ReplaceClone(j, c) /\ (OnHome(c) => ClonesAtHome')
    BY <1>5, <2>2, <2>3, ReplacedHome
  <2>5. ForItsBranch'
    BY <1>1, <1>2, BranchesStay DEF AtUnit, BranchInv
  <2>6. CASE To(j).branch = ""
    <3>1. Calm(j) /\ OnHome(c)
      BY <1>2, <1>5, <2>2, <2>6, CalmSteps DEF OnHome
    <3>2. Branched'
      BY <3>1, BranchedStays DEF AtUnit, BranchInv
    <3>. QED
      BY <1>2, <2>4, <2>5, <3>1, <3>2 DEF BranchInv
  <2>7. CASE To(j).branch # ""
    <3>. DEFINE k == [j EXCEPT !.left = {}, !.phase = "checkout"]
    <3>1. k.phase = "checkout" /\ k.what = j.what
      BY <1>2 DEF JobFields
    <3>2. todo' = (todo \ {j}) \cup {k}
      BY <1>5, <2>7 DEF Proceeds
    <3>. HIDE DEF k
    <3>3. To(k)' = To(j) /\ \A o : To(o)' = To(o)
      <4>1. To(k) = To(j)
        BY <3>1 DEF To, Tap
      <4>2. \A o : To(o)' = To(o)
        BY TapKept DEF AtUnit
      <4>. QED
        BY <4>1, <4>2
    <3>4. Branched'
      BY <1>1, <2>7, <3>2, <3>3 DEF AtUnit, BranchInv, Branched
    <3>5. clones' = (clones \ Mine(j)) \cup {c}
      BY <2>4 DEF ReplaceClone
    <3>6. Tapping'
      BY TapKept DEF AtUnit
    <3>7. c \in Mine(k)'
      BY <2>2, <3>3, <3>5 DEF Mine
    <3>8. Waiting(c)'
      BY <2>2, <3>1, <3>2, <3>6, <3>7 DEF Waiting
    <3>9. \A d \in clones : OnHome(d)
      BY <1>1, AtUnits, AllAtHome DEF AtUnit, BranchInv
    <3>10. \A d \in clones' : OnHome(d)' \/ Waiting(d)'
      BY <3>5, <3>8, <3>9 DEF OnHome
    <3>11. ClonesAtHome'
      BY <3>10 DEF ClonesAtHome
    <3>. QED
      BY <1>2, <2>4, <2>5, <3>4, <3>11 DEF BranchInv
  <2>. QED
    BY <2>6, <2>7
<1>. QED
  BY <1>4, <1>5 DEF OpenClone

(* The branch is changed before anything is written to the checkout.       *)
LEMMA CheckoutBranch == ASSUME "checkout" \notin Faulty, NEW j, AtUnit(j), Checkout(j) PROVE BranchInv'
<1>. DEFINE b == To(j).branch
            branches == remote[To(j).git]
            tree == IF b \in DOMAIN branches THEN branches[b] ELSE Clone(j).head
            changed == [Clone(j) EXCEPT !.on = b, !.base = tree, !.tree = tree, !.head = tree]
<1>1. /\ Tapping /\ j.phase = "checkout" /\ UNCHANGED remote
      /\ Proceeds(j, {}, "commit") /\ ReplaceClone(j, changed)
  BY DEF Checkout, Unfortunate, Unlucky, forges
<1>2. /\ SoundManifests /\ SoundConfig /\ SoundJob(j) /\ SoundRemote /\ SameTaps /\ DOMAIN j = JobFields
      /\ run' \in Nat \ {0} /\ Control /\ YardInv
  BY AtUnits
<1>3. /\ Way(j) = "clone" /\ Mine(j) # {} /\ SoundClone(Clone(j)) /\ To(j).git \in Repos
      /\ Clone(j) \in clones /\ Clone(j).url = To(j).git /\ Clone(j).branch = b
  BY <1>1, <1>2, MySound, CloneIsMine DEF AtUnit
<1>4. b # ""
  BY <1>1 DEF AtUnit, BranchInv, Branched
<1>5. AskedFor(To(j).git, b)
  <2>1. Branch(j) = b
    BY <1>4 DEF Branch
  <2>. QED
    BY <1>1, <1>2, <1>3, <2>1, UnitMeant
<1>6. Belongs(To(j).git, b, tree)
  <2>1. CASE b \in DOMAIN branches
    BY <1>3, <2>1 DEF AtUnit, BranchInv, ForItsBranch
  <2>2. CASE b \notin DOMAIN branches
    <3>1. Belongs(To(j).git, Clone(j).on, Clone(j).head)
      BY <1>3 DEF AtUnit, BranchInv, ClonesMeant, MeantClone
    <3>2. Clone(j).on \in {b, "main"}
      <4>1. stage # 1
        BY <1>2 DEF AtUnit, Control
      <4>. QED
        BY <1>3, <1>4, <4>1 DEF AtUnit, BranchInv, ClonesAtHome, OnHome, Waiting
    <3>. QED
      BY <2>2, <3>1, <3>2, Meanings
  <2>. QED
    BY <2>1, <2>2
<1>. HIDE DEF b, tree
<1>7. /\ changed.on = b /\ changed.tree = tree /\ changed.head = tree
      /\ changed.url = To(j).git /\ changed.branch = b
  BY <1>3 DEF SoundClone, CloneFields
<1>. HIDE DEF changed
<1>8. MeantClone(changed) /\ OnHome(changed)
  BY <1>4, <1>5, <1>6, <1>7 DEF MeantClone, OnHome
<1>9. ClonesMeant' /\ ClonesAtHome'
  BY <1>1, <1>8, ReplacedHome
<1>10. Calm(j)
  BY <1>1, <1>2, CalmSteps
<1>11. ForItsBranch' /\ Branched'
  BY <1>1, <1>2, <1>10, BranchesStay, BranchedStays DEF AtUnit, BranchInv
<1>. QED
  BY <1>2, <1>9, <1>11 DEF BranchInv

(* A checkout of a unit that commits or pushes is on the unit's branch.    *)
LEMMA CloneAtHome ==
  ASSUME NEW j, AtUnit(j), j.phase \in {"commit", "push"}
  PROVE  /\ Way(j) = "clone" /\ SoundClone(Clone(j)) /\ MeantClone(Clone(j))
         /\ Clone(j).url = To(j).git /\ To(j).git \in Repos /\ Clone(j).on = Branch(j) /\ OnHome(Clone(j))
<1>1. YardInv /\ Control /\ Tapping /\ j \in todo
  BY AtUnits DEF AtUnit
<1>2. Way(j) = "clone" /\ Mine(j) # {} /\ SoundClone(Clone(j)) /\ Clone(j).url = To(j).git /\ To(j).git \in Repos
  BY <1>1, MySound
<1>3. Clone(j) \in clones /\ Clone(j).branch = To(j).branch
  BY <1>2, CloneIsMine
<1>4. OnHome(Clone(j))
  BY <1>1, <1>3, AllAtHome DEF AtUnit, BranchInv
<1>. QED
  BY <1>2, <1>3, <1>4 DEF AtUnit, BranchInv, ClonesMeant, OnHome, Branch

LEMMA CommitBranch == ASSUME NEW j, AtUnit(j), Commit(j) PROVE BranchInv'
<1>. DEFINE written == With(Clone(j).tree, Content(PathsOf(j.what)))
            dirty == [Clone(j) EXCEPT !.tree = written]
            done == [Clone(j) EXCEPT !.tree = written, !.head = written]
<1>1. Tapping /\ j.phase = "commit" /\ UNCHANGED remote
  BY DEF Commit, forges
<1>2. /\ SoundManifests /\ SoundConfig /\ SoundJob(j) /\ SameTaps /\ DOMAIN j = JobFields /\ run' \in Nat \ {0}
  BY AtUnits
<1>3. /\ Way(j) = "clone" /\ SoundClone(Clone(j)) /\ MeantClone(Clone(j)) /\ OnHome(Clone(j))
      /\ Clone(j).url = To(j).git /\ Clone(j).on = Branch(j)
  BY <1>1, CloneAtHome
<1>4. Belongs(Clone(j).url, Clone(j).on, written)
  BY <1>1, <1>2, <1>3, UnitMeant, Meanings DEF MeantClone
<1>. HIDE DEF written
<1>5. \A c \in {dirty, done} :
        /\ c.url = Clone(j).url /\ c.on = Clone(j).on /\ c.branch = Clone(j).branch
        /\ c.tree = written /\ c.head \in {Clone(j).head, written}
  BY <1>3 DEF SoundClone, CloneFields
<1>6. PICK c \in {dirty, done} : ReplaceClone(j, c) /\ Calm(j)
  BY <1>2, CalmSteps DEF Commit, written
<1>. HIDE DEF dirty, done
<1>7. MeantClone(c) /\ OnHome(c)
  BY <1>3, <1>4, <1>5 DEF MeantClone, OnHome
<1>8. ClonesMeant' /\ ClonesAtHome'
  BY <1>6, <1>7, ReplacedHome
<1>9. ForItsBranch' /\ Branched'
  BY <1>1, <1>2, <1>6, BranchesStay, BranchedStays DEF AtUnit, BranchInv
<1>. QED
  BY <1>2, <1>8, <1>9 DEF BranchInv

LEMMA PushBranch == ASSUME NEW j, AtUnit(j), Push(j) PROVE BranchInv'
<1>. DEFINE pushed == [Clone(j) EXCEPT !.base = Clone(j).head]
<1>1. Tapping /\ j.phase = "push"
  BY DEF Push
<1>2. /\ SoundRemote /\ SameTaps /\ DOMAIN j = JobFields /\ run' \in Nat \ {0}
  BY AtUnits
<1>3. /\ SoundClone(Clone(j)) /\ MeantClone(Clone(j)) /\ OnHome(Clone(j))
      /\ Clone(j).url \in Repos
  BY <1>1, CloneAtHome
<1>4. Calm(j)
  BY <1>2, CalmSteps DEF Push
<1>5. Branched'
  BY <1>1, <1>4, BranchedStays DEF AtUnit, BranchInv
<1>6. CASE UNCHANGED <<remote, clones>>
  BY <1>1, <1>4, <1>6, QuietBranch
<1>7. CASE /\ remote' = [remote EXCEPT ![Clone(j).url] = Reset(@, Clone(j).on, Clone(j).head)]
           /\ ReplaceClone(j, pushed)
  <2>1. /\ pushed.url = Clone(j).url /\ pushed.on = Clone(j).on /\ pushed.branch = Clone(j).branch
        /\ pushed.tree = Clone(j).tree /\ pushed.head = Clone(j).head
    BY <1>3 DEF SoundClone, CloneFields
  <2>. HIDE DEF pushed
  <2>2. MeantClone(pushed) /\ OnHome(pushed)
    BY <1>3, <2>1 DEF MeantClone, OnHome
  <2>3. ClonesMeant' /\ ClonesAtHome'
    BY <1>7, <2>2, ReplacedHome
  <2>4. ForItsBranch'
    BY <1>2, <1>3, <1>7, BranchMeant DEF AtUnit, BranchInv, MeantClone
  <2>. QED
    BY <1>2, <1>5, <2>3, <2>4 DEF BranchInv
<1>. QED
  BY <1>6, <1>7 DEF Push

LEMMA CreateBranch == ASSUME NEW j, AtUnit(j), NEW p \in j.left, CreateFile(j, p) PROVE BranchInv'
<1>0. PICK r, b : r = To(j).name /\ b = Branch(j)
  OBVIOUS
<1>. DEFINE tree == TreeOf(remote[r], b)
            written == With(tree, Content({p}))
            Leaving(t) == remote' = [remote EXCEPT ![r] = Reset(@, b, t)]
<1>1. Tapping /\ j.phase = "file" /\ UNCHANGED clones
  BY DEF CreateFile, dist
<1>2. /\ SoundManifests /\ SoundConfig /\ SoundJob(j) /\ SoundRemote /\ SameTaps /\ DOMAIN j = JobFields
      /\ run' \in Nat \ {0} /\ Control
  BY AtUnits
<1>3. Way(j) = "file" /\ r \in Repos /\ p \in PathsOf(j.what)
  BY <1>0, <1>1, <1>2, WayTo DEF SoundJob, JobAt
<1>4. AskedFor(r, b) /\ Belongs(r, b, Content({p}))
  BY <1>0, <1>1, <1>2, <1>3, UnitMeant
<1>5. Belongs(r, b, tree)
  BY <1>2, <1>3, Meanings DEF TreeOf, AtUnit, BranchInv, ForItsBranch, SoundRemote
<1>. HIDE DEF tree
<1>6. Belongs(r, b, written)
  BY <1>4, <1>5, Meanings
<1>. HIDE DEF written
<1>7. UNCHANGED remote \/ Leaving(tree) \/ Leaving(written)
  BY <1>0 DEF CreateFile, tree, written
<1>8. Calm(j)
  BY <1>2, CalmSteps DEF CreateFile, Afterwards
<1>9. ForItsBranch'
  BY <1>2, <1>3, <1>4, <1>5, <1>6, <1>7, BranchMeant, BranchesStay DEF AtUnit, BranchInv
<1>10. ClonesMeant' /\ Branched'
  BY <1>1, <1>2, <1>8, MeantStay, BranchedStays DEF AtUnit, BranchInv
<1>11. ClonesAtHome'
  BY <1>1, <1>2, AllAtHome DEF AtUnit, BranchInv, ClonesAtHome, OnHome
<1>. QED
  BY <1>2, <1>9, <1>10, <1>11 DEF BranchInv

(* Every step of a job.                                                    *)
LEMMA StepBranch == ASSUME "checkout" \notin Faulty, Sound, BranchInv, Step PROVE BranchInv'
<1>1. PICK j \in todo : Turn(j) /\ (TapStep(j) \/ ImageStep(j) \/ UploadStep(j))
  BY DEF Step
<1>2. YardInv /\ stage \in 1..39 /\ stage # 1 /\ SoundManifests
  BY <1>1 DEF Sound, YardInv, Control, Yard
<1>3. CASE Tapping
  <2>1. TapStep(j) /\ ~Make(j)
    BY <1>1, <1>3, OtherPipes DEF Make, Tapping
  <2>2. UNCHANGED <<Basis, stage>>
    BY <2>1, TapFrame DEF Framed, Flow
  <2>3. UNCHANGED manifests
    BY <2>1 DEF TapStep, StartUnit, PushPackage, OpenClone, Checkout, Commit, Push, CreateFile, OpenPullRequest, dist
  <2>4. AtUnit(j)
    BY <1>1, <1>3, <2>2, <2>3 DEF AtUnit
  <2>. QED
    BY <2>1, <2>4, StartBranch, PackageBranch, OpenBranch, CheckoutBranch, CommitBranch, PushBranch, CreateBranch,
       PullBranch DEF TapStep
<1>4. CASE ~Tapping
  <2>1. Framed(j)
    BY <1>1, <1>2, TapFrame, ImageFrame, UploadFrame
  <2>2. UNCHANGED <<Basis, Checkouts, stage, remote, clones, run>> /\ SameTaps
    BY <1>4, <2>1, SameBasis DEF Framed, Flow, Basis, Checkouts
  <2>3. ForItsBranch' /\ ClonesMeant'
    BY <2>2, BranchesStay, MeantStay DEF BranchInv
  <2>4. ~Tapping'
    BY <1>4, <2>2 DEF Tapping, Publishes, Pipe, Now
  <2>5. ClonesAtHome' /\ Branched'
    BY <1>2, <1>4, <2>2, <2>4 DEF BranchInv, ClonesAtHome, OnHome, Waiting, Branched
  <2>. QED
    BY <2>2, <2>3, <2>5 DEF BranchInv
<1>. QED
  BY <1>3, <1>4

LEMMA BeginBranch == ASSUME Sound, BranchInv, Begin PROVE BranchInv'
<1>1. /\ UNCHANGED <<Basis, Checkouts, stage, manifests, remote, clones, run>> /\ SameTaps
      /\ todo = {} /\ todo' = UNION {JobsOf(i) : i \in (at + 1)..at'} /\ ~Setting
  BY SameBasis DEF Begin, Basis, Checkouts, fixed, dist, forges
<1>2. ForItsBranch' /\ ClonesMeant'
  BY <1>1, BranchesStay, MeantStay DEF BranchInv
<1>3. \A c \in clones : OnHome(c)
  <2>1. stage # 1
    BY <1>1, StageNames DEF Sound, YardInv, Control
  <2>. QED
    BY <1>1, <2>1 DEF BranchInv, ClonesAtHome, Waiting
<1>4. ClonesAtHome'
  BY <1>1, <1>3 DEF ClonesAtHome, OnHome
<1>5. Branched'
  <2>1. Tapping' <=> Tapping
    BY <1>1 DEF Tapping, Publishes, Pipe, Now
  <2>2. ASSUME Tapping, NEW k \in todo' PROVE k.phase # "checkout"
    <3>1. PICK i : k \in JobsOf(i)
      BY <1>1
    <3>2. k.phase = "start"
      BY <2>2, <3>1, NewJobs
    <3>. QED
      BY <3>2
  <2>. QED
    BY <2>1, <2>2 DEF Branched
<1>. QED
  BY <1>1, <1>2, <1>4, <1>5 DEF BranchInv

LEMMA FinishBranch == ASSUME Sound, BranchInv, Finish PROVE BranchInv'
<1>1. /\ UNCHANGED <<Basis, Checkouts, remote, clones, run>> /\ SameTaps
      /\ todo = {} /\ todo' = {} /\ ~Setting
  BY SameBasis DEF Finish, GoOn, End, Basis, Checkouts, fixed, dist, forges
<1>2. ForItsBranch' /\ ClonesMeant'
  BY <1>1, BranchesStay, MeantStay DEF BranchInv
<1>3. \A c \in clones : OnHome(c)
  <2>1. stage # 1
    BY <1>1, StageNames DEF Sound, YardInv, Control
  <2>. QED
    BY <1>1, <2>1 DEF BranchInv, ClonesAtHome, Waiting
<1>4. ClonesAtHome' /\ Branched'
  BY <1>1, <1>3 DEF ClonesAtHome, OnHome, Branched
<1>. QED
  BY <1>1, <1>2, <1>4 DEF BranchInv

(* The defaults leave the repositories of the taps.                        *)
LEMMA SameRefs ==
  ASSUME SoundConfig, NEW env, cfg' = Defaults(cfg, env)
  PROVE  \A k \in Kinds : /\ DOMAIN cfg'[k] = DOMAIN cfg[k]
                          /\ \A i \in DOMAIN cfg[k] : /\ RepoOf(k, cfg'[k][i]) = RepoOf(k, cfg[k][i])
                                                      /\ HomeOf(k, cfg'[k][i]) = HomeOf(k, cfg[k][i])
<1>. SUFFICES ASSUME NEW k \in Kinds
              PROVE  /\ DOMAIN cfg'[k] = DOMAIN cfg[k]
                     /\ \A i \in DOMAIN cfg[k] : /\ RepoOf(k, cfg'[k][i]) = RepoOf(k, cfg[k][i])
                                                 /\ HomeOf(k, cfg'[k][i]) = HomeOf(k, cfg[k][i])
  OBVIOUS
<1>1. cfg'[k] = [i \in DOMAIN cfg[k] |-> WithDefaults(k, cfg[k][i])]
  BY DefaultTaps
<1>2. ASSUME NEW i \in DOMAIN cfg[k] PROVE cfg'[k][i].repository = cfg[k][i].repository
  BY <1>1, DefaultTwice DEF SoundConfig
<1>3. \A t, u : t.repository = u.repository => Target(k, t) = Target(k, u)
  BY DEF Target
<1>. QED
  BY <1>1, <1>2, <1>3 DEF RepoOf, HomeOf

LEMMA SetUpBranch == ASSUME Sound, BranchInv, SetUp PROVE BranchInv'
<1>1. /\ stage = 1 /\ todo = {} /\ UNCHANGED <<remote, run, todo, world, built>>
      /\ clones' = IF world.clean THEN {} ELSE clones
      /\ \/ UNCHANGED <<cfg, stage>>
         \/ cfg' = Defaults(cfg, world.koRepo) /\ ~SetupErrs(world, cfg', Used)
  <2>1. stage = 1 /\ todo = {}
    BY StageNames DEF Sound, YardInv, Control, SetUp
  <2>. QED
    BY <2>1 DEF SetUp, place, forges
<1>2. \A k \in Kinds : /\ DOMAIN cfg'[k] = DOMAIN cfg[k]
                       /\ \A i \in DOMAIN cfg[k] : /\ RepoOf(k, cfg'[k][i]) = RepoOf(k, cfg[k][i])
                                                   /\ HomeOf(k, cfg'[k][i]) = HomeOf(k, cfg[k][i])
  BY <1>1, SameRefs DEF Sound, YardInv
<1>3. \A r, b : AskedFor(r, b) => AskedFor(r, b)'
  BY <1>2 DEF AskedFor
<1>4. ASSUME Settled PROVE ForItsBranch' /\ ClonesMeant'
  <2>1. SameTaps
    <3>1. CASE UNCHANGED cfg
      BY <1>1, <3>1 DEF SameTaps
    <3>2. CASE cfg' = Defaults(cfg, world.koRepo)
      BY <1>1, <1>4, <3>2, SetUpConfig DEF Sound, YardInv
    <3>. QED
      BY <1>1, <3>1, <3>2
  <2>. QED
    BY <1>1, <2>1, BranchesStay, MeantStay DEF BranchInv
<1>5. ASSUME Untouched PROVE ForItsBranch' /\ ClonesMeant'
  <2>1. \A r \in Repos : \A b \in DOMAIN remote[r] : remote[r][b] = {}
    BY <1>5 DEF Untouched, Committed, Trees
  <2>2. \A r, b : Belongs(r, b, {})'
    BY DEF Belongs
  <2>3. ASSUME NEW r \in Repos, NEW b \in DOMAIN remote[r] PROVE AskedFor(r, b)' /\ Belongs(r, b, remote[r][b])'
    <3>1. AskedFor(r, b)' /\ remote'[r][b] = {}
      BY <1>1, <1>3, <2>1 DEF BranchInv, ForItsBranch
    <3>. QED
      BY <3>1 DEF Belongs
  <2>4. ForItsBranch'
    BY <1>1, <2>3 DEF ForItsBranch
  <2>5. clones' = {}
    BY <1>1, <1>5 DEF Untouched
  <2>. QED
    BY <2>4, <2>5 DEF ClonesMeant
<1>6. ASSUME ~Used \/ (stage' # 1 /\ ~world.clean), NEW c \in clones PROVE OnHome(c)
  <2>1. ~Used
    <3>1. SetupErrs(world, cfg', Used) \/ ~distErrs(world, Used) \/ UNCHANGED stage
      BY <1>1 DEF SetupErrs
    <3>. QED
      BY <1>1, <1>6, <3>1 DEF distErrs, SetupErrs
  <2>. QED
    BY <1>1, <2>1 DEF BranchInv, ClonesAtHome, Waiting
<1>7. ClonesAtHome' /\ Branched'
  <2>1. ASSUME NEW c \in clones' PROVE OnHome(c) \/ (stage' = 1 /\ Used)
    BY <1>1, <1>6
  <2>. QED
    BY <1>1, <2>1 DEF ClonesAtHome, OnHome, Branched, Used
<1>. QED
  BY <1>1, <1>4, <1>5, <1>7 DEF Sound, BranchInv

(* For any scenarios, if changing the branch of a checkout does not fail:  *)
(* a branch is there for a tap that is for it, and has files only of taps  *)
(* for it, and of taps for main, where it was started from.                *)
LEMMA AlwaysBranch == ASSUME "checkout" \notin Faulty PROVE Spec => []BranchInv
<1>1. Init => BranchInv
  <2>. SUFFICES ASSUME Init PROVE BranchInv
    OBVIOUS
  <2>1. clones = {} /\ todo = {} /\ run = 1 /\ remote = [r \in Repos |-> [b \in {"main"} |-> {}]]
    BY DEF Init
  <2>. QED
    BY <2>1 DEF BranchInv, ForItsBranch, AskedFor, Belongs, ClonesMeant, ClonesAtHome, Branched
<1>2. Sound /\ BranchInv /\ [Next]_vars => BranchInv'
  <2>. SUFFICES ASSUME Sound, BranchInv, [Next]_vars PROVE BranchInv'
    OBVIOUS
  <2>1. CASE UNCHANGED vars \/ Crash
    <3>1. UNCHANGED <<Basis, Checkouts, remote, clones, run, stage, todo, manifests, cfg>> /\ SameTaps
      BY <2>1, SameBasis DEF Crash, vars, fixed, place, dist, forges, Basis, Checkouts
    <3>2. ForItsBranch' /\ ClonesMeant'
      BY <3>1, BranchesStay, MeantStay DEF BranchInv
    <3>3. (Tapping' <=> Tapping) /\ \A j : To(j)' = To(j) /\ Mine(j)' = Mine(j)
      BY <3>1, TapKept DEF Mine
    <3>4. ClonesAtHome' /\ Branched'
      BY <3>1, <3>3 DEF BranchInv, ClonesAtHome, OnHome, Waiting, Branched, Used
    <3>. QED
      BY <3>1, <3>2, <3>4 DEF BranchInv
  <2>2. CASE Begin
    BY <2>2, BeginBranch
  <2>3. CASE Step
    BY <2>3, StepBranch
  <2>4. CASE Finish
    BY <2>4, FinishBranch
  <2>5. CASE SetUp
    BY <2>5, SetUpBranch
  <2>6. CASE Again
    <3>1. /\ UNCHANGED <<cfg, world, built, remote, clones>> /\ stage' = 1 /\ todo' = {} /\ run' = run + 1
      BY <2>6 DEF Again, forges
    <3>2. SameTaps
      BY <3>1 DEF SameTaps
    <3>3. ForItsBranch' /\ ClonesMeant'
      BY <3>1, <3>2, BranchesStay, MeantStay DEF BranchInv
    <3>4. run' > 1 /\ run' \in Nat \ {0}
      BY <3>1 DEF BranchInv
    <3>5. ClonesAtHome' /\ Branched'
      BY <3>1, <3>4 DEF ClonesAtHome, Branched, Used
    <3>. QED
      BY <3>3, <3>4, <3>5 DEF BranchInv
  <2>. QED
    BY <2>1, <2>2, <2>3, <2>4, <2>5, <2>6 DEF Next
<1>. QED
  BY <1>1, <1>2, AlwaysSound, PTL DEF Spec

(* A file is on the branch of its tap, or on one that was started from     *)
(* main when the file was there, if no checkout of a branch fails: units   *)
(* of one tap's pipe, taps that share a checkout, runs that were stopped   *)
(* in between and taken up again, pull requests and pushes do not mix      *)
(* branches up.                                                            *)
THEOREM BranchesKept == ASSUME "checkout" \notin Faulty PROVE Spec => []ForItsBranch
BY AlwaysBranch, PTL DEF BranchInv

(* Where the taps of a repository are for one branch, every file is where  *)
(* its tap is configured to be.                                            *)
OneBranchEach ==
  \A s \in Scenarios : \A k, l \in Kinds : \A i \in DOMAIN s.cfg[k] : \A n \in DOMAIN s.cfg[l] :
    RepoOf(k, s.cfg[k][i]) = RepoOf(l, s.cfg[l][n]) => HomeOf(k, s.cfg[k][i]) = HomeOf(l, s.cfg[l][n])
OneBranch ==
  \A k, l \in Kinds : \A i \in DOMAIN cfg[k] : \A n \in DOMAIN cfg[l] :
    RepoOf(k, cfg[k][i]) = RepoOf(l, cfg[l][n]) => HomeOf(k, cfg[k][i]) = HomeOf(l, cfg[l][n])

LEMMA AlwaysOneBranch == ASSUME OneBranchEach PROVE Spec => []OneBranch
<1>1. Init => OneBranch
  BY DEF Init, OneBranchEach, OneBranch
<1>2. Sound /\ OneBranch /\ [Next]_vars => OneBranch'
  <2>. SUFFICES ASSUME Sound, OneBranch, [Next]_vars PROVE OneBranch'
    OBVIOUS
  <2>1. CASE UNCHANGED cfg
    BY <2>1 DEF OneBranch
  <2>2. CASE cfg' = Defaults(cfg, world.koRepo)
    <3>1. \A k \in Kinds : /\ DOMAIN cfg'[k] = DOMAIN cfg[k]
                           /\ \A i \in DOMAIN cfg[k] : /\ RepoOf(k, cfg'[k][i]) = RepoOf(k, cfg[k][i])
                                                       /\ HomeOf(k, cfg'[k][i]) = HomeOf(k, cfg[k][i])
      BY <2>2, SameRefs DEF Sound, YardInv
    <3>. QED
      BY <3>1 DEF OneBranch
  <2>3. UNCHANGED cfg \/ cfg' = Defaults(cfg, world.koRepo)
    <3>1. CASE Step
      <4>1. PICK j \in todo : TapStep(j) \/ ImageStep(j) \/ UploadStep(j)
        BY <3>1 DEF Step
      <4>2. stage \in 1..39
        BY DEF Sound, YardInv, Control
      <4>3. Framed(j)
        BY <4>1, <4>2, TapFrame, ImageFrame, UploadFrame
      <4>. QED
        BY <4>3 DEF Framed, Basis
    <3>2. CASE SetUp
      BY <3>2 DEF SetUp
    <3>. QED
      BY <3>1, <3>2 DEF Next, Begin, Finish, Crash, Again, fixed, vars
  <2>. QED
    BY <2>1, <2>2, <2>3
<1>. QED
  BY <1>1, <1>2, AlwaysSound, PTL DEF Spec

(* If no checkout of a branch fails, and the taps of a repository are for  *)
(* one branch, a file is on the branch its tap names: a failed checkout,   *)
(* after which the clone is used as it is, is the only way elsewhere.      *)
THEOREM CommittedWhereConfigured ==
  ASSUME "checkout" \notin Faulty, OneBranchEach PROVE Spec => []WhereConfigured
<1>1. ForItsBranch /\ OneBranch => WhereConfigured
  <2>. SUFFICES ASSUME ForItsBranch, OneBranch, NEW r \in Repos, NEW b \in DOMAIN remote[r], NEW f \in remote[r][b]
                PROVE  \E x \in TapsOf :
                         /\ f[1] \in FilesOf(x)
                         /\ \/ b = Target(x[1], x[2]).branch
                            \/ b = "main" /\ Target(x[1], x[2]).branch = ""
    BY DEF WhereConfigured
  <2>1. PICK k \in Kinds : \E i \in DOMAIN cfg[k] :
          /\ f[1] \in FilesOf(<<k, cfg[k][i]>>)
          /\ RepoOf(k, cfg[k][i]) = r /\ HomeOf(k, cfg[k][i]) \in {b, "main"}
    BY DEF ForItsBranch, Belongs, Meant
  <2>2. PICK i \in DOMAIN cfg[k] :
          /\ f[1] \in FilesOf(<<k, cfg[k][i]>>)
          /\ RepoOf(k, cfg[k][i]) = r /\ HomeOf(k, cfg[k][i]) \in {b, "main"}
    BY <2>1
  <2>3. HomeOf(k, cfg[k][i]) = b
    <3>1. AskedFor(r, b)
      BY DEF ForItsBranch
    <3>. QED
      BY <2>2, <3>1 DEF AskedFor, OneBranch
  <2>. DEFINE x == <<k, cfg[k][i]>>
  <2>4. x \in TapsOf /\ x[1] = k /\ x[2] = cfg[k][i]
    BY DEF TapsOf
  <2>5. b = Target(x[1], x[2]).branch \/ (b = "main" /\ Target(x[1], x[2]).branch = "")
    BY <2>3, <2>4 DEF HomeOf
  <2>. HIDE DEF x
  <2>6. f[1] \in FilesOf(x)
    BY <2>2 DEF x
  <2>. QED
    BY <2>4, <2>5, <2>6
<1>. QED
  BY <1>1, BranchesKept, AlwaysOneBranch, PTL
-----------------------------------------------------------------------------
(* Why a run that meets no fault fails. What is refused for what is there  *)
(* already comes from a repository reached by git, from the MCP registry   *)
(* or from a manifest, which ends the run: the image it missed is still    *)
(* missing when the run is over, for no other manifest has its name.       *)
ListsNoManifest ==
  \A s \in Scenarios : \A i, j \in DOMAIN s.cfg.dockerManifests :
    s.cfg.dockerManifests[j].name \notin s.cfg.dockerManifests[i].images

Nameless(image) == \A x \in registry : x[1] # image
Lacking == \E i \in DOMAIN cfg.dockerManifests : \E image \in cfg.dockerManifests[i].images : Nameless(image)
ByGit == \E x \in TapsOf : x[2].repository.git # ""
HeldUp == cfg.mcp # <<>> \/ ByGit \/ (Pipe = "docker.Manifest" /\ failed /\ Lacking)

SoundLists ==
  /\ "dockerManifests" \in DOMAIN cfg
  /\ Len(cfg.dockerManifests) \in Nat /\ DOMAIN cfg.dockerManifests = 1..Len(cfg.dockerManifests)
  /\ \A i, j \in DOMAIN cfg.dockerManifests :
       cfg.dockerManifests[j].name \notin cfg.dockerManifests[i].images
KeepsOld == ~cfg.release.replaceExistingArtifacts /\ ctx.forge # "gitea"
ListedJobs ==
  /\ Pipe = "docker.Manifest" => at \in Nat /\ \A j \in todo : j.at \in DOMAIN cfg.dockerManifests
  /\ Pipe = "mcp" /\ todo # {} => cfg.mcp # <<>>

Causes ==
  /\ cause \in {"none", "config", "state", "assets", "fault"}
  /\ cause = "assets" => KeepsOld
  /\ run > 1 => faults = 0 /\ cause # "fault"
  /\ failed \/ memo \/ result = "err" => cause # "none"
  /\ run > 1 /\ cause = "state" => HeldUp
  /\ stage = 1 /\ ~Ended => cause = "none"
CausesInv == SoundLists /\ ListedJobs /\ Causes

(* What a step of a job comes to.                                          *)
Blocked == cfg.mcp # <<>> \/ ByGit \/ (Pipe = "docker.Manifest" /\ Lacking /\ UNCHANGED registry)
Explained(why) ==
  /\ why \in {"config", "state", "assets", "fault"}
  /\ (why = "fault" => faults > 0) /\ (why = "state" => Blocked) /\ (why = "assets" => KeepsOld)
Course ==
  /\ UNCHANGED <<memo, result>> /\ (faults' = faults \/ faults > 0)
  /\ UNCHANGED <<failed, cause>> \/ (failed' = TRUE /\ \E why : Explained(why) /\ Because(why))

LEMMA Courses ==
  ASSUME NEW j
  PROVE  /\ Done(j) => Course
         /\ \A left, phase : Proceeds(j, left, phase) => Course
         /\ Breaks(j, "fault") /\ faults > 0 => Course
         /\ Refused(j, "config") => Course
         /\ Refused(j, "state") /\ Blocked => Course
         /\ Refused(j, "assets") /\ KeepsOld => Course
         /\ \A step : Unfortunate(j, step) => Course
         /\ \A step : Shrugged(j, step) => Course
         /\ Retries(j) /\ faults > 0 => Course
<1>1. Done(j) => Course
  BY DEF Done, outcome, Course
<1>2. ASSUME NEW left, NEW phase, Proceeds(j, left, phase) PROVE Course
  BY <1>2 DEF Proceeds, outcome, Course
<1>3. ASSUME NEW why, Breaks(j, why), Explained(why), faults' = faults \/ faults > 0 PROVE Course
  BY <1>3 DEF Breaks, Course
<1>4. Breaks(j, "fault") /\ faults > 0 => Course
  BY <1>3 DEF Explained
<1>5. Refused(j, "config") => Course
  BY <1>3 DEF Explained, Refused
<1>6. Refused(j, "state") /\ Blocked => Course
  BY <1>3 DEF Explained, Refused
<1>10. Refused(j, "assets") /\ KeepsOld => Course
  BY <1>3 DEF Explained, Refused
<1>7. ASSUME NEW step, Unfortunate(j, step) PROVE Course
  BY <1>4, <1>7 DEF Unfortunate, Unlucky
<1>8. ASSUME NEW step, Shrugged(j, step) PROVE Course
  BY <1>8 DEF Shrugged, Unlucky, Course
<1>9. Retries(j) /\ faults > 0 => Course
  BY DEF Retries, place, Course
<1>. QED
  BY <1>1, <1>2, <1>4, <1>5, <1>6, <1>7, <1>8, <1>9, <1>10

(* What goes by git does so because its tap says so.                       *)
LEMMA GitIsNamed ==
  ASSUME YardInv, Tapping, NEW j \in todo, j.phase \in {"commit", "push"}
  PROVE  ByGit
<1>1. SoundJob(j) /\ SoundManifests /\ SoundConfig
  BY AtTap
<1>2. Pipe \in Kinds /\ j.what \in Units(manifests, Pipe) /\ Way(j) = "clone"
  BY <1>1 DEF Tapping, SoundJob, JobAt
<1>3. First(j.what).at \in DOMAIN cfg[Pipe]
  BY <1>1, <1>2, UnitIsTap
<1>4. Tap(j) = cfg[Pipe][First(j.what).at]
  BY <1>2 DEF Tap, Configured, Field, Kinds
<1>5. Tap(j).repository.git # ""
  BY <1>2, Ways DEF Way
<1>. DEFINE x == <<Pipe, cfg[Pipe][First(j.what).at]>>
<1>6. x \in TapsOf
  BY <1>2, <1>3 DEF TapsOf
<1>7. x[2].repository.git # ""
  BY <1>4, <1>5
<1>. QED
  BY <1>6, <1>7 DEF ByGit

LEMMA TapCourse == ASSUME YardInv, NEW j \in todo, TapStep(j) PROVE Course /\ UNCHANGED registry
<1>. USE Courses DEF stores
<1>1. CASE Make(j)
  BY <1>1 DEF Make
<1>2. CASE StartUnit(j)
  BY <1>2 DEF StartUnit
<1>3. CASE PushPackage(j)
  BY <1>3 DEF PushPackage
<1>4. CASE OpenClone(j)
  BY <1>4 DEF OpenClone
<1>5. CASE Checkout(j)
  BY <1>5 DEF Checkout
<1>6. CASE Commit(j)
  <2>1. Blocked
    BY <1>6, GitIsNamed DEF Commit, Blocked
  <2>. QED
    BY <1>6, <2>1 DEF Commit
<1>7. CASE Push(j)
  <2>1. Blocked
    BY <1>7, GitIsNamed DEF Push, Blocked
  <2>. QED
    BY <1>7, <2>1 DEF Push
<1>8. ASSUME NEW p \in j.left, CreateFile(j, p) PROVE Course /\ UNCHANGED registry
  BY <1>8 DEF CreateFile, Afterwards
<1>9. CASE OpenPullRequest(j)
  BY <1>9 DEF OpenPullRequest, Tolerated
<1>. QED
  BY <1>1, <1>2, <1>3, <1>4, <1>5, <1>6, <1>7, <1>8, <1>9 DEF TapStep

(* The registry, at a manifest, takes nothing but manifests.               *)
Adds ==
  \/ UNCHANGED registry
  \/ \E i \in DOMAIN cfg.dockerManifests : \E digest : Registered({<<cfg.dockerManifests[i].name, digest>>})

LEMMA ManifestCourse ==
  ASSUME SoundLists, ListedJobs, NEW j \in todo, PushManifest(j)
  PROVE  Course /\ Adds
<1>. DEFINE m == cfg.dockerManifests[j.at]
<1>1. Pipe = "docker.Manifest" /\ j.at \in DOMAIN cfg.dockerManifests
  BY DEF PushManifest, ListedJobs
<1>2. Configured[j.at] = m
  BY <1>1 DEF Configured, Field
<1>3. ASSUME ~(\A x \in manifestImages(m) : InRegistry(x)) PROVE Lacking
  <2>1. PICK x \in manifestImages(m) : ~InRegistry(x)
    BY <1>3
  <2>2. PICK image \in m.images : x = withDigest(image, {a \in arts : a.type = "DockerImage"})
    BY <2>1 DEF manifestImages
  <2>3. x[1] = image
    BY <2>2 DEF withDigest
  <2>4. Nameless(image)
    BY <2>1, <2>3 DEF InRegistry, Nameless
  <2>. QED
    BY <1>1, <2>2, <2>4 DEF Lacking
<1>4. ASSUME Refused(j, "state"), ~(\A x \in manifestImages(m) : InRegistry(x)), UNCHANGED registry
      PROVE  Course
  <2>1. Blocked
    BY <1>1, <1>3, <1>4 DEF Blocked
  <2>. QED
    BY <1>4, <2>1, Courses
<1>. QED
  BY <1>1, <1>2, <1>4, Courses DEF PushManifest, Adds

LEMMA ImageCourse ==
  ASSUME SoundLists, ListedJobs, NEW j \in todo, ImageStep(j)
  PROVE  Course /\ (Pipe = "docker.Manifest" => Adds)
<1>. USE Courses
<1>1. CASE BuildImage(j)
  BY <1>1 DEF BuildImage
<1>2. CASE PushImage(j)
  BY <1>2 DEF PushImage
<1>3. CASE PushManifest(j)
  BY <1>3, ManifestCourse
<1>4. CASE BuildPush(j)
  BY <1>4 DEF BuildPush
<1>5. CASE KoBuild(j)
  BY <1>5 DEF KoBuild
<1>6. ASSUME NEW name \in j.left, CopyImage(j, name) PROVE Course /\ (Pipe = "docker.Manifest" => Adds)
  BY <1>6 DEF CopyImage
<1>7. CASE WriteDigests(j)
  BY <1>7 DEF WriteDigests
<1>8. CASE SignImages(j)
  BY <1>8 DEF SignImages
<1>9. CASE PushSnap(j)
  BY <1>9 DEF PushSnap
<1>. QED
  BY <1>1, <1>2, <1>3, <1>4, <1>5, <1>6, <1>7, <1>8, <1>9 DEF ImageStep

LEMMA UploadCourse == ASSUME ListedJobs, NEW j \in todo, UploadStep(j) PROVE Course /\ UNCHANGED registry
<1>. USE Courses DEF Elsewhere, stores
<1>1. CASE Deliver(j)
  BY <1>1 DEF Deliver
<1>2. CASE Refuse(j)
  BY <1>2 DEF Refuse
<1>3. CASE UploadFile(j)
  BY <1>3 DEF UploadFile
<1>4. CASE CreateApp(j)
  BY <1>4 DEF CreateApp, Unlucky
<1>5. CASE UpdateApp(j)
  BY <1>5 DEF UpdateApp
<1>6. CASE Release(j)
  BY <1>6 DEF Release, AlreadyExists, KeepsOld
<1>7. CASE writeArtifacts(j)
  BY <1>7 DEF writeArtifacts
<1>8. CASE PublishServer(j)
  <2>1. Blocked
    BY <1>8 DEF PublishServer, ListedJobs, Blocked
  <2>. QED
    BY <1>8, <2>1 DEF PublishServer
<1>9. CASE CloseMilestone(j)
  BY <1>9 DEF CloseMilestone
<1>10. CASE StartAnnouncing(j)
  BY <1>10 DEF StartAnnouncing
<1>11. CASE Request(j)
  BY <1>11 DEF Request, Unlucky
<1>. QED
  BY <1>1, <1>2, <1>3, <1>4, <1>5, <1>6, <1>7, <1>8, <1>9, <1>10, <1>11 DEF UploadStep

LEMMA StaysLacking == ASSUME SoundLists, Lacking, Adds, UNCHANGED cfg PROVE Lacking'
<1>0. PICK i \in DOMAIN cfg.dockerManifests : \E image \in cfg.dockerManifests[i].images : Nameless(image)
  BY DEF Lacking
<1>1. PICK image \in cfg.dockerManifests[i].images : Nameless(image)
  BY <1>0
<1>2. ASSUME NEW k \in DOMAIN cfg.dockerManifests, NEW digest,
             Registered({<<cfg.dockerManifests[k].name, digest>>})
      PROVE  Nameless(image)'
  <2>1. cfg.dockerManifests[k].name # image
    BY DEF SoundLists
  <2>2. registry' \subseteq registry \cup {<<cfg.dockerManifests[k].name, digest>>}
    BY <1>2 DEF Registered
  <2>3. <<cfg.dockerManifests[k].name, digest>>[1] # image
    BY <2>1
  <2>. QED
    BY <1>1, <2>2, <2>3 DEF Nameless
<1>3. Nameless(image)'
  BY <1>1, <1>2 DEF Adds, Nameless
<1>. QED
  BY <1>3 DEF Lacking

LEMMA ByGitStays == UNCHANGED cfg => (ByGit <=> ByGit')
BY DEF ByGit, TapsOf

LEMMA ListsStay == ASSUME SoundLists, UNCHANGED cfg PROVE SoundLists'
BY DEF SoundLists

LEMMA InitCauses == ASSUME ListsNoManifest, Init PROVE CausesInv
<1>1. PICK s \in Scenarios : cfg = s.cfg
  BY DEF Init
<1>2. cfg \in Config!Project
  BY <1>1, DeliveryAssumption
<1>3. cfg.dockerManifests \in Seq(Config!DockerManifest) /\ "dockerManifests" \in DOMAIN cfg
  BY <1>2 DEF Config!Project
<1>4. SoundLists
  BY <1>1, <1>3 DEF SoundLists, ListsNoManifest
<1>5. Control
  BY InitLeaves DEF LeavesInv
<1>6. Pipe = "setup"
  BY <1>5, StageNames DEF Init, Setting
<1>7. ListedJobs
  BY <1>6 DEF ListedJobs
<1>8. Causes
  BY DEF Init, Causes
<1>. QED
  BY <1>4, <1>7, <1>8 DEF CausesInv

LEMMA StepCauses == ASSUME Sound, CausesInv, Step PROVE CausesInv'
<1>1. PICK j \in todo : Turn(j) /\ (TapStep(j) \/ ImageStep(j) \/ UploadStep(j))
  BY DEF Step
<1>2. YardInv /\ Control /\ SoundLists /\ ListedJobs /\ Causes /\ ~Ended /\ stage # 1
  BY <1>1, StageNames DEF Sound, YardInv, CausesInv, Turn, Control
<1>3. Framed(j)
  BY <1>1, <1>2, TapFrame, ImageFrame, UploadFrame DEF Control
<1>4. Course /\ (Pipe = "docker.Manifest" => Adds)
  BY <1>1, <1>2, TapCourse, ImageCourse, UploadCourse DEF Adds
<1>5. UNCHANGED <<cfg, ctx, run, stage, at>> /\ Flow(j)
  BY <1>3 DEF Framed, Basis, Flow
<1>6. Pipe' = Pipe /\ (ByGit <=> ByGit') /\ (KeepsOld <=> KeepsOld')
  BY <1>5, ByGitStays DEF Pipe, Now, KeepsOld
<1>7. SoundLists'
  BY <1>2, <1>5, ListsStay
<1>8. ListedJobs'
  <2>1. ASSUME NEW k \in todo' PROVE \E o \in todo : k.at = o.at
    <3>1. ASSUME NEW left, NEW phase, k = [j EXCEPT !.left = left, !.phase = phase] PROVE k.at = j.at
      BY <1>2, <3>1 DEF YardInv, SoundJobs, JobFields
    <3>. QED
      BY <1>5, <2>1, <3>1 DEF Flow
  <2>. QED
    BY <1>2, <1>5, <1>6, <2>1 DEF ListedJobs
<1>9. Lacking /\ Pipe = "docker.Manifest" => Lacking'
  BY <1>2, <1>4, <1>5, StaysLacking
<1>10. HeldUp /\ (failed => failed') => HeldUp'
  BY <1>5, <1>6, <1>9 DEF HeldUp
<1>11. CASE UNCHANGED <<failed, cause>>
  <2>1. run > 1 => faults' = 0
    BY <1>2, <1>4 DEF Causes, Course
  <2>2. UNCHANGED <<memo, result>>
    BY <1>4 DEF Course
  <2>. QED
    BY <1>2, <1>5, <1>6, <1>7, <1>8, <1>10, <1>11, <2>1, <2>2 DEF CausesInv, Causes, Ended
<1>12. ASSUME failed' = TRUE, NEW why, Explained(why), Because(why) PROVE CausesInv'
  <2>1. run > 1 => faults' = 0 /\ faults = 0
    BY <1>2, <1>4 DEF Causes, Course
  <2>2. cause' = IF cause = "none" THEN why ELSE cause
    BY <1>12 DEF Because
  <2>3. cause' \in {"config", "state", "assets", "fault"} /\ (cause' = "assets" => KeepsOld')
    BY <1>2, <1>6, <1>12, <2>2 DEF Explained, Causes
  <2>4. ASSUME run > 1 PROVE cause' # "fault"
    BY <1>2, <1>12, <2>1, <2>2, <2>4 DEF Explained, Causes
  <2>5. ASSUME run > 1, cause' = "state" PROVE HeldUp'
    <3>1. CASE cause = "none"
      <4>1. Blocked
        BY <1>12, <2>2, <2>5, <3>1 DEF Explained
      <4>2. Lacking /\ UNCHANGED registry => Lacking'
        BY <1>2, <1>5, StaysLacking DEF Adds
      <4>. QED
        BY <1>5, <1>6, <1>12, <4>1, <4>2 DEF Blocked, HeldUp
    <3>2. CASE cause # "none"
      BY <1>2, <1>10, <1>12, <2>2, <2>5, <3>2 DEF Causes
    <3>. QED
      BY <3>1, <3>2
  <2>6. Causes'
    BY <1>2, <1>5, <2>1, <2>3, <2>4, <2>5 DEF Causes
  <2>. QED
    BY <1>7, <1>8, <2>6 DEF CausesInv
<1>. QED
  BY <1>4, <1>11, <1>12 DEF Course

LEMMA BeginCauses == ASSUME Sound, CausesInv, Begin PROVE CausesInv'
<1>1. /\ UNCHANGED <<cfg, ctx, run, stage, failed, memo, result, cause, faults, registry>>
      /\ ~Setting /\ todo = {} /\ at < Number
      /\ at' = IF AllAtOnce THEN Number ELSE at + 1
      /\ todo' = UNION {JobsOf(i) : i \in (at + 1)..at'}
  BY DEF Begin, fixed, outcome, stores
<1>2. SoundLists /\ ListedJobs /\ Causes /\ SoundPlace
  BY DEF Sound, CausesInv
<1>3. Pipe' = Pipe /\ (ByGit <=> ByGit') /\ (Lacking <=> Lacking')
  BY <1>1, ByGitStays DEF Pipe, Now, Lacking, Nameless
<1>4. SoundLists'
  BY <1>1, <1>2, ListsStay
<1>5. ASSUME Pipe = "docker.Manifest"
      PROVE  at' \in Nat /\ \A k \in todo' : k.at \in DOMAIN cfg.dockerManifests
  <2>1. AllAtOnce /\ at' = Number /\ at \in Nat
    BY <1>1, <1>2, <1>5 DEF AllAtOnce, ListedJobs
  <2>2. Number \in {0, Len(cfg.dockerManifests)}
    BY <1>5 DEF Number, FromArtifacts, Kinds, Configured, Field
  <2>3. Number = Len(cfg.dockerManifests) /\ Number \in Nat /\ DOMAIN cfg.dockerManifests = 1..Number
    BY <1>1, <1>2, <2>1, <2>2 DEF SoundLists
  <2>4. ASSUME NEW k \in todo' PROVE k.at \in (at + 1)..at'
    BY <1>1, <2>4, NewJobs
  <2>. QED
    BY <2>1, <2>3, <2>4
<1>6. ASSUME Pipe = "mcp" PROVE cfg.mcp # <<>>
  <2>1. at \in Nat
    BY <1>2, <1>6 DEF SoundPlace, AllAtOnce
  <2>2. Number \in {0, Len(cfg.mcp)}
    BY <1>6 DEF Number, FromArtifacts, Kinds, Configured, Field
  <2>. QED
    BY <1>1, <2>1, <2>2
<1>7. ListedJobs'
  BY <1>1, <1>3, <1>5, <1>6 DEF ListedJobs
<1>8. Causes'
  BY <1>1, <1>2, <1>3 DEF Causes, HeldUp, Ended, KeepsOld
<1>. QED
  BY <1>4, <1>7, <1>8 DEF CausesInv

LEMMA FinishCauses == ASSUME Sound, CausesInv, Finish PROVE CausesInv'
<1>1. /\ UNCHANGED <<cfg, ctx, run, cause, faults, registry>> /\ todo = {} /\ todo' = {}
      /\ ~Ended /\ ~Setting
  BY DEF Finish, GoOn, End, fixed, stores
<1>2. /\ SoundLists /\ ListedJobs /\ Causes /\ stage \in 1..39 /\ stage # 1
  BY <1>1, StageNames DEF Sound, YardInv, Control, CausesInv
<1>3. \/ UNCHANGED <<stage, at, failed, memo>> /\ (result' = "err" => failed \/ memo) /\ result' \in {"err", "ok"}
      \/ /\ stage' = stage + 1 /\ at' = 0 /\ failed' = FALSE /\ result' = result
         /\ memo' = TRUE \/ memo' = memo
         /\ ~failed \/ ContinuesOnError
         /\ memo' # memo => failed
  BY DEF Finish, GoOn, End
<1>4. SoundLists' /\ (ByGit <=> ByGit') /\ (Lacking <=> Lacking')
  BY <1>1, <1>2, ListsStay, ByGitStays DEF Lacking, Nameless
<1>5. ListedJobs'
  <2>1. CASE UNCHANGED <<stage, at>>
    BY <1>1, <1>2, <2>1 DEF ListedJobs, Pipe, Now
  <2>2. CASE at' = 0
    BY <1>1, <2>2 DEF ListedJobs
  <2>. QED
    BY <1>3, <2>1, <2>2
<1>6. HeldUp => HeldUp'
  <2>1. CASE UNCHANGED <<stage, failed>>
    BY <1>1, <1>4, <2>1 DEF HeldUp, Pipe, Now
  <2>2. CASE ~failed \/ ContinuesOnError
    <3>1. ~(Pipe = "docker.Manifest" /\ failed)
      BY <2>2 DEF ContinuesOnError, ContinuablePublishers
    <3>. QED
      BY <1>1, <1>4, <3>1 DEF HeldUp
  <2>. QED
    BY <1>3, <2>1, <2>2
<1>7. stage' # 1
  BY <1>2, <1>3
<1>8. result # "err"
  BY <1>1 DEF Ended
<1>9. Causes'
  BY <1>1, <1>2, <1>3, <1>6, <1>7, <1>8 DEF Causes, Ended, KeepsOld
<1>. QED
  BY <1>4, <1>5, <1>9 DEF CausesInv

LEMMA SetUpCauses == ASSUME Sound, CausesInv, SetUp PROVE CausesInv'
<1>1. /\ SoundLists /\ Causes /\ Control /\ Setting /\ SoundConfig
  BY DEF Sound, YardInv, CausesInv, SetUp
<1>2. stage = 1 /\ todo = {} /\ at = 0 /\ ~Ended /\ cause = "none"
  BY <1>1, StageNames DEF Control, SetUp, Causes
<1>3. /\ UNCHANGED <<run, at, todo, failed, memo, faults, registry>>
      /\ \/ UNCHANGED <<cfg, stage>> /\ result' = "err" /\ cause' = "config"
         \/ cfg' = Defaults(cfg, world.koRepo) /\ stage' = 2 /\ UNCHANGED <<result, cause>>
  BY <1>2 DEF SetUp, place, outcome, stores
<1>4. SoundLists'
  <2>1. CASE cfg' = Defaults(cfg, world.koRepo)
    <3>1. cfg'.dockerManifests = cfg.dockerManifests /\ DOMAIN cfg' = DOMAIN cfg
      BY <1>1, <2>1 DEF Defaults, SoundLists, Kinds
    <3>. QED
      BY <1>1, <3>1 DEF SoundLists
  <2>. QED
    BY <1>1, <1>3, <2>1, ListsStay
<1>5. ListedJobs'
  BY <1>2, <1>3 DEF ListedJobs
<1>6. Causes'
  BY <1>1, <1>2, <1>3 DEF Causes, Ended
<1>. QED
  BY <1>4, <1>5, <1>6 DEF CausesInv

LEMMA AgainCauses == ASSUME Sound, CausesInv, Again PROVE CausesInv'
<1>1. /\ stage' = 1 /\ at' = 0 /\ todo' = {} /\ failed' = FALSE /\ memo' = FALSE
      /\ result' = "none" /\ cause' = "none" /\ faults' = 0 /\ UNCHANGED cfg
  BY DEF Again
<1>. QED
  BY <1>1, ListsStay DEF CausesInv, ListedJobs, Causes

LEMMA CrashCauses == ASSUME Sound, CausesInv, Crash PROVE CausesInv'
<1>1. /\ UNCHANGED <<cfg, ctx, run, stage, at, todo, failed, memo, registry>>
      /\ result' = "killed" /\ Because("fault") /\ faults > 0
  BY DEF Crash, Unlucky, fixed, place, stores
<1>2. SoundLists /\ ListedJobs /\ Causes
  BY DEF CausesInv
<1>3. SoundLists' /\ ListedJobs'
  BY <1>1, <1>2, ListsStay DEF ListedJobs, Pipe, Now
<1>4. ~(run > 1)
  BY <1>1, <1>2 DEF Causes
<1>5. cause' \in {"config", "state", "assets", "fault"} /\ (cause' = "assets" => KeepsOld')
  BY <1>1, <1>2 DEF Because, Causes, KeepsOld
<1>6. Causes'
  BY <1>1, <1>4, <1>5 DEF Causes, Ended
<1>. QED
  BY <1>3, <1>6 DEF CausesInv

(* A second run in which nothing fails gets through what the first has     *)
(* left behind, wherever it failed or was stopped: it is refused only      *)
(* assets that are not to be replaced, by a forge that does not take them  *)
(* twice, and what is named besides; where no manifest is among the images *)
(* of another.                                                             *)
THEOREM SecondRunsGetThrough == ASSUME ListsNoManifest PROVE Spec => []SecondRunGetsThrough
<1>1. Init => CausesInv
  BY InitCauses
<1>2. Sound /\ CausesInv /\ [Next]_vars => CausesInv'
  <2>. SUFFICES ASSUME Sound, CausesInv, [Next]_vars PROVE CausesInv'
    OBVIOUS
  <2>1. CASE UNCHANGED vars
    <3>1. /\ UNCHANGED <<cfg, ctx, run, stage, at, todo, failed, memo, result, cause, faults, registry>>
      BY <2>1 DEF vars, fixed, place, outcome, stores
    <3>2. SoundLists' /\ (ByGit <=> ByGit') /\ (Lacking <=> Lacking')
      BY <3>1, ListsStay, ByGitStays DEF CausesInv, Lacking, Nameless
    <3>. QED
      BY <3>1, <3>2 DEF CausesInv, Causes, ListedJobs, HeldUp, KeepsOld, Pipe, Now, Ended
  <2>. QED
    BY <2>1, StepCauses, BeginCauses, FinishCauses, SetUpCauses, AgainCauses, CrashCauses DEF Next
<1>3. CausesInv => SecondRunGetsThrough
  <2>. SUFFICES ASSUME CausesInv, run > 1, result = "err", cause # "config"
                PROVE  (cause = "assets" /\ KeepsOld) \/ cfg.mcp # <<>> \/ ByGit \/ Lacking
    BY DEF SecondRunGetsThrough, KeepsOld, ByGit, Lacking, Nameless
  <2>1. HeldUp \/ (cause = "assets" /\ KeepsOld)
    BY DEF CausesInv, Causes
  <2>. QED
    BY <2>1 DEF HeldUp
<1>. QED
  BY <1>1, <1>2, <1>3, AlwaysSound, PTL DEF Spec
-----------------------------------------------------------------------------
(* The apps of a run. A job makes one of an artifact that has none in this *)
(* run yet, and no other job is about it.                                  *)
Offered(c, a) ==
  ByTypes(a, {"UploadableArchive", "UploadableBinary"}) /\ ByIDs(a, c.ids) /\ a.goos = "darwin"
Apart(irus, artifacts) ==
  \A i, k \in DOMAIN irus : \A a, b \in artifacts :
    /\ irus[i].libraryItem = "" /\ irus[k].libraryItem = ""
    /\ Offered(irus[i], a) /\ Offered(irus[k], b) /\ a.path = b.path
    => i = k /\ a = b
AppsApart == \A s \in Scenarios : Apart(s.cfg.iru, s.built)

AppOf(a) == \E x \in apps : x.of = a.path /\ x.run = run
SoundIrus ==
  /\ "iru" \in DOMAIN cfg /\ Len(cfg.iru) \in Nat /\ DOMAIN cfg.iru = 1..Len(cfg.iru)
  /\ Apart(cfg.iru, built)
AppJob(j) ==
  /\ j.at \in DOMAIN cfg.iru /\ j.what \in built /\ Offered(cfg.iru[j.at], j.what)
  /\ cfg.iru[j.at].libraryItem = "" => ~AppOf(j.what)
AppJobs ==
  Pipe = "iru" =>
    /\ at \in {0, Len(cfg.iru)} /\ (todo # {} => at # 0)
    /\ \A j \in todo : j.phase # "refused" => AppJob(j)
    /\ \A j, k \in todo : j.at = k.at /\ j.what = k.what => j = k
SoundApps ==
  /\ run \in Nat /\ \A x \in apps : x.n = 0 /\ x.run \in Nat /\ x.run <= run
  /\ stage < 17 \/ (stage = 17 /\ at = 0) => \A x \in apps : x.run # run
AppsInv == SoundIrus /\ AppJobs /\ SoundApps

LEMMA IruPublisher == \A i \in 1..24 : PublishPipeline[i] = "iru" <=> i = 4
BY DEF PublishPipeline

LEMMA IruStage == ASSUME stage \in 1..39 PROVE (Pipe = "iru" <=> stage = 17) /\ (Pipe = "iru" => Publishes)
<1>1. ASSUME ~Publishes PROVE Pipe # "iru" /\ stage # 17
  <2>1. Pipe # "iru"
    BY <1>1, StageNames DEF Between, Prepared, Kinds
  <2>2. Stages[13 + 4][1] = "publish"
    BY StageList
  <2>. QED
    BY <1>1, <2>1, <2>2 DEF Publishes, Now
<1>2. CASE Publishes
  <2>1. stage \in 14..37
    BY <1>2, StageNames
  <2>2. PICK i \in 1..24 : stage = 13 + i
    <3>1. stage - 13 \in 1..24 /\ stage = 13 + (stage - 13)
      BY <2>1
    <3>. QED
      BY <3>1
  <2>3. Pipe = PublishPipeline[i]
    BY <2>2, StageList DEF Pipe, Now
  <2>. QED
    BY <1>2, <2>2, <2>3, IruPublisher
<1>. QED
  BY <1>1, <1>2

(* Only one step creates an app, and a job of this publisher goes on as    *)
(* one job, or is over.                                                    *)
Moves(j) ==
  \/ todo' = todo \/ todo' = todo \ {j}
  \/ j.phase = "start" /\ \E left, phase : todo' = (todo \ {j}) \cup {[j EXCEPT !.left = left, !.phase = phase]}

LEMMA AppFrame ==
  ASSUME NEW j \in todo, TapStep(j) \/ ImageStep(j) \/ UploadStep(j)
  PROVE  /\ UNCHANGED apps \/ CreateApp(j)
         /\ Pipe = "iru" => (UploadFile(j) \/ Refuse(j) \/ UpdateApp(j) \/ CreateApp(j))
<1>1. CASE TapStep(j)
  BY <1>1 DEF TapStep, Make, StartUnit, PushPackage, OpenClone, Checkout, Commit, Push, CreateFile, OpenPullRequest,
       stores, Tapping, Kinds
<1>2. CASE ImageStep(j)
  BY <1>2 DEF ImageStep, BuildImage, PushImage, PushManifest, BuildPush, KoBuild, CopyImage, WriteDigests, SignImages,
       PushSnap, Local
<1>3. CASE UploadStep(j)
  BY <1>3 DEF UploadStep, Deliver, Refuse, UploadFile, UpdateApp, Release, writeArtifacts, PublishServer,
       CloseMilestone, StartAnnouncing, Request, stores, PlaceOf
<1>. QED
  BY <1>1, <1>2, <1>3

LEMMA IruMoves ==
  ASSUME NEW j \in todo, Pipe = "iru", UploadFile(j) \/ Refuse(j) \/ UpdateApp(j) \/ CreateApp(j)
  PROVE  Moves(j)
<1>1. GoesOnAnyway
  BY DEF GoesOnAnyway, AllAtOnce
<1>2. \A why : Breaks(j, why) => todo' = todo \ {j}
  BY <1>1 DEF Breaks
<1>3. CASE UploadFile(j)
  BY <1>2, <1>3 DEF UploadFile, Proceeds, Unfortunate, Moves
<1>4. CASE Refuse(j)
  BY <1>2, <1>4 DEF Refuse, Refused, Moves
<1>5. CASE UpdateApp(j)
  BY <1>2, <1>5 DEF UpdateApp, Done, Unfortunate, Moves
<1>6. CASE CreateApp(j)
  BY <1>2, <1>6 DEF CreateApp, Done, Retries, place, Moves
<1>. QED
  BY <1>3, <1>4, <1>5, <1>6

(* What creates an app of an artifact ends the job, unless nothing was     *)
(* created.                                                                *)
LEMMA CreatesOne ==
  ASSUME NEW j \in todo, CreateApp(j)
  PROVE  UNCHANGED apps \/ (todo' = todo \ {j} /\ apps' = apps \cup {NewApp(j.what)})
<1>1. Pipe = "iru"
  BY DEF CreateApp
<1>2. GoesOnAnyway
  BY <1>1 DEF GoesOnAnyway, AllAtOnce
<1>3. \A why : Breaks(j, why) => todo' = todo \ {j}
  BY <1>2 DEF Breaks
<1>. QED
  BY <1>3 DEF CreateApp, Done, isCleanRejection

LEMMA CustomAppsOffered ==
  ASSUME SoundArts, NEW c, NEW a \in CustomApps(c)
  PROVE  a \in built /\ Offered(c, a)
<1>1. a \in arts /\ Offered(c, a)
  BY DEF CustomApps, Offered
<1>2. a.type \in Listable
  BY <1>1 DEF Offered, ByTypes, autoOr, Listable
<1>. QED
  BY <1>1, <1>2 DEF SoundArts

LEMMA IrusStay == ASSUME SoundIrus, UNCHANGED <<cfg, built>> PROVE SoundIrus'
BY DEF SoundIrus

LEMMA AppJobsStay == UNCHANGED <<cfg, built, run, apps>> => \A j : AppJob(j) <=> AppJob(j)'
BY DEF AppJob, AppOf

LEMMA InitApps == ASSUME AppsApart, Init PROVE AppsInv
<1>1. PICK s \in Scenarios : cfg = s.cfg /\ built = s.built
  BY DEF Init
<1>2. cfg \in Config!Project
  BY <1>1, DeliveryAssumption
<1>3. cfg.iru \in Seq(Config!Iru) /\ "iru" \in DOMAIN cfg
  BY <1>2 DEF Config!Project
<1>4. SoundIrus
  BY <1>1, <1>3 DEF SoundIrus, AppsApart
<1>5. Pipe # "iru"
  BY IruStage DEF Init
<1>. QED
  BY <1>4, <1>5 DEF Init, AppsInv, AppJobs, SoundApps

LEMMA StepApps == ASSUME Sound, AppsInv, Step PROVE AppsInv'
<1>1. PICK j \in todo : Turn(j) /\ (TapStep(j) \/ ImageStep(j) \/ UploadStep(j))
  BY DEF Step
<1>2. SoundIrus /\ AppJobs /\ SoundApps /\ stage \in 1..39 /\ SoundJobs
  BY DEF Sound, YardInv, Control, AppsInv
<1>3. Framed(j)
  BY <1>1, <1>2, TapFrame, ImageFrame, UploadFrame
<1>4. UNCHANGED <<cfg, built, run, stage, at>>
  BY <1>3 DEF Framed, Basis, Flow
<1>5. SoundIrus' /\ Pipe' = Pipe
  BY <1>2, <1>4, IrusStay DEF Pipe, Now
<1>6. CASE Pipe # "iru"
  <2>1. UNCHANGED apps
    BY <1>1, <1>6, AppFrame DEF CreateApp
  <2>. QED
    BY <1>2, <1>4, <1>5, <1>6, <2>1 DEF AppsInv, AppJobs, SoundApps
<1>7. CASE Pipe = "iru"
  <2>1. Moves(j) /\ stage = 17 /\ at # 0
    BY <1>1, <1>2, <1>7, AppFrame, IruMoves, IruStage DEF AppJobs
  <2>2. ASSUME NEW left, NEW phase
        PROVE  LET k == [j EXCEPT !.left = left, !.phase = phase] IN k.at = j.at /\ k.what = j.what
    BY <1>2 DEF SoundJobs, JobFields
  <2>3. ASSUME NEW k \in todo'
        PROVE  \E o \in todo : k.at = o.at /\ k.what = o.what /\ (k.phase # "refused" => o.phase # "refused")
    <3>1. CASE k \in todo
      BY <3>1
    <3>2. ASSUME j.phase = "start", NEW left, NEW phase, k = [j EXCEPT !.left = left, !.phase = phase]
          PROVE  k.at = j.at /\ k.what = j.what /\ j.phase # "refused"
      BY <2>2, <3>2
    <3>. QED
      BY <2>1, <2>3, <3>1, <3>2 DEF Moves
  <2>4. ASSUME NEW k \in todo', NEW l \in todo', k.at = l.at, k.what = l.what PROVE k = l
    <3>1. CASE todo' \subseteq todo
      BY <1>2, <1>7, <2>4, <3>1 DEF AppJobs
    <3>2. ASSUME NEW left, NEW phase, todo' = (todo \ {j}) \cup {[j EXCEPT !.left = left, !.phase = phase]}
          PROVE  k = l
      <4>. DEFINE n == [j EXCEPT !.left = left, !.phase = phase]
      <4>1. n.at = j.at /\ n.what = j.what
        BY <2>2
      <4>. HIDE DEF n
      <4>2. todo' = (todo \ {j}) \cup {n}
        BY <3>2 DEF n
      <4>. QED
        BY <1>2, <1>7, <2>4, <4>1, <4>2 DEF AppJobs
    <3>. QED
      BY <2>1, <3>1, <3>2 DEF Moves
  <2>5. CASE UNCHANGED apps
    <3>1. ASSUME NEW k \in todo', k.phase # "refused" PROVE AppJob(k)'
      <4>1. PICK o \in todo : k.at = o.at /\ k.what = o.what /\ o.phase # "refused"
        BY <2>3, <3>1
      <4>2. AppJob(k)
        BY <1>2, <1>7, <4>1 DEF AppJobs, AppJob
      <4>. QED
        BY <1>4, <2>5, <4>2, AppJobsStay
    <3>. QED
      BY <1>2, <1>4, <1>5, <2>1, <2>4, <2>5, <3>1 DEF AppsInv, AppJobs, SoundApps
  <2>6. CASE CreateApp(j) /\ todo' = todo \ {j} /\ apps' = apps \cup {NewApp(j.what)}
    <3>1. j.phase # "refused" /\ cfg.iru[j.at].libraryItem = ""
      BY <1>7, <2>6 DEF CreateApp, Configured, Field
    <3>2. AppJob(j) /\ ~AppOf(j.what)
      BY <1>2, <1>7, <3>1 DEF AppJobs, AppJob
    <3>3. NewApp(j.what) = [of |-> j.what.path, run |-> run, n |-> 0]
      <4>1. {x \in apps : x.of = j.what.path /\ x.run = run} = {}
        BY <3>2 DEF AppOf
      <4>. QED
        BY <4>1, FS_EmptySet DEF NewApp
    <3>4. ASSUME NEW k \in todo', k.phase # "refused" PROVE AppJob(k)'
      <4>1. k \in todo /\ k # j /\ AppJob(k)
        BY <1>2, <1>7, <2>6, <3>4 DEF AppJobs
      <4>2. ASSUME cfg.iru[k.at].libraryItem = "" PROVE ~AppOf(k.what)'
        <5>1. ~AppOf(k.what)
          BY <4>1, <4>2 DEF AppJob
        <5>2. k.what.path # j.what.path
          <6>. SUFFICES ASSUME k.what.path = j.what.path PROVE FALSE
            OBVIOUS
          <6>1. k.at = j.at /\ k.what = j.what
            BY <1>2, <3>1, <3>2, <4>1, <4>2 DEF AppJob, SoundIrus, Apart
          <6>. QED
            BY <1>2, <1>7, <4>1, <6>1 DEF AppJobs
        <5>. QED
          BY <1>4, <2>6, <3>3, <5>1, <5>2 DEF AppOf
      <4>. QED
        BY <1>4, <4>1, <4>2 DEF AppJob
    <3>5. SoundApps'
      BY <1>2, <1>4, <2>1, <2>6, <3>3 DEF SoundApps
    <3>. QED
      BY <1>4, <1>5, <2>1, <2>4, <3>4, <3>5 DEF AppsInv, AppJobs
  <2>. QED
    BY <1>1, <2>5, <2>6, AppFrame, CreatesOne
<1>. QED
  BY <1>6, <1>7

LEMMA BeginApps == ASSUME Sound, AppsInv, Begin PROVE AppsInv'
<1>1. /\ UNCHANGED <<cfg, built, run, stage, apps>> /\ todo = {} /\ at < Number
      /\ at' = IF AllAtOnce THEN Number ELSE at + 1
      /\ todo' = UNION {JobsOf(i) : i \in (at + 1)..at'}
  BY DEF Begin, fixed, stores
<1>2. SoundIrus /\ AppJobs /\ SoundApps /\ stage \in 1..39 /\ SoundArts
  BY DEF Sound, YardInv, Control, AppsInv
<1>3. SoundIrus' /\ Pipe' = Pipe
  BY <1>1, <1>2, IrusStay DEF Pipe, Now
<1>4. CASE Pipe # "iru"
  BY <1>1, <1>2, <1>3, <1>4, IruStage DEF AppsInv, AppJobs, SoundApps
<1>5. CASE Pipe = "iru"
  <2>1. stage = 17 /\ Publishes /\ at \in {0, Len(cfg.iru)} /\ Len(cfg.iru) \in Nat
    BY <1>2, <1>5, IruStage DEF AppJobs, SoundIrus
  <2>2. Number \in {0, Len(cfg.iru)} /\ AllAtOnce
    BY <1>5 DEF Number, FromArtifacts, Kinds, Configured, Field, AllAtOnce
  <2>3. at = 0 /\ at' = Len(cfg.iru) /\ at' # 0 /\ DOMAIN cfg.iru = 1..at'
    BY <1>1, <1>2, <2>1, <2>2 DEF SoundIrus
  <2>4. \A x \in apps : x.run # run
    BY <1>2, <2>1, <2>3 DEF SoundApps
  <2>5. ASSUME NEW k \in todo'
        PROVE  /\ k.at \in DOMAIN cfg.iru
               /\ \/ k = Job(k.at, Blank, "refused")
                  \/ \E a \in CustomApps(cfg.iru[k.at]) : k = Job(k.at, a, "start")
               /\ k = Job(k.at, k.what, k.phase)
               /\ k.phase = IF iruErrs(cfg.iru[k.at]) THEN "refused" ELSE "start"
    <3>1. PICK i \in (at + 1)..at' : k \in JobsOf(i)
      BY <1>1, <2>5
    <3>2. i \in DOMAIN cfg.iru /\ Configured = cfg.iru
      BY <1>5, <2>3, <3>1 DEF Configured, Field
    <3>3. k \in IF iruErrs(cfg.iru[i]) THEN {Job(i, Blank, "refused")} ELSE Each(i, CustomApps(cfg.iru[i]))
      BY <1>5, <2>1, <3>1, <3>2 DEF JobsOf, Kinds
    <3>4. \A what, phase : LET job == Job(i, what, phase) IN
            job.at = i /\ job.what = what /\ job.phase = phase
      BY DEF Job
    <3>5. \/ iruErrs(cfg.iru[i]) /\ k = Job(i, Blank, "refused")
          \/ ~iruErrs(cfg.iru[i]) /\ \E a \in CustomApps(cfg.iru[i]) : k = Job(i, a, "start")
      BY <3>3 DEF Each
    <3>. QED
      BY <3>2, <3>4, <3>5
  <2>6. ASSUME NEW k \in todo', k.phase # "refused" PROVE AppJob(k)'
    <3>1. k.at \in DOMAIN cfg.iru /\ k.what \in CustomApps(cfg.iru[k.at])
      <4>1. PICK a \in CustomApps(cfg.iru[k.at]) : k = Job(k.at, a, "start")
        BY <2>5, <2>6 DEF Job
      <4>2. k.what = a
        BY <4>1 DEF Job
      <4>. QED
        BY <2>5, <4>1, <4>2
    <3>2. k.what \in built /\ Offered(cfg.iru[k.at], k.what)
      BY <1>2, <3>1, CustomAppsOffered
    <3>3. ~AppOf(k.what)
      BY <2>4 DEF AppOf
    <3>4. AppJob(k)
      BY <3>1, <3>2, <3>3 DEF AppJob
    <3>. QED
      BY <1>1, <3>4, AppJobsStay
  <2>7. ASSUME NEW k \in todo', NEW l \in todo', k.at = l.at, k.what = l.what PROVE k = l
    BY <2>5, <2>7
  <2>8. AppJobs'
    BY <1>1, <2>3, <2>6, <2>7 DEF AppJobs
  <2>9. SoundApps'
    BY <1>1, <1>2, <2>1, <2>3 DEF SoundApps
  <2>. QED
    BY <1>3, <2>8, <2>9 DEF AppsInv
<1>. QED
  BY <1>4, <1>5

LEMMA FinishApps == ASSUME Sound, AppsInv, Finish PROVE AppsInv'
<1>1. /\ UNCHANGED <<cfg, built, run, apps>> /\ todo = {} /\ todo' = {}
      /\ UNCHANGED <<stage, at>> \/ (stage' = stage + 1 /\ at' = 0)
  BY DEF Finish, GoOn, End, fixed, stores
<1>2. SoundIrus /\ AppJobs /\ SoundApps /\ stage \in 1..39
  BY DEF Sound, YardInv, Control, AppsInv
<1>3. SoundIrus'
  BY <1>1, <1>2, IrusStay
<1>4. AppJobs'
  <2>1. CASE UNCHANGED <<stage, at>>
    BY <1>1, <1>2, <2>1 DEF AppJobs, Pipe, Now
  <2>2. CASE at' = 0
    BY <1>1, <2>2 DEF AppJobs
  <2>. QED
    BY <1>1, <2>1, <2>2
<1>5. SoundApps'
  BY <1>1, <1>2 DEF SoundApps
<1>. QED
  BY <1>3, <1>4, <1>5 DEF AppsInv

LEMMA SetUpApps == ASSUME Sound, AppsInv, SetUp PROVE AppsInv'
<1>1. /\ SoundIrus /\ SoundApps /\ Control /\ Setting
  BY DEF Sound, YardInv, AppsInv, SetUp
<1>2. stage = 1 /\ todo = {} /\ at = 0
  BY <1>1, StageNames DEF Control
<1>3. /\ UNCHANGED <<built, run, at, todo, apps>>
      /\ UNCHANGED <<cfg, stage>> \/ (cfg' = Defaults(cfg, world.koRepo) /\ stage' = 2)
  BY <1>2 DEF SetUp, place, stores
<1>4. SoundIrus'
  <2>1. CASE cfg' = Defaults(cfg, world.koRepo)
    <3>1. cfg'.iru = cfg.iru /\ DOMAIN cfg' = DOMAIN cfg
      BY <1>1, <2>1 DEF Defaults, SoundIrus, Kinds
    <3>. QED
      BY <1>1, <1>3, <3>1 DEF SoundIrus
  <2>. QED
    BY <1>1, <1>3, <2>1, IrusStay
<1>5. AppJobs'
  BY <1>2, <1>3 DEF AppJobs
<1>6. SoundApps'
  BY <1>1, <1>2, <1>3 DEF SoundApps
<1>. QED
  BY <1>4, <1>5, <1>6 DEF AppsInv

LEMMA AgainApps == ASSUME AppsInv, Again PROVE AppsInv'
<1>1. /\ stage' = 1 /\ at' = 0 /\ todo' = {} /\ run' = run + 1 /\ UNCHANGED <<cfg, built, apps>>
  BY DEF Again, stores
<1>2. SoundIrus' /\ AppJobs' /\ SoundApps
  BY <1>1, IrusStay DEF AppsInv, AppJobs
<1>3. SoundApps'
  BY <1>1, <1>2 DEF SoundApps
<1>. QED
  BY <1>2, <1>3 DEF AppsInv

(* A Custom App is created once for an artifact in a run, however often    *)
(* the requests to create it fail and are made again; where no two         *)
(* configurations create apps of one artifact.                             *)
THEOREM AppsAreCreatedOnce == ASSUME AppsApart PROVE Spec => []NoDuplicateApps
<1>1. Init => AppsInv
  BY InitApps
<1>2. Sound /\ AppsInv /\ [Next]_vars => AppsInv'
  <2>. SUFFICES ASSUME Sound, AppsInv, [Next]_vars PROVE AppsInv'
    OBVIOUS
  <2>1. CASE UNCHANGED vars \/ Crash
    <3>1. UNCHANGED <<cfg, built, run, stage, at, todo, apps>>
      BY <2>1 DEF Crash, vars, fixed, place, stores
    <3>2. Pipe' = Pipe /\ SoundIrus' /\ \A j : AppJob(j) <=> AppJob(j)'
      BY <3>1, IrusStay, AppJobsStay DEF AppsInv, Pipe, Now
    <3>. QED
      BY <3>1, <3>2 DEF AppsInv, AppJobs, SoundApps
  <2>. QED
    BY <2>1, StepApps, BeginApps, FinishApps, SetUpApps, AgainApps DEF Next
<1>3. AppsInv => NoDuplicateApps
  BY DEF AppsInv, SoundApps, NoDuplicateApps
<1>. QED
  BY <1>1, <1>2, <1>3, AlwaysSound, PTL DEF Spec
-----------------------------------------------------------------------------
(* Images. What is in the list of artifacts of a run was built or pushed   *)
(* by it: images are made by nobody else, and forgotten when a run begins. *)
ImageTypes == InDigests \cup {"PublishableDockerImage"}
AllImages == {a \in arts : a.type \in ImageTypes}

LEMMA ImagePublishers ==
  \A i \in 1..24 :
    /\ PublishPipeline[i] = "docker" <=> i = 5
    /\ PublishPipeline[i] = "docker.Manifest" <=> i = 6
    /\ PublishPipeline[i] # "dockerv2.Snapshot"
BY DEF PublishPipeline

LEMMA ImageStages ==
  ASSUME stage \in 1..39
  PROVE  /\ Publishes /\ Pipe = "docker" <=> stage = 18
         /\ Pipe = "docker.Manifest" <=> stage = 19
         /\ Pipe = "dockerv2.Snapshot" => ~Publishes
         /\ ~Publishes /\ Pipe \in {"docker", "dockerv2.Snapshot", "ko"} => stage < 14
<1>1. ASSUME ~Publishes PROVE Pipe # "docker.Manifest" /\ stage # 18 /\ stage # 19
  <2>1. Pipe # "docker.Manifest"
    BY <1>1, StageNames DEF Between, Prepared, Kinds
  <2>2. Stages[13 + 5][1] = "publish" /\ Stages[13 + 6][1] = "publish"
    BY StageList
  <2>. QED
    BY <1>1, <2>1, <2>2 DEF Publishes, Now
<1>2. ASSUME Publishes
      PROVE  /\ Pipe = "docker" <=> stage = 18
             /\ Pipe = "docker.Manifest" <=> stage = 19
             /\ Pipe # "dockerv2.Snapshot"
  <2>1. stage \in 14..37
    BY <1>2, StageNames
  <2>2. PICK i \in 1..24 : stage = 13 + i
    <3>1. stage - 13 \in 1..24 /\ stage = 13 + (stage - 13)
      BY <2>1
    <3>. QED
      BY <3>1
  <2>3. Pipe = PublishPipeline[i]
    BY <2>2, StageList DEF Pipe, Now
  <2>. QED
    BY <2>2, <2>3, ImagePublishers
<1>3. ASSUME ~Publishes, stage >= 14 PROVE Pipe \notin {"docker", "dockerv2.Snapshot", "ko"}
  <2>1. CASE stage \in 14..37
    <3>1. stage - 13 \in 1..24 /\ stage = 13 + (stage - 13)
      BY <2>1
    <3>2. Stages[13 + (stage - 13)][1] = "publish"
      BY <3>1, StageList
    <3>. QED
      BY <1>3, <3>1, <3>2 DEF Publishes, Now
  <2>2. CASE stage \in {38, 39}
    BY <2>2, StageList DEF Pipe, Now
  <2>. QED
    BY <1>3, <2>1, <2>2
<1>. QED
  BY <1>1, <1>2, <1>3

(* What is no image.                                                       *)
LEMMA NoImages ==
  /\ \A u : \A a \in ExtraFiles(u) : a.type \notin ImageTypes
  /\ \A snap : "type" \in DOMAIN snap => [snap EXCEPT !.type = "Snapcraft"].type \notin ImageTypes
  /\ writeMetadata.type \notin ImageTypes
<1>1. \A u : \A a \in ExtraFiles(u) : a.type = "UploadableFile"
  BY DEF ExtraFiles, UploadableFile, Blank
<1>2. \A snap : "type" \in DOMAIN snap => [snap EXCEPT !.type = "Snapcraft"].type = "Snapcraft"
  OBVIOUS
<1>3. writeMetadata.type = "Metadata"
  BY DEF writeMetadata, Blank
<1>. QED
  BY <1>1, <1>2, <1>3 DEF ImageTypes, InDigests

(* The images that are made.                                               *)
LEMMA NewImages ==
  /\ \A d, i : \A a \in PublishableImages(d, i) :
       DOMAIN a = DOMAIN Blank /\ a.type = "PublishableDockerImage" /\ a.name \in d.images /\ a.format = i
  /\ \A image, d, digest : DOMAIN image = DOMAIN Blank =>
       LET a == Pushed(image, d, digest) IN a.type = "DockerImage" /\ a.name = image.name /\ a.key = digest
  /\ \A m, images, digest :
       LET a == ManifestArtifact(m, images, digest) IN
       a.type = "DockerManifest" /\ a.name = m.name /\ a.key = digest /\ a.of = images
  /\ \A d, name, digest :
       LET a == V2Image(d, name, digest) IN a.type = "DockerImageV2" /\ a.name = name /\ a.key = digest
  /\ \A k, name, digest :
       LET a == KoArtifact(k, name, digest) IN
       a.type = "DockerManifest" /\ a.name = name /\ a.key = digest /\ a.of = {}
<1>1. ASSUME NEW d, NEW i, NEW a \in PublishableImages(d, i)
      PROVE  DOMAIN a = DOMAIN Blank /\ a.type = "PublishableDockerImage" /\ a.name \in d.images /\ a.format = i
  BY <1>1 DEF PublishableImages, Blank
<1>2. ASSUME NEW image, NEW d, NEW digest, DOMAIN image = DOMAIN Blank
      PROVE  LET a == Pushed(image, d, digest) IN a.type = "DockerImage" /\ a.name = image.name /\ a.key = digest
  BY <1>2 DEF Pushed, Blank
<1>3. \A m, images, digest :
       LET a == ManifestArtifact(m, images, digest) IN
       a.type = "DockerManifest" /\ a.name = m.name /\ a.key = digest /\ a.of = images
  BY DEF ManifestArtifact, Blank
<1>4. \A d, name, digest :
       LET a == V2Image(d, name, digest) IN a.type = "DockerImageV2" /\ a.name = name /\ a.key = digest
  BY DEF V2Image, Blank
<1>5. \A k, name, digest :
       LET a == KoArtifact(k, name, digest) IN
       a.type = "DockerManifest" /\ a.name = name /\ a.key = digest /\ a.of = {}
  BY DEF KoArtifact, Blank
<1>. QED
  BY <1>1, <1>2, <1>3, <1>4, <1>5

(* Whoever makes no image leaves the list of images and the registry.      *)
Makes(j) ==
  \/ BuildImage(j) \/ PushImage(j) \/ PushManifest(j) \/ BuildPush(j) \/ KoBuild(j)
  \/ \E name \in j.left : CopyImage(j, name)

LEMMA OthersMakeNone ==
  ASSUME Control, SoundPlace, NEW j \in todo, TapStep(j) \/ ImageStep(j) \/ UploadStep(j), ~Makes(j)
  PROVE  AllImages' = AllImages /\ UNCHANGED registry
<1>1. TapStep(j) => UNCHANGED <<arts, registry>>
  BY DEF TapStep, Make, StartUnit, PushPackage, OpenClone, Checkout, Commit, Push, CreateFile, OpenPullRequest, stores
<1>2. CASE PushSnap(j)
  <2>. DEFINE snap == j.what
              new == [snap EXCEPT !.type = "Snapcraft"]
  <2>1. Pipe = "snapcraft" /\ (UNCHANGED arts \/ arts' = (arts \ {snap}) \cup {new}) /\ UNCHANGED registry
    BY <1>2 DEF PushSnap
  <2>2. Publishes
    BY <2>1, StageNames DEF Control, Between, Prepared, Kinds
  <2>3. "type" \in DOMAIN snap /\ snap.type = "PublishableSnapcraft"
    BY <2>1, <2>2 DEF SoundPlace
  <2>4. new.type \notin ImageTypes /\ snap.type \notin ImageTypes
    BY <2>3, NoImages DEF ImageTypes, InDigests
  <2>. HIDE DEF new, snap
  <2>. QED
    BY <2>1, <2>4 DEF AllImages
<1>3. CASE Release(j)
  <2>1. arts' \in {arts, arts \cup ExtraFiles(cfg.release)} /\ UNCHANGED registry
    BY <1>3 DEF Release, Elsewhere
  <2>. QED
    BY <2>1, NoImages DEF AllImages
<1>4. UploadStep(j) => UNCHANGED registry /\ (Release(j) \/ UNCHANGED arts)
  BY DEF UploadStep, Deliver, Refuse, UploadFile, CreateApp, UpdateApp, Release, writeArtifacts,
         PublishServer, CloseMilestone, StartAnnouncing, Request, Elsewhere, stores
<1>5. WriteDigests(j) \/ SignImages(j) => UNCHANGED <<arts, registry>>
  BY DEF WriteDigests, SignImages
<1>6. UNCHANGED <<arts, registry>> => AllImages' = AllImages /\ UNCHANGED registry
  BY DEF AllImages
<1>. QED
  BY <1>1, <1>2, <1>3, <1>4, <1>5, <1>6 DEF ImageStep, Makes

New(j, a) ==
  \/ BuildImage(j) /\ a \in PublishableImages(Configured[j.at], j.at)
  \/ PushImage(j) /\ a = Pushed(j.what, Configured[j.what.format], DigestOf(j.what.format))
  \/ PushManifest(j) /\ LET m == Configured[j.at] IN a = ManifestArtifact(m, Resolved(manifestImages(m)), DigestOf(j.at))
  \/ /\ BuildPush(j)
     /\ LET d == Configured[j.at] IN \E n \in makeImageList(d.images, d.tags) : a = V2Image(d, n, DigestOf(j.at))
  \/ KoBuild(j) /\ LET k == Configured[j.at] IN a = KoArtifact(k, KoName(k, k.repositories[1]), DigestOf(j.at))
  \/ \E name \in j.left : CopyImage(j, name) /\ a = KoArtifact(Configured[j.at], name, DigestOf(j.at))

LEMMA MakersAdd ==
  ASSUME NEW j \in todo, Makes(j)
  PROVE  AllImages \subseteq AllImages' /\ \A a \in AllImages' \ AllImages : New(j, a)
<1>1. arts \subseteq arts' /\ \A a \in arts' \ arts : New(j, a)
  BY DEF Makes, New, BuildImage, PushImage, PushManifest, BuildPush, KoBuild, CopyImage
<1>. QED
  BY <1>1 DEF AllImages
-----------------------------------------------------------------------------
(* A manifest joins what this run has pushed: the images are all pushed    *)
(* before the manifests, and the run ends when one of them is not.         *)
Held(a) == SkipsUpload(cfg.dockers[a.format], ctx.prerelease)
Has(name) == \E b \in AllImages : b.type = "DockerImage" /\ b.name = name
ToPush == {a \in AllImages : a.type = "PublishableDockerImage"}
WithoutDocker == "docker" \in ctx.skips \/ "publish" \in ctx.skips
JoinsThisRun(m) ==
  \A x \in m.of : (\E a \in ToPush : a.name = x[1] /\ ~Held(a)) => x[2] # NoDigest /\ x[2][3] = run

JoinInv ==
  /\ stage = 1 => AllImages = {}
  /\ \A a \in ToPush : DOMAIN a = DOMAIN Blank
  /\ stage = 18 => \A j \in todo : DOMAIN j.what = DOMAIN Blank
  /\ \A a \in AllImages : a.type = "DockerImage" => \E i : a.key = <<"docker", i, run>>
  /\ stage = 18 /\ at # 0 /\ ~failed => \A a \in ToPush : Held(a) \/ Has(a.name) \/ \E j \in todo : j.what = a
  /\ stage > 18 /\ ~WithoutDocker => \A a \in ToPush : Held(a) \/ Has(a.name)
  /\ \A m \in AllImages : m.type = "DockerManifest" => JoinsThisRun(m) /\ (stage < 19 => m.of = {})

LEMMA JoinsAll == JoinInv => ManifestJoinsThisRun
BY DEF JoinInv, ManifestJoinsThisRun, JoinsThisRun, OfType, ToPush, Held, AllImages, ImageTypes, InDigests

LEMMA InitJoins == Init => JoinInv
<1>. SUFFICES ASSUME Init PROVE JoinInv
  OBVIOUS
<1>1. PICK s \in Scenarios : built = s.built
  BY DEF Init
<1>2. \A a \in built : a.type \notin ImageTypes
  BY <1>1, PublishingAssumption DEF ImageTypes
<1>3. AllImages = {}
  BY <1>2 DEF Init, AllImages
<1>. QED
  BY <1>3 DEF Init, JoinInv, ToPush

(* The publisher of images does nothing but push them.                     *)
LEMMA OnlyPushes ==
  ASSUME stage = 18, NEW j \in todo, TapStep(j) \/ ImageStep(j) \/ UploadStep(j)
  PROVE  PushImage(j)
<1>1. Publishes /\ Pipe = "docker"
  BY ImageStages
<1>2. ~TapStep(j)
  BY <1>1 DEF TapStep, Make, StartUnit, PushPackage, OpenClone, Checkout, Commit, Push, CreateFile, OpenPullRequest,
       Tapping, Kinds
<1>3. ~UploadStep(j)
  BY <1>1 DEF UploadStep, Deliver, Refuse, UploadFile, CreateApp, UpdateApp, Release, writeArtifacts, PublishServer,
       CloseMilestone, StartAnnouncing, Request, PlaceOf
<1>. QED
  BY <1>1, <1>2, <1>3 DEF ImageStep, BuildImage, PushManifest, BuildPush, KoBuild, CopyImage, WriteDigests, SignImages,
       PushSnap

(* What the list of images tells stays true when none is added that would  *)
(* have to be pushed, nor a manifest of other images.                      *)
LEMMA JoinsKept ==
  ASSUME UNCHANGED <<cfg, ctx, run>>, NEW m, JoinsThisRun(m), ToPush' \subseteq ToPush
  PROVE  JoinsThisRun(m)'
BY DEF JoinsThisRun, Held

LEMMA StepJoins == ASSUME Sound, JoinInv, Step PROVE JoinInv'
<1>1. PICK j \in todo : TapStep(j) \/ ImageStep(j) \/ UploadStep(j)
  BY DEF Step
<1>2. Control /\ stage \in 1..39 /\ stage # 1 /\ SoundJobs /\ SoundPlace /\ ~Skipped
  BY <1>1 DEF Sound, YardInv, Control
<1>3. Framed(j)
  BY <1>1, <1>2, TapFrame, ImageFrame, UploadFrame
<1>4. UNCHANGED <<cfg, ctx, run, stage, at>> /\ Flow(j)
  BY <1>3 DEF Framed, Basis, Flow
<1>5. AllImages \subseteq AllImages' /\ \A a \in AllImages' \ AllImages : Makes(j) /\ New(j, a)
  BY <1>1, <1>2, OthersMakeNone, MakersAdd
<1>6. \A name : Has(name) => Has(name)'
  BY <1>5 DEF Has
<1>7. \A a : Held(a) <=> Held(a)'
  BY <1>4 DEF Held
<1>8. WithoutDocker' <=> WithoutDocker
  BY <1>4 DEF WithoutDocker
<1>9. ASSUME stage = 18, NEW k \in todo' PROVE DOMAIN k.what = DOMAIN Blank
  <2>1. ASSUME NEW left, NEW phase, k = [j EXCEPT !.left = left, !.phase = phase] PROVE k.what = j.what
    BY <1>2, <2>1 DEF SoundJobs, JobFields
  <2>2. k \in todo \/ \E left, phase : k = [j EXCEPT !.left = left, !.phase = phase]
    BY <1>4, <1>9 DEF Flow
  <2>3. \E o \in todo : k.what = o.what
    BY <2>1, <2>2
  <2>. QED
    BY <1>9, <2>3 DEF JoinInv
<1>10. CASE BuildImage(j)
  <2>1. stage < 14
    BY <1>2, <1>10, ImageStages DEF BuildImage
  <2>2. \A a \in AllImages' \ AllImages : a.type = "PublishableDockerImage" /\ DOMAIN a = DOMAIN Blank
    <3>1. ASSUME NEW a \in AllImages' \ AllImages PROVE a \in PublishableImages(Configured[j.at], j.at)
      BY <1>5, <1>10 DEF New, BuildImage, PushImage, PushManifest, BuildPush, KoBuild, CopyImage
    <3>. QED
      BY <3>1, NewImages
  <2>3. \A m \in AllImages' : m.type = "DockerManifest" => m \in AllImages /\ m.of = {}
    BY <1>2, <2>1, <2>2 DEF JoinInv
  <2>. QED
    BY <1>2, <1>4, <2>1, <2>2, <2>3 DEF JoinInv, JoinsThisRun, ToPush
<1>11. CASE ~BuildImage(j)
  <2>1. ToPush' = ToPush
    <3>1. \A a \in AllImages' \ AllImages : a.type # "PublishableDockerImage"
      <4>1. ASSUME NEW a, PushImage(j) PROVE DOMAIN j.what = DOMAIN Blank
        BY <1>2, <4>1, ImageStages DEF PushImage, JoinInv
      <4>. QED
        BY <1>5, <1>11, <4>1, NewImages DEF New
    <3>. QED
      BY <1>5, <3>1 DEF ToPush
  <2>2. ASSUME NEW a \in AllImages', a.type = "DockerImage" PROVE \E i : a.key = <<"docker", i, run>>
    <3>1. CASE a \in AllImages
      BY <2>2, <3>1 DEF JoinInv
    <3>2. CASE a \notin AllImages
      <4>1. PushImage(j) /\ a = Pushed(j.what, Configured[j.what.format], DigestOf(j.what.format))
        BY <1>5, <1>11, <2>2, <3>2, NewImages DEF New
      <4>2. DOMAIN j.what = DOMAIN Blank
        BY <1>2, <4>1, ImageStages DEF PushImage, JoinInv
      <4>3. a.key = DigestOf(j.what.format) /\ Pipe = "docker"
        <5>1. Pipe = "docker"
          BY <4>1 DEF PushImage
        <5>2. a.key = DigestOf(j.what.format)
          BY <4>1, <4>2, NewImages
        <5>. QED
          BY <5>1, <5>2
      <4>. QED
        BY <4>3 DEF DigestOf
    <3>. QED
      BY <3>1, <3>2
  <2>3. ASSUME stage = 18, at # 0, ~failed', NEW a \in ToPush
        PROVE  Held(a) \/ Has(a.name)' \/ \E k \in todo' : k.what = a
    <3>1. PushImage(j)
      BY <1>1, <2>3, OnlyPushes
    <3>2. Done(j)
      BY <2>3, <3>1 DEF PushImage, Unfortunate, Breaks
    <3>3. todo' = todo \ {j} /\ ~failed
      BY <2>3, <3>2 DEF Done
    <3>4. ASSUME j.what = a PROVE Held(a) \/ Has(a.name)'
      <4>1. Configured = cfg.dockers
        BY <3>1 DEF PushImage, Configured, Field
      <4>2. CASE ~Held(a)
        <5>. DEFINE b == Pushed(a, cfg.dockers[a.format], DigestOf(a.format))
        <5>1. ~Unfortunate(j, "docker push")
          BY <2>3 DEF Unfortunate, Breaks
        <5>2. arts' = arts \cup {b}
          BY <3>1, <3>4, <4>1, <4>2, <5>1 DEF PushImage, Held
        <5>3. b.type = "DockerImage" /\ b.name = a.name
          BY NewImages DEF JoinInv
        <5>4. b \in AllImages'
          BY <5>2, <5>3 DEF AllImages, ImageTypes, InDigests
        <5>. QED
          BY <5>3, <5>4 DEF Has
      <4>. QED
        BY <4>2
    <3>. QED
      BY <1>6, <2>3, <3>3, <3>4 DEF JoinInv
  <2>4. ASSUME NEW m \in AllImages', m.type = "DockerManifest" PROVE JoinsThisRun(m)' /\ (stage < 19 => m.of = {})
    <3>1. CASE m \in AllImages
      BY <1>4, <2>1, <2>4, <3>1, JoinsKept DEF JoinInv
    <3>2. CASE m \notin AllImages /\ PushManifest(j)
      <4>. DEFINE images == {a \in arts : a.type = "DockerImage"}
      <4>1. stage = 19 /\ Pipe = "docker.Manifest"
        BY <1>2, <3>2, ImageStages DEF PushManifest
      <4>2. ~WithoutDocker /\ Publishes
        BY <1>2, <4>1, StageNames DEF Skipped, Unskippable, SkipKeyOf, WithoutDocker, Between, Prepared, Kinds
      <4>3. PICK c : m = ManifestArtifact(c, Resolved(manifestImages(c)), DigestOf(j.at))
        BY <1>5, <3>2 DEF New, BuildImage, PushImage, PushManifest, BuildPush, KoBuild, CopyImage
      <4>4. m.of = Resolved(manifestImages(c))
        BY <4>3, NewImages
      <4>5. ASSUME NEW x \in m.of, NEW a \in ToPush, a.name = x[1], ~Held(a)
            PROVE  x[2] # NoDigest /\ x[2][3] = run
        <5>1. PICK y \in manifestImages(c) :
                x = <<y[1], IF y[2] # NoDigest THEN y[2] ELSE (CHOOSE z \in registry : z[1] = y[1])[2]>>
          BY <4>4, <4>5 DEF Resolved
        <5>2. PICK img \in c.images : y = withDigest(img, images)
          BY <5>1 DEF manifestImages
        <5>. DEFINE known == {b \in images : b.name = img}
        <5>3. y[1] = img /\ y[2] = IF known = {} THEN NoDigest ELSE (CHOOSE b \in known : TRUE).key
          BY <5>2 DEF withDigest
        <5>4. x[1] = img
          BY <5>1, <5>3
        <5>5. known # {}
          <6>1. Has(a.name)
            BY <4>1, <4>2, <4>5 DEF JoinInv
          <6>. QED
            BY <4>5, <5>4, <6>1 DEF Has, AllImages
        <5>6. PICK b \in known : y[2] = b.key
          BY <5>3, <5>5
        <5>7. PICK i : b.key = <<"docker", i, run>>
          <6>1. b \in AllImages
            BY DEF AllImages, ImageTypes, InDigests
          <6>. QED
            BY <6>1 DEF JoinInv
        <5>8. y[2] # NoDigest /\ y[2][3] = run
          BY <5>6, <5>7 DEF NoDigest
        <5>. QED
          BY <5>1, <5>8
      <4>6. JoinsThisRun(m)
        BY <4>5 DEF JoinsThisRun
      <4>. QED
        BY <1>4, <2>1, <4>1, <4>6, JoinsKept
    <3>3. CASE m \notin AllImages /\ ~PushManifest(j)
      <4>1. ASSUME PushImage(j) PROVE DOMAIN j.what = DOMAIN Blank
        BY <1>2, <4>1, ImageStages DEF PushImage, JoinInv
      <4>2. m.of = {}
        BY <1>5, <1>11, <2>4, <3>3, <4>1, NewImages DEF New
      <4>. QED
        BY <4>2 DEF JoinsThisRun
    <3>. QED
      BY <3>1, <3>2, <3>3
  <2>5. ASSUME stage > 18, ~WithoutDocker, NEW a \in ToPush PROVE Held(a) \/ Has(a.name)'
    BY <1>6, <2>5 DEF JoinInv
  <2>. QED
    BY <1>2, <1>4, <1>7, <1>8, <1>9, <2>1, <2>2, <2>3, <2>4, <2>5 DEF JoinInv
<1>. QED
  BY <1>10, <1>11

LEMMA BeginJoins == ASSUME Sound, JoinInv, Begin PROVE JoinInv'
<1>1. /\ UNCHANGED <<cfg, ctx, run, stage, arts, failed>> /\ ~Setting /\ todo = {} /\ at < Number /\ ~failed
      /\ at' = IF AllAtOnce THEN Number ELSE at + 1
      /\ todo' = UNION {JobsOf(i) : i \in (at + 1)..at'}
  BY DEF Begin, fixed
<1>2. stage \in 1..39 /\ SoundPlace
  BY DEF Sound, YardInv, Control
<1>3. AllImages' = AllImages /\ ToPush' = ToPush /\ (WithoutDocker' <=> WithoutDocker)
  BY <1>1 DEF AllImages, ToPush, WithoutDocker
<1>4. \A name : Has(name) <=> Has(name)'
  BY <1>3 DEF Has
<1>5. \A a : Held(a) <=> Held(a)'
  BY <1>1 DEF Held
<1>6. \A m : JoinsThisRun(m) => JoinsThisRun(m)'
  BY <1>1, <1>3, JoinsKept
<1>7. CASE stage = 18
  <2>1. Publishes /\ Pipe = "docker"
    BY <1>2, <1>7, ImageStages
  <2>2. Number \in {0, 1} /\ ~AllAtOnce /\ at \in Nat
    BY <1>2, <2>1 DEF Number, FromArtifacts, AllAtOnce, SoundPlace
  <2>3. at = 0 /\ at' = 1
    BY <1>1, <2>2
  <2>4. JobsOf(1) = Each(1, OfType("PublishableDockerImage"))
    BY <2>1 DEF JobsOf, Kinds
  <2>5. todo' = JobsOf(1)
    BY <1>1, <2>3
  <2>6. ASSUME NEW k \in todo' PROVE DOMAIN k.what = DOMAIN Blank
    <3>1. k.what \in OfType("PublishableDockerImage")
      BY <2>1, <2>5, <2>6, NewJobs
    <3>2. k.what \in ToPush
      BY <3>1 DEF OfType, ToPush, AllImages, ImageTypes
    <3>. QED
      BY <3>2 DEF JoinInv
  <2>7. ASSUME NEW a \in ToPush PROVE \E k \in todo' : k.what = a
    <3>1. a \in OfType("PublishableDockerImage")
      BY DEF OfType, ToPush, AllImages
    <3>2. Job(1, a, "start") \in todo' /\ Job(1, a, "start").what = a
      BY <2>4, <2>5, <3>1 DEF Each, Job
    <3>. QED
      BY <3>2
  <2>. QED
    BY <1>1, <1>3, <1>4, <1>5, <1>6, <1>7, <2>6, <2>7 DEF JoinInv
<1>8. CASE stage # 18
  BY <1>1, <1>3, <1>4, <1>5, <1>6, <1>8 DEF JoinInv
<1>. QED
  BY <1>7, <1>8

LEMMA FinishJoins == ASSUME Sound, JoinInv, Finish PROVE JoinInv'
<1>1. /\ UNCHANGED <<cfg, ctx, run, arts>> /\ ~Setting /\ todo = {} /\ todo' = {} /\ (failed \/ at = Number)
      /\ \/ UNCHANGED <<stage, at, failed>>
         \/ stage' = stage + 1 /\ at' = 0 /\ (~failed \/ ContinuesOnError)
  BY DEF Finish, GoOn, End, fixed
<1>2. stage \in 1..39
  BY DEF Sound, YardInv, Control
<1>3. AllImages' = AllImages /\ ToPush' = ToPush /\ (WithoutDocker' <=> WithoutDocker)
  BY <1>1 DEF AllImages, ToPush, WithoutDocker
<1>4. \A name : Has(name) <=> Has(name)'
  BY <1>3 DEF Has
<1>5. \A a : Held(a) <=> Held(a)'
  BY <1>1 DEF Held
<1>6. \A m : JoinsThisRun(m) => JoinsThisRun(m)'
  BY <1>1, <1>3, JoinsKept
<1>7. stage' # 1
  <2>1. stage # 1
    BY <1>1, <1>2, StageNames
  <2>. QED
    BY <1>1, <1>2, <2>1
<1>8. ASSUME stage = 18, ~failed \/ ContinuesOnError, ~WithoutDocker, NEW a \in ToPush
      PROVE  Held(a) \/ Has(a.name)
  <2>1. Publishes /\ Pipe = "docker"
    BY <1>2, <1>8, ImageStages
  <2>2. ~failed /\ at = Number
    BY <1>1, <1>8, <2>1 DEF ContinuesOnError, ContinuablePublishers
  <2>3. ~Skipped
    BY <1>8, <2>1 DEF Skipped, SkipKeyOf, WithoutDocker
  <2>4. at = 1
    BY <2>1, <2>2, <2>3 DEF Number, FromArtifacts
  <2>. QED
    BY <1>1, <1>8, <2>2, <2>4 DEF JoinInv
<1>9. ASSUME stage' > 18, ~WithoutDocker, NEW a \in ToPush PROVE Held(a) \/ Has(a.name)
  <2>1. CASE stage > 18
    BY <1>9, <2>1 DEF JoinInv
  <2>2. CASE ~(stage > 18)
    <3>1. stage = 18 /\ (~failed \/ ContinuesOnError)
      BY <1>1, <1>2, <1>9, <2>2
    <3>. QED
      BY <1>8, <1>9, <3>1
  <2>. QED
    BY <2>1, <2>2
<1>10. stage' = 18 /\ at' # 0 => stage = 18 /\ at' = at /\ failed' = failed
  BY <1>1
<1>11. stage' < 19 => stage < 19
  BY <1>1, <1>2
<1>. QED
  BY <1>1, <1>3, <1>4, <1>5, <1>6, <1>7, <1>9, <1>10, <1>11 DEF JoinInv

LEMMA SetUpJoins == ASSUME Sound, JoinInv, SetUp PROVE JoinInv'
<1>1. stage = 1 /\ todo = {} /\ Setting
  BY StageNames DEF Sound, YardInv, Control, SetUp
<1>2. arts' = arts \cup {writeMetadata} /\ stage' \in {1, 2} /\ todo' = {}
  BY <1>1 DEF SetUp, place
<1>3. AllImages = {}
  BY <1>1 DEF JoinInv
<1>4. AllImages' = {}
  BY <1>2, <1>3, NoImages DEF AllImages
<1>. QED
  BY <1>2, <1>4 DEF JoinInv, ToPush

LEMMA AgainJoins == ASSUME Sound, Again, \A a \in built : a.type \notin ImageTypes PROVE JoinInv'
<1>1. arts' = built /\ stage' = 1
  BY DEF Again
<1>2. AllImages' = {}
  BY <1>1 DEF AllImages
<1>. QED
  BY <1>1, <1>2 DEF JoinInv, ToPush

BuiltNoImages == \A a \in built : a.type \notin ImageTypes

LEMMA AlwaysJoins == Spec => [](JoinInv /\ BuiltNoImages)
<1>1. Init => JoinInv /\ BuiltNoImages
  <2>1. Init => BuiltNoImages
    BY PublishingAssumption DEF Init, BuiltNoImages, ImageTypes
  <2>. QED
    BY <2>1, InitJoins
<1>2. Sound /\ JoinInv /\ BuiltNoImages /\ [Next]_vars => JoinInv' /\ BuiltNoImages'
  <2>. SUFFICES ASSUME Sound, JoinInv, BuiltNoImages, [Next]_vars PROVE JoinInv' /\ BuiltNoImages'
    OBVIOUS
  <2>1. CASE UNCHANGED vars \/ Crash
    <3>1. UNCHANGED <<cfg, ctx, built, run, stage, at, todo, failed, arts>>
      BY <2>1 DEF Crash, vars, fixed, place
    <3>2. AllImages' = AllImages /\ ToPush' = ToPush /\ (WithoutDocker' <=> WithoutDocker)
      BY <3>1 DEF AllImages, ToPush, WithoutDocker
    <3>3. (\A a : Held(a) <=> Held(a)') /\ (\A name : Has(name) <=> Has(name)')
      BY <3>1, <3>2 DEF Held, Has
    <3>4. \A m : JoinsThisRun(m) => JoinsThisRun(m)'
      BY <3>1, <3>2, JoinsKept
    <3>. QED
      BY <3>1, <3>2, <3>3, <3>4 DEF JoinInv, BuiltNoImages
  <2>2. CASE Step
    <3>1. built' = built
      <4>1. PICK j \in todo : TapStep(j) \/ ImageStep(j) \/ UploadStep(j)
        BY <2>2 DEF Step
      <4>2. stage \in 1..39
        BY DEF Sound, YardInv, Control
      <4>. QED
        BY <4>1, <4>2, TapFrame, ImageFrame, UploadFrame DEF Framed, Basis
    <3>. QED
      BY <2>2, <3>1, StepJoins DEF BuiltNoImages
  <2>3. CASE Begin
    BY <2>3, BeginJoins DEF BuiltNoImages, Begin, fixed
  <2>4. CASE Finish
    BY <2>4, FinishJoins DEF BuiltNoImages, Finish, fixed
  <2>5. CASE SetUp
    BY <2>5, SetUpJoins DEF BuiltNoImages, SetUp
  <2>6. CASE Again
    BY <2>6, AgainJoins DEF BuiltNoImages, Again
  <2>. QED
    BY <2>1, <2>2, <2>3, <2>4, <2>5, <2>6 DEF Next
<1>. QED
  BY <1>1, <1>2, AlwaysSound, PTL DEF Spec

(* A manifest joins the images this run has pushed, in whatever order they *)
(* fail, and whatever an earlier run has left under their names.           *)
THEOREM ManifestsJoinThisRun == Spec => []ManifestJoinsThisRun
BY AlwaysJoins, JoinsAll, PTL
-----------------------------------------------------------------------------
(* The context of a dockerv2 build. What goes into it is built before:     *)
(* files of one target have names of their own, and a file for any target  *)
(* has a name like no other; two levels of a processor are of amd64 and    *)
(* then given, of arm, or of arm64.                                        *)
NamesInContext(list) ==
  \A a, b \in list :
    /\ a.type \in Contained /\ b.type \in Contained /\ a.name = b.name
    /\ a.goos = "all" \/ (a.goos = b.goos /\ a.goarch = b.goarch /\ a.variant = b.variant)
    => a.path = b.path
LevelsInContext(list) ==
  \A a, b \in list : a.type \in Contained /\ b.type \in Contained /\ a.goos = b.goos /\ a.goarch = b.goarch =>
    \/ a.variant = b.variant \/ a.goarch = "arm64"
    \/ /\ a.goarch = "amd64" /\ a.variant["goamd64"] # b.variant["goamd64"]
       /\ a.variant["goamd64"] # NoVariant /\ b.variant["goamd64"] # NoVariant
    \/ a.goarch = "arm" /\ a.variant["goarm"] # b.variant["goarm"]
ContextFilesApart == \A s \in Scenarios : NamesInContext(s.built) /\ LevelsInContext(s.built)

(* Pipes add nothing that is copied into a context.                        *)
ContextInv ==
  /\ \A a \in arts : a.type \in Contained => a \in built
  /\ \E s \in Scenarios : built = s.built

(* Two files of one place and one name are one, but for arm64.             *)
LEMMA PlacesApart ==
  ASSUME NEW list, NamesInContext(list), LevelsInContext(list), NEW a \in list, NEW b \in list,
         a.type \in Contained, b.type \in Contained, a.name = b.name, toPlatform(a) = toPlatform(b)
  PROVE  a.path = b.path \/ a.goarch = "arm64"
<1>1. a.goos = b.goos /\ a.goarch = b.goarch
  BY DEF toPlatform
<1>. DEFINE LevelOf(x) == CASE x.goarch = "amd64" /\ x.variant["goamd64"] # "v1" -> x.variant["goamd64"]
                            [] x.goarch = "arm" -> x.variant["goarm"]
                            [] OTHER -> NoVariant
<1>2. LevelOf(a) = LevelOf(b)
  BY DEF toPlatform
<1>3. CASE a.goarch = "amd64" /\ a.variant["goamd64"] # b.variant["goamd64"]
           /\ a.variant["goamd64"] # NoVariant /\ b.variant["goamd64"] # NoVariant
  <2>1. b.goarch = "amd64" /\ a.goarch # "arm" /\ b.goarch # "arm"
    BY <1>1, <1>3
  <2>2. LevelOf(a) = IF a.variant["goamd64"] # "v1" THEN a.variant["goamd64"] ELSE NoVariant
    BY <1>3
  <2>3. LevelOf(b) = IF b.variant["goamd64"] # "v1" THEN b.variant["goamd64"] ELSE NoVariant
    BY <2>1
  <2>. HIDE DEF LevelOf
  <2>. QED
    BY <1>2, <1>3, <2>2, <2>3
<1>4. CASE a.goarch = "arm" /\ a.variant["goarm"] # b.variant["goarm"]
  <2>1. LevelOf(a) = a.variant["goarm"] /\ LevelOf(b) = b.variant["goarm"]
    BY <1>1, <1>4
  <2>. QED
    BY <1>2, <1>4, <2>1
<1>5. CASE a.variant = b.variant
  BY <1>1, <1>5 DEF NamesInContext
<1>. QED
  BY <1>1, <1>3, <1>4, <1>5 DEF LevelsInContext

LEMMA ContextOf ==
  ASSUME NEW d, NEW e \in makeContext(d)
  PROVE  \E a \in arts : /\ a.type \in Contained /\ e[2] = a.name /\ e[3] = a.path /\ e = <<e[1], e[2], e[3]>>
                         /\ a.goos = "all" \/ (e[1] = toPlatform(a) /\ e[1][2] = a.goarch)
<1>1. PICK a \in contextArtifacts(d) :
        e \in IF a.goos = "all" THEN {<<p, a.name, a.path>> : p \in d.platforms}
              ELSE {<<toPlatform(a), a.name, a.path>>}
  BY DEF makeContext
<1>2. a \in arts /\ a.type \in Contained
  <2>1. Copied # {}
    BY DEF Copied
  <2>2. ByTypes(a, Copied) => a.type \in Copied
    BY <2>1 DEF ByTypes, autoOr
  <2>. QED
    BY <1>1, <2>2 DEF contextArtifacts, Wheels, Contained
<1>3. CASE a.goos = "all"
  <2>1. PICK p : e = <<p, a.name, a.path>>
    BY <1>1, <1>3
  <2>. QED
    BY <1>2, <1>3, <2>1
<1>4. CASE a.goos # "all"
  <2>1. PICK p : p = toPlatform(a)
    OBVIOUS
  <2>2. e = <<p, a.name, a.path>>
    BY <1>1, <1>4, <2>1
  <2>3. p[2] = a.goarch
    BY <2>1 DEF toPlatform
  <2>. QED
    BY <1>2, <2>1, <2>2, <2>3
<1>. QED
  BY <1>3, <1>4

LEMMA ContextsApart == ASSUME ContextFilesApart, ContextInv PROVE ContextKeepsApart
<1>1. PICK s \in Scenarios : built = s.built
  BY DEF ContextInv
<1>2. NamesInContext(built) /\ LevelsInContext(built)
  BY <1>1 DEF ContextFilesApart
<1>3. SUFFICES ASSUME NEW i \in DOMAIN cfg.dockersV2, NEW e \in makeContext(cfg.dockersV2[i]),
                      NEW f \in makeContext(cfg.dockersV2[i]), e[1] = f[1], e[2] = f[2]
               PROVE  e = f \/ e[1][2] = "arm64"
  BY DEF ContextKeepsApart
<1>4. PICK a \in arts : /\ a.type \in Contained /\ e[2] = a.name /\ e[3] = a.path /\ e = <<e[1], e[2], e[3]>>
                        /\ a.goos = "all" \/ (e[1] = toPlatform(a) /\ e[1][2] = a.goarch)
  BY ContextOf
<1>5. PICK b \in arts : /\ b.type \in Contained /\ f[2] = b.name /\ f[3] = b.path /\ f = <<f[1], f[2], f[3]>>
                        /\ b.goos = "all" \/ (f[1] = toPlatform(b) /\ f[1][2] = b.goarch)
  BY ContextOf
<1>6. a \in built /\ b \in built /\ a.name = b.name
  BY <1>3, <1>4, <1>5 DEF ContextInv
<1>7. a.path = b.path \/ e[1][2] = "arm64"
  <2>1. CASE a.goos = "all" \/ b.goos = "all"
    BY <1>2, <1>4, <1>5, <1>6, <2>1 DEF NamesInContext
  <2>2. CASE ~(a.goos = "all" \/ b.goos = "all")
    BY <1>2, <1>3, <1>4, <1>5, <1>6, <2>2, PlacesApart
  <2>. QED
    BY <2>1, <2>2
<1>. QED
  BY <1>3, <1>4, <1>5, <1>7

LEMMA AlwaysContext == Spec => []ContextInv
<1>1. Init => ContextInv
  BY DEF Init, ContextInv
<1>2. Sound /\ ContextInv /\ [Next]_vars => ContextInv'
  <2>. SUFFICES ASSUME Sound, ContextInv, [Next]_vars PROVE ContextInv'
    OBVIOUS
  <2>1. ASSUME built' = built, \A a \in arts' : a \in arts \/ a.type \notin Contained PROVE ContextInv'
    BY <2>1 DEF ContextInv
  <2>2. CASE UNCHANGED vars \/ Crash \/ Begin \/ Finish
    BY <2>1, <2>2 DEF Crash, Begin, Finish, GoOn, End, vars, fixed, place
  <2>3. CASE Step
    <3>1. PICK j \in todo : TapStep(j) \/ ImageStep(j) \/ UploadStep(j)
      BY <2>3 DEF Step
    <3>2. Control /\ SoundPlace /\ stage \in 1..39
      BY DEF Sound, YardInv, Control
    <3>3. built' = built
      BY <3>1, <3>2, TapFrame, ImageFrame, UploadFrame DEF Framed, Basis
    <3>. QED
      BY <2>1, <3>1, <3>2, <3>3, StepArts DEF Added, Other
  <2>4. CASE SetUp
    <3>1. built' = built /\ arts' \subseteq arts \cup {writeMetadata}
      BY <2>4 DEF SetUp
    <3>. QED
      BY <2>1, <3>1, NewArtifacts DEF Other
  <2>5. CASE Again
    BY <2>5 DEF Again, ContextInv
  <2>. QED
    BY <2>2, <2>3, <2>4, <2>5 DEF Next
<1>. QED
  BY <1>1, <1>2, AlwaysSound, PTL DEF Spec

(* Whatever pipes add to the list, in the context of a dockerv2 build no   *)
(* file takes the place of another: toPlatform has a place for each target *)
(* and each level that docker tells apart, but for the levels of arm64.    *)
THEOREM ContextsKeepFilesApart == ASSUME ContextFilesApart PROVE Spec => []ContextKeepsApart
BY AlwaysContext, ContextsApart, PTL
-----------------------------------------------------------------------------
(* What the digests file and the signatures tell. An image is known by a   *)
(* name and a digest; the registry has that digest under the name unless   *)
(* another configuration pushes the name as well.                          *)
(* The names a configuration is pushed under, its defaults set or not.     *)
Pushers == {"docker", "docker.Manifest", "dockerv2.Publish", "ko"}
KoNames(k, env) ==
  IF k.disable THEN {}
  ELSE {<<repo, OrText(k.id, ProjectName)>> :
          repo \in IF env # "" THEN {env} ELSE {k.repositories[r] : r \in DOMAIN k.repositories}}
NamesOf(c, env, p, i) ==
  LET d == c[Field(p)][i] IN
  CASE p = "docker" -> IF d.skipUpload = "true" THEN {} ELSE d.images
    [] p = "docker.Manifest" -> IF d.skipUpload = "true" THEN {} ELSE {d.name}
    [] p = "dockerv2.Publish" ->
         IF d.disable THEN {} ELSE makeImageList(d.images, IF d.tags = {} THEN {"tag"} ELSE d.tags)
    [] p = "ko" -> KoNames(d, env)
Separate(c, env) ==
  \A p, q \in Pushers : \A i \in DOMAIN c[Field(p)], k \in DOMAIN c[Field(q)] :
    p # q \/ i # k => NamesOf(c, env, p, i) \cap NamesOf(c, env, q, k) = {}
ImagesApart == \A s \in Scenarios : Separate(s.cfg, s.world.koRepo)

Owns(p, i, n) == p \in Pushers /\ i \in DOMAIN cfg[Field(p)] /\ n \in NamesOf(cfg, world.koRepo, p, i)

Sections == {"dockers", "dockerManifests", "dockersV2", "kos", "dockerSigns"}
SoundKo(k) ==
  /\ {"id", "repositories", "disable"} \subseteq DOMAIN k
  /\ Len(k.repositories) \in Nat /\ DOMAIN k.repositories = 1..Len(k.repositories)
  /\ k.repositories = <<>> \/ 1 \in DOMAIN k.repositories
SoundImages ==
  /\ Sections \subseteq DOMAIN cfg
  /\ \A f \in Sections : Len(cfg[f]) \in Nat /\ DOMAIN cfg[f] = 1..Len(cfg[f])
  /\ \A i \in DOMAIN cfg.dockers : {"images", "skipUpload"} \subseteq DOMAIN cfg.dockers[i]
  /\ \A i \in DOMAIN cfg.dockersV2 : {"images", "tags", "disable"} \subseteq DOMAIN cfg.dockersV2[i]
  /\ \A i \in DOMAIN cfg.kos : SoundKo(cfg.kos[i])
  /\ \A i \in DOMAIN cfg.dockerSigns :
       /\ "artifacts" \in DOMAIN cfg.dockerSigns[i]
       /\ cfg.dockerSigns[i].artifacts \in {"", "all", "images", "manifests", "none"}
(* A ko configuration once its defaults are set and it was found valid.    *)
SetKo(k) ==
  /\ OrText(k.id, ProjectName) = k.id /\ k.repositories # <<>>
  /\ world.koRepo # "" => k.repositories = <<world.koRepo>>
KosSet == \A i \in DOMAIN cfg.kos : SetKo(cfg.kos[i])

AtImages ==
  Pipe \in {"docker.Manifest", "dockerv2.Publish", "dockerv2.Snapshot", "ko", "sign.Docker"}
  \/ (Pipe = "docker" /\ ~Publishes)
Ready(a) == DOMAIN a = DOMAIN Blank /\ a.format \in DOMAIN cfg.dockers /\ a.name \in cfg.dockers[a.format].images
ImageJobs ==
  /\ AtImages => at \in Nat /\ \A j \in todo : j.at \in DOMAIN cfg[Field(Pipe)]
  /\ Pipe = "ko" => \A j \in todo : \A n \in j.left : Owns("ko", j.at, n)
  /\ stage = 18 => \A j \in todo : Ready(j.what)
  /\ \A a \in ToPush : Ready(a)
InRegister(a) == <<a.name, a.key>> \in registry /\ \E p, i : Owns(p, i, a.name) /\ a.key = <<p, i, run>>
Keyed == ~impliedSnapshot(world) => \A a \in AllImages : a.type \in InDigests => InRegister(a)

AttestInv ==
  /\ Separate(cfg, world.koRepo) /\ SoundImages /\ (stage # 1 => KosSet) /\ ImageJobs /\ Keyed

LEMMA OwnersApart ==
  ASSUME Separate(cfg, world.koRepo), NEW p, NEW q, NEW i, NEW k, NEW n, Owns(p, i, n), Owns(q, k, n)
  PROVE  p = q /\ i = k
BY DEF Separate, Owns

LEMMA OwnsStays == UNCHANGED <<cfg, world>> => \A p, i, n : Owns(p, i, n) <=> Owns(p, i, n)'
BY DEF Owns

LEMMA ConfigurationStays ==
  ASSUME UNCHANGED <<cfg, world>>
  PROVE  /\ SoundImages <=> SoundImages'
         /\ Separate(cfg, world.koRepo) <=> Separate(cfg, world.koRepo)'
         /\ KosSet <=> KosSet'
         /\ \A a : Ready(a) <=> Ready(a)'
<1>1. SoundImages <=> SoundImages'
  BY DEF SoundImages
<1>2. Separate(cfg, world.koRepo) <=> Separate(cfg, world.koRepo)'
  OBVIOUS
<1>3. KosSet <=> KosSet'
  BY DEF KosSet, SetKo
<1>4. \A a : Ready(a) <=> Ready(a)'
  BY DEF Ready
<1>. QED
  BY <1>1, <1>2, <1>3, <1>4

(* A push: what it brings belongs to one configuration.                    *)
LEMMA KeyedPush ==
  ASSUME Separate(cfg, world.koRepo), Keyed, UNCHANGED <<cfg, world, run>>,
         NEW p, NEW i, NEW new, Registered(new),
         \A x \in new : x = <<x[1], <<p, i, run>>>> /\ Owns(p, i, x[1]),
         \A a \in AllImages' : a \in AllImages \/ a.type \notin InDigests \/ <<a.name, a.key>> \in new
  PROVE  Keyed'
<1>. SUFFICES ASSUME ~impliedSnapshot(world), NEW a \in AllImages', a.type \in InDigests PROVE InRegister(a)'
  BY DEF Keyed
<1>1. registry' = {x \in registry : \A n \in new : n[1] # x[1]} \cup new
  BY DEF Registered
<1>2. CASE <<a.name, a.key>> \in new
  <2>1. Owns(p, i, a.name) /\ a.key = <<p, i, run>>
    BY <1>2
  <2>2. Owns(p, i, a.name)'
    BY <2>1, OwnsStays
  <2>. QED
    BY <1>1, <1>2, <2>1, <2>2 DEF InRegister
<1>3. CASE a \in AllImages /\ <<a.name, a.key>> \notin new
  <2>1. InRegister(a)
    BY <1>3 DEF Keyed
  <2>2. PICK q, k : Owns(q, k, a.name) /\ a.key = <<q, k, run>>
    BY <2>1 DEF InRegister
  <2>3. ASSUME NEW n \in new PROVE n[1] # a.name
    <3>. SUFFICES ASSUME n[1] = a.name PROVE FALSE
      OBVIOUS
    <3>1. n = <<a.name, <<p, i, run>>>> /\ Owns(p, i, a.name)
      OBVIOUS
    <3>2. p = q /\ i = k
      BY <2>2, <3>1, OwnersApart
    <3>. QED
      BY <1>3, <2>2, <3>1, <3>2
  <2>4. <<a.name, a.key>> \in registry'
    BY <1>1, <2>1, <2>3 DEF InRegister
  <2>. QED
    BY <2>2, <2>4, OwnsStays DEF InRegister
<1>. QED
  BY <1>2, <1>3

LEMMA KeyedStays ==
  ASSUME Keyed, UNCHANGED <<cfg, world, run, registry>>,
         \A a \in AllImages' : a \in AllImages \/ a.type \notin InDigests
  PROVE  Keyed'
<1>1. \A a : InRegister(a) => InRegister(a)'
  BY OwnsStays DEF InRegister
<1>. QED
  BY <1>1 DEF Keyed

(* The defaults leave the names an image is pushed under, but for a tag    *)
(* and a repository the configuration does not give.                       *)
LEMMA DefaultImages ==
  ASSUME SoundImages, NEW env
  PROVE  LET c == Defaults(cfg, env) IN
         /\ DOMAIN c = DOMAIN cfg
         /\ c.dockers = [i \in DOMAIN cfg.dockers |-> dockerDefault(cfg.dockers[i])]
         /\ c.dockerManifests = cfg.dockerManifests
         /\ c.dockersV2 = [i \in DOMAIN cfg.dockersV2 |-> dockerV2Default(cfg.dockersV2[i])]
         /\ c.kos = [i \in DOMAIN cfg.kos |-> koDefault(cfg.kos[i], env)]
         /\ c.dockerSigns = [i \in DOMAIN cfg.dockerSigns |-> dockerSignDefault(cfg.dockerSigns[i])]
<1>. DEFINE c == Defaults(cfg, env)
<1>1. DOMAIN c = DOMAIN cfg /\ c.dockerManifests = cfg.dockerManifests
  BY DEF Defaults, SoundImages, Sections, Kinds
<1>2. c.dockers = [i \in DOMAIN cfg.dockers |-> dockerDefault(cfg.dockers[i])]
  BY DEF Defaults, SoundImages, Sections, Kinds, Each_
<1>3. c.dockersV2 = [i \in DOMAIN cfg.dockersV2 |-> dockerV2Default(cfg.dockersV2[i])]
  BY DEF Defaults, SoundImages, Sections, Kinds, Each_
<1>4. c.kos = [i \in DOMAIN cfg.kos |-> koDefault(cfg.kos[i], env)]
  BY DEF Defaults, SoundImages, Sections, Kinds, Each_
<1>5. c.dockerSigns = [i \in DOMAIN cfg.dockerSigns |-> dockerSignDefault(cfg.dockerSigns[i])]
  BY DEF Defaults, SoundImages, Sections, Kinds, Each_
<1>. QED
  BY <1>1, <1>2, <1>3, <1>4, <1>5

LEMMA ImageDefaults ==
  /\ \A d : {"images", "skipUpload"} \subseteq DOMAIN d =>
       LET e == dockerDefault(d) IN
       {"images", "skipUpload"} \subseteq DOMAIN e /\ e.images = d.images /\ e.skipUpload = d.skipUpload
  /\ \A d : {"images", "tags", "disable"} \subseteq DOMAIN d =>
       LET e == dockerV2Default(d) IN
       /\ {"images", "tags", "disable"} \subseteq DOMAIN e /\ e.images = d.images /\ e.disable = d.disable
       /\ e.tags = IF d.tags = {} THEN {"tag"} ELSE d.tags
  /\ \A s : "artifacts" \in DOMAIN s =>
       LET e == dockerSignDefault(s) IN "artifacts" \in DOMAIN e /\ e.artifacts = s.artifacts
<1>1. \A d : {"images", "skipUpload"} \subseteq DOMAIN d =>
       LET e == dockerDefault(d) IN
       {"images", "skipUpload"} \subseteq DOMAIN e /\ e.images = d.images /\ e.skipUpload = d.skipUpload
  BY DEF dockerDefault
<1>2. \A d : {"images", "tags", "disable"} \subseteq DOMAIN d =>
       LET e == dockerV2Default(d) IN
       /\ {"images", "tags", "disable"} \subseteq DOMAIN e /\ e.images = d.images /\ e.disable = d.disable
       /\ e.tags = IF d.tags = {} THEN {"tag"} ELSE d.tags
  BY DEF dockerV2Default
<1>3. \A s : "artifacts" \in DOMAIN s =>
       LET e == dockerSignDefault(s) IN "artifacts" \in DOMAIN e /\ e.artifacts = s.artifacts
  BY DEF dockerSignDefault
<1>. QED
  BY <1>1, <1>2, <1>3

LEMMA KoDefaults ==
  ASSUME NEW k, NEW env, {"id", "repositories", "disable"} \subseteq DOMAIN k
  PROVE  LET e == koDefault(k, env) IN
         /\ {"id", "repositories", "disable"} \subseteq DOMAIN e /\ e.disable = k.disable
         /\ e.id = OrText(k.id, ProjectName)
         /\ e.repositories = IF env # "" THEN <<env>> ELSE k.repositories
BY DEF koDefault

LEMMA KoNamesSame ==
  ASSUME NEW k, NEW l, NEW env, l.disable = k.disable, OrText(l.id, ProjectName) = OrText(k.id, ProjectName),
         env = "" => l.repositories = k.repositories
  PROVE  KoNames(l, env) = KoNames(k, env)
<1>1. CASE env = ""
  BY <1>1 DEF KoNames
<1>2. CASE env # ""
  BY <1>2 DEF KoNames
<1>. QED
  BY <1>1, <1>2

LEMMA SetUpImages ==
  ASSUME SoundImages, cfg' = Defaults(cfg, world.koRepo), UNCHANGED world
  PROVE  /\ SoundImages' /\ (ValidImages(cfg') => KosSet')
         /\ \A p \in Pushers :
              /\ DOMAIN cfg'[Field(p)] = DOMAIN cfg[Field(p)]
              /\ \A i \in DOMAIN cfg[Field(p)] : NamesOf(cfg', world.koRepo, p, i) = NamesOf(cfg, world.koRepo, p, i)
<1>. DEFINE env == world.koRepo
<1>1. /\ DOMAIN cfg' = DOMAIN cfg
      /\ cfg'.dockers = [i \in DOMAIN cfg.dockers |-> dockerDefault(cfg.dockers[i])]
      /\ cfg'.dockerManifests = cfg.dockerManifests
      /\ cfg'.dockersV2 = [i \in DOMAIN cfg.dockersV2 |-> dockerV2Default(cfg.dockersV2[i])]
      /\ cfg'.kos = [i \in DOMAIN cfg.kos |-> koDefault(cfg.kos[i], env)]
      /\ cfg'.dockerSigns = [i \in DOMAIN cfg.dockerSigns |-> dockerSignDefault(cfg.dockerSigns[i])]
  BY DefaultImages
<1>2. \A f \in Sections : DOMAIN cfg'[f] = DOMAIN cfg[f]
  BY <1>1 DEF Sections
<1>3. ASSUME NEW f \in Sections PROVE Len(cfg'[f]) \in Nat /\ DOMAIN cfg'[f] = 1..Len(cfg'[f])
  <2>. DEFINE s == cfg'[f]
              n == Len(cfg[f])
  <2>1. n \in Nat /\ DOMAIN s = 1..n
    BY <1>2 DEF SoundImages
  <2>2. CASE f = "dockerManifests"
    BY <1>1, <2>2 DEF SoundImages
  <2>3. CASE f # "dockerManifests"
    <3>1. s = [i \in DOMAIN s |-> s[i]]
      <4>1. CASE f = "dockers"
        BY <1>1, <4>1
      <4>2. CASE f = "dockersV2"
        BY <1>1, <4>2
      <4>3. CASE f = "kos"
        BY <1>1, <4>3
      <4>4. CASE f = "dockerSigns"
        BY <1>1, <4>4
      <4>. QED
        BY <2>3, <4>1, <4>2, <4>3, <4>4 DEF Sections
    <3>. HIDE DEF s, n
    <3>2. s \in Seq({s[i] : i \in 1..n})
      BY <2>1, <3>1
    <3>3. Len(s) = n
      BY <2>1, <3>2
    <3>. QED
      BY <2>1, <3>3 DEF s
  <2>. QED
    BY <2>2, <2>3
<1>4. ASSUME NEW i \in DOMAIN cfg.dockers
      PROVE  /\ {"images", "skipUpload"} \subseteq DOMAIN cfg'.dockers[i]
             /\ cfg'.dockers[i].images = cfg.dockers[i].images
             /\ cfg'.dockers[i].skipUpload = cfg.dockers[i].skipUpload
  <2>1. PICK d : d = cfg.dockers[i] /\ {"images", "skipUpload"} \subseteq DOMAIN d
    BY DEF SoundImages
  <2>. DEFINE e == dockerDefault(d)
  <2>2. cfg'.dockers[i] = e
    BY <1>1, <2>1
  <2>3. {"images", "skipUpload"} \subseteq DOMAIN e /\ e.images = d.images /\ e.skipUpload = d.skipUpload
    BY <2>1, ImageDefaults
  <2>. HIDE DEF e
  <2>. QED
    BY <2>1, <2>2, <2>3
<1>5. ASSUME NEW i \in DOMAIN cfg.dockersV2
       PROVE  /\ {"images", "tags", "disable"} \subseteq DOMAIN cfg'.dockersV2[i]
              /\ cfg'.dockersV2[i].images = cfg.dockersV2[i].images
              /\ cfg'.dockersV2[i].disable = cfg.dockersV2[i].disable
              /\ cfg'.dockersV2[i].tags = IF cfg.dockersV2[i].tags = {} THEN {"tag"} ELSE cfg.dockersV2[i].tags
  <2>1. PICK d : d = cfg.dockersV2[i] /\ {"images", "tags", "disable"} \subseteq DOMAIN d
    BY DEF SoundImages
  <2>. DEFINE e == dockerV2Default(d)
  <2>2. cfg'.dockersV2[i] = e
    BY <1>1, <2>1
  <2>3. /\ {"images", "tags", "disable"} \subseteq DOMAIN e /\ e.images = d.images /\ e.disable = d.disable
        /\ e.tags = IF d.tags = {} THEN {"tag"} ELSE d.tags
    BY <2>1, ImageDefaults
  <2>. HIDE DEF e
  <2>. QED
    BY <2>1, <2>2, <2>3
<1>6. ASSUME NEW i \in DOMAIN cfg.kos
      PROVE  /\ {"id", "repositories", "disable"} \subseteq DOMAIN cfg'.kos[i]
             /\ cfg'.kos[i].disable = cfg.kos[i].disable
             /\ cfg'.kos[i].id = OrText(cfg.kos[i].id, ProjectName)
             /\ cfg'.kos[i].repositories = IF env # "" THEN <<env>> ELSE cfg.kos[i].repositories
  <2>1. PICK d : d = cfg.kos[i] /\ {"id", "repositories", "disable"} \subseteq DOMAIN d
    BY DEF SoundImages, SoundKo
  <2>. HIDE DEF env
  <2>. DEFINE e == koDefault(d, env)
  <2>2. cfg'.kos[i] = e
    BY <1>1, <2>1
  <2>3. /\ {"id", "repositories", "disable"} \subseteq DOMAIN e /\ e.disable = d.disable
        /\ e.id = OrText(d.id, ProjectName)
        /\ e.repositories = IF env # "" THEN <<env>> ELSE d.repositories
    BY <2>1, KoDefaults
  <2>. HIDE DEF e
  <2>. QED
    BY <2>1, <2>2, <2>3
<1>7. ASSUME NEW i \in DOMAIN cfg.dockerSigns
      PROVE  "artifacts" \in DOMAIN cfg'.dockerSigns[i] /\ cfg'.dockerSigns[i].artifacts = cfg.dockerSigns[i].artifacts
  <2>1. PICK d : d = cfg.dockerSigns[i] /\ "artifacts" \in DOMAIN d
    BY DEF SoundImages
  <2>2. cfg'.dockerSigns[i] = dockerSignDefault(d)
    BY <1>1, <2>1
  <2>. QED
    BY <2>1, <2>2, ImageDefaults
<1>8. ASSUME NEW i \in DOMAIN cfg.kos PROVE SoundKo(cfg'.kos[i])
  <2>. HIDE DEF env
  <2>1. CASE env # ""
    <3>1. cfg'.kos[i].repositories = <<env>>
      BY <1>6, <2>1
    <3>. DEFINE l == cfg'.kos[i]
                s == <<env>>
    <3>2. Len(s) = 1 /\ DOMAIN s = 1..1 /\ l.repositories = s
      BY <3>1
    <3>3. {"id", "repositories", "disable"} \subseteq DOMAIN l
      BY <1>6
    <3>. HIDE DEF l, s
    <3>4. PICK t : t = l.repositories /\ Len(t) = 1 /\ DOMAIN t = 1..1
      BY <3>2
    <3>5. Len(t) \in Nat /\ DOMAIN t = 1..Len(t) /\ 1 \in DOMAIN t
      BY ONLY <3>4
    <3>6. SoundKo(l)
      BY <3>3, <3>4, <3>5 DEF SoundKo
    <3>. QED
      BY <3>6 DEF l
  <2>2. CASE env = ""
    <3>. DEFINE k == cfg.kos[i]
                l == cfg'.kos[i]
    <3>1. l.repositories = k.repositories /\ {"id", "repositories", "disable"} \subseteq DOMAIN l
      BY <1>6, <2>2
    <3>2. SoundKo(k)
      BY DEF SoundImages
    <3>. HIDE DEF k, l
    <3>3. SoundKo(l)
      BY <3>1, <3>2 DEF SoundKo
    <3>. QED
      BY <3>3 DEF l
  <2>. QED
    BY <2>1, <2>2
<1>9. SoundImages'
  BY <1>1, <1>2, <1>3, <1>4, <1>5, <1>7, <1>8 DEF SoundImages, Sections
<1>10. ASSUME ValidImages(cfg') PROVE KosSet'
  <2>1. ASSUME NEW i \in DOMAIN cfg'.kos PROVE SetKo(cfg'.kos[i])
    <3>1. i \in DOMAIN cfg.kos
      BY <1>2 DEF Sections
    <3>2. cfg'.kos[i].repositories # <<>>
      BY <1>10 DEF ValidImages
    <3>3. OrText(cfg'.kos[i].id, ProjectName) = cfg'.kos[i].id
      <4>1. cfg'.kos[i].id = OrText(cfg.kos[i].id, ProjectName)
        BY <1>6, <3>1
      <4>. QED
        BY <4>1, TextTwice
    <3>4. env # "" => cfg'.kos[i].repositories = <<env>>
      BY <1>6, <3>1
    <3>. QED
      BY <3>2, <3>3, <3>4 DEF SetKo
  <2>. QED
    BY <2>1 DEF KosSet, SetKo
<1>11. \A p \in Pushers : Field(p) \in Sections
  BY DEF Pushers, Field, Sections
<1>12. ASSUME NEW i \in DOMAIN cfg.dockers
       PROVE  NamesOf(cfg', env, "docker", i) = NamesOf(cfg, env, "docker", i)
  BY <1>4 DEF NamesOf, Field
<1>13. ASSUME NEW i \in DOMAIN cfg.dockerManifests
       PROVE  NamesOf(cfg', env, "docker.Manifest", i) = NamesOf(cfg, env, "docker.Manifest", i)
  BY <1>1 DEF NamesOf, Field
<1>14. ASSUME NEW i \in DOMAIN cfg.dockersV2
       PROVE  NamesOf(cfg', env, "dockerv2.Publish", i) = NamesOf(cfg, env, "dockerv2.Publish", i)
  BY <1>5 DEF NamesOf, Field
<1>15. ASSUME NEW i \in DOMAIN cfg.kos
       PROVE  NamesOf(cfg', env, "ko", i) = NamesOf(cfg, env, "ko", i)
  <2>1. OrText(cfg'.kos[i].id, ProjectName) = OrText(cfg.kos[i].id, ProjectName)
    BY <1>6, TextTwice
  <2>2. env = "" => cfg'.kos[i].repositories = cfg.kos[i].repositories
    BY <1>6
  <2>3. cfg'.kos[i].disable = cfg.kos[i].disable
    BY <1>6
  <2>. HIDE DEF env
  <2>4. KoNames(cfg'.kos[i], env) = KoNames(cfg.kos[i], env)
    BY <2>1, <2>2, <2>3, KoNamesSame
  <2>. QED
    BY <2>4 DEF NamesOf, Field
<1>. QED
  BY <1>2, <1>9, <1>10, <1>11, <1>12, <1>13, <1>14, <1>15 DEF Pushers, Field

LEMMA InitAttests == ASSUME ImagesApart, Init PROVE AttestInv
<1>1. PICK s \in Scenarios : cfg = s.cfg /\ world = s.world /\ built = s.built
  BY DEF Init
<1>2. cfg \in Config!Project
  BY <1>1, DeliveryAssumption
<1>3. SoundImages
  <2>1. Sections \subseteq DOMAIN cfg
    BY <1>2 DEF Config!Project, Sections
  <2>2. /\ cfg.dockers \in Seq(Config!Docker) /\ cfg.dockerManifests \in Seq(Config!DockerManifest)
        /\ cfg.dockersV2 \in Seq(Config!DockerV2) /\ cfg.kos \in Seq(Config!Ko)
        /\ cfg.dockerSigns \in Seq(Config!DockerSign)
    BY <1>2 DEF Config!Project
  <2>3. ASSUME NEW f \in Sections PROVE Len(cfg[f]) \in Nat /\ DOMAIN cfg[f] = 1..Len(cfg[f])
    BY <2>2 DEF Sections
  <2>4. ASSUME NEW i \in DOMAIN cfg.dockers PROVE {"images", "skipUpload"} \subseteq DOMAIN cfg.dockers[i]
    <3>1. cfg.dockers[i] \in Config!Docker
      BY <2>2
    <3>. QED
      BY <3>1 DEF Config!Docker
  <2>5. ASSUME NEW i \in DOMAIN cfg.dockersV2
        PROVE  {"images", "tags", "disable"} \subseteq DOMAIN cfg.dockersV2[i]
    <3>1. cfg.dockersV2[i] \in Config!DockerV2
      BY <2>2
    <3>. QED
      BY <3>1 DEF Config!DockerV2
  <2>6. ASSUME NEW i \in DOMAIN cfg.kos PROVE SoundKo(cfg.kos[i])
    <3>. DEFINE k == cfg.kos[i]
    <3>1. k \in Config!Ko
      BY <2>2
    <3>. HIDE DEF k
    <3>2. {"id", "repositories", "disable"} \subseteq DOMAIN k /\ k.repositories \in Seq(STRING)
      BY <3>1 DEF Config!Ko
    <3>3. PICK t : t = k.repositories /\ t \in Seq(STRING)
      BY <3>2
    <3>4. Len(t) \in Nat /\ DOMAIN t = 1..Len(t) /\ (t = <<>> \/ 1 \in DOMAIN t)
      BY ONLY <3>3
    <3>5. SoundKo(k)
      BY <3>2, <3>3, <3>4 DEF SoundKo
    <3>. QED
      BY <3>5 DEF k
  <2>7. ASSUME NEW i \in DOMAIN cfg.dockerSigns
        PROVE  /\ "artifacts" \in DOMAIN cfg.dockerSigns[i]
               /\ cfg.dockerSigns[i].artifacts \in {"", "all", "images", "manifests", "none"}
    <3>1. cfg.dockerSigns[i] \in Config!DockerSign
      BY <2>2
    <3>. QED
      BY <3>1 DEF Config!DockerSign
  <2>. QED
    BY <2>1, <2>3, <2>4, <2>5, <2>6, <2>7 DEF SoundImages
<1>4. Separate(cfg, world.koRepo)
  BY <1>1 DEF ImagesApart
<1>5. stage = 1 /\ todo = {} /\ AllImages = {} /\ ToPush = {}
  BY InitJoins DEF Init, JoinInv, ToPush
<1>6. ~AtImages
  <2>1. Pipe = "setup"
    BY <1>5, StageNames DEF Setting
  <2>. QED
    BY <2>1 DEF AtImages
<1>7. ImageJobs /\ Keyed
  BY <1>5, <1>6 DEF ImageJobs, Keyed
<1>. QED
  BY <1>3, <1>4, <1>5, <1>7 DEF AttestInv

(* Where images are pushed and attested, the run is no snapshot.           *)
LEMMA AtWork ==
  ASSUME Control, NEW j \in todo
  PROVE  /\ stage # 1 /\ ~Skipped /\ ctx.snapshot = impliedSnapshot(world)
         /\ Pipe \in {"dockerdigest", "sign.Docker", "dockerv2.Publish", "docker.Manifest"} => Publishes
         /\ Publishes => ~impliedSnapshot(world)
         /\ Pipe \in {"dockerv2.Snapshot", "ko"} /\ ~Publishes => impliedSnapshot(world)
<1>1. stage # 1 /\ ~Skipped /\ stage \in 1..39
  BY DEF Control
<1>2. ctx.snapshot = impliedSnapshot(world)
  <2>1. ctx = Context(world, cfg)
    BY <1>1 DEF Control
  <2>. QED
    BY <2>1 DEF Context
<1>3. Pipe \in {"dockerdigest", "sign.Docker", "dockerv2.Publish", "docker.Manifest"} => Publishes
  BY <1>1, StageNames DEF Between, Prepared, Kinds
<1>4. Publishes => ~impliedSnapshot(world)
  BY ValidatedAtWork DEF Validated
<1>5. Pipe \in {"dockerv2.Snapshot", "ko"} /\ ~Publishes => ctx.snapshot
  BY <1>1 DEF Skipped
<1>. QED
  BY <1>1, <1>2, <1>3, <1>4, <1>5

LEMMA KoOwns ==
  ASSUME KosSet, NEW i \in DOMAIN cfg.kos, ~cfg.kos[i].disable, NEW r \in DOMAIN cfg.kos[i].repositories
  PROVE  Owns("ko", i, KoName(cfg.kos[i], cfg.kos[i].repositories[r]))
<1>. DEFINE k == cfg.kos[i]
            env == world.koRepo
            repo == k.repositories[r]
<1>1. OrText(k.id, ProjectName) = k.id /\ (env # "" => k.repositories = <<env>>)
  BY DEF KosSet, SetKo
<1>2. repo \in IF env # "" THEN {env} ELSE {k.repositories[n] : n \in DOMAIN k.repositories}
  <2>1. CASE env # ""
    <3>1. \A x : \A n \in DOMAIN <<x>> : <<x>>[n] = x
      OBVIOUS
    <3>2. PICK t : t = <<env>> /\ r \in DOMAIN t /\ repo = t[r]
      BY <1>1, <2>1
    <3>. HIDE DEF env, repo
    <3>3. repo = env
      BY <3>1, <3>2
    <3>. QED
      BY <2>1, <3>3
  <2>2. CASE env = ""
    BY <2>2
  <2>. QED
    BY <2>1, <2>2
<1>. HIDE DEF repo, env, k
<1>3. <<repo, k.id>> \in KoNames(k, env)
  <2>1. ~k.disable
    BY DEF k
  <2>. QED
    BY <1>1, <1>2, <2>1 DEF KoNames
<1>4. <<repo, k.id>> \in NamesOf(cfg, env, "ko", i)
  BY <1>3 DEF NamesOf, Field, k
<1>5. <<repo, k.id>> = KoName(cfg.kos[i], cfg.kos[i].repositories[r])
  BY DEF k, repo, KoName
<1>. QED
  BY <1>4, <1>5 DEF Owns, Pushers, Field, env

(* Each push is of names of the configuration it is made for.              *)
Unchanging == UNCHANGED <<cfg, world, ctx, run, stage, at>>
Attesting(j) ==
  /\ Control /\ Separate(cfg, world.koRepo) /\ SoundImages /\ KosSet /\ ImageJobs /\ Keyed
  /\ j \in todo /\ Unchanging /\ ~impliedSnapshot(world)

LEMMA BuildKeyed == ASSUME NEW j, Attesting(j), BuildImage(j) PROVE Keyed'
<1>1. registry' = registry /\ \A a \in AllImages' : a \in AllImages \/ a \in PublishableImages(Configured[j.at], j.at)
  BY DEF BuildImage, AllImages
<1>2. \A a \in AllImages' : a \in AllImages \/ a.type \notin InDigests
  BY <1>1, NewImages DEF InDigests
<1>. QED
  BY <1>1, <1>2, KeyedStays DEF Attesting, Unchanging

LEMMA PushKeyed == ASSUME NEW j, Attesting(j), PushImage(j) PROVE Keyed'
<1>. DEFINE i == j.what.format
            d == Configured[i]
            digest == DigestOf(i)
            new == {<<j.what.name, digest>>}
<1>1. Pipe = "docker" /\ Publishes /\ Configured = cfg.dockers
  BY DEF PushImage, Configured, Field
<1>2. stage = 18 /\ Ready(j.what)
  <2>1. stage = 18
    BY <1>1, ImageStages DEF Attesting, Control
  <2>. QED
    BY <2>1 DEF Attesting, ImageJobs
<1>3. digest = <<"docker", i, run>>
  BY <1>1 DEF DigestOf
<1>4. ~SkipsUpload(d, ctx.prerelease) => Owns("docker", i, j.what.name)
  BY <1>1, <1>2 DEF Ready, Owns, Pushers, Field, NamesOf, SkipsUpload
<1>5. LET a == Pushed(j.what, d, digest) IN a.name = j.what.name /\ a.key = digest
  BY <1>2, NewImages DEF Ready
<1>6. CASE UNCHANGED <<arts, registry>>
  BY <1>6, KeyedStays DEF AllImages, Attesting, Unchanging
<1>7. CASE ~UNCHANGED <<arts, registry>>
  <2>1. /\ Owns("docker", i, j.what.name) /\ Registered(new)
        /\ UNCHANGED arts \/ arts' = arts \cup {Pushed(j.what, d, digest)}
    BY <1>4, <1>7 DEF PushImage
  <2>2. \A a \in AllImages' : a \in AllImages \/ a = Pushed(j.what, d, digest)
    BY <2>1 DEF AllImages
  <2>3. \A a \in AllImages' : a \in AllImages \/ <<a.name, a.key>> \in new
    BY <1>5, <2>2
  <2>4. \A x \in new : x = <<x[1], <<"docker", i, run>>>> /\ Owns("docker", i, x[1])
    BY <1>3, <2>1
  <2>. HIDE DEF new, i
  <2>. QED
    BY <2>1, <2>3, <2>4, KeyedPush DEF Attesting, Unchanging
<1>. QED
  BY <1>6, <1>7

LEMMA ManifestKeyed == ASSUME NEW j, Attesting(j), PushManifest(j) PROVE Keyed'
<1>. DEFINE i == j.at
            m == Configured[i]
            images == Resolved(manifestImages(m))
            digest == DigestOf(i)
            new == {<<m.name, digest>>}
<1>1. Pipe = "docker.Manifest" /\ Configured = cfg.dockerManifests
  BY DEF PushManifest, Configured, Field
<1>2. i \in DOMAIN cfg.dockerManifests
  BY <1>1 DEF Attesting, ImageJobs, AtImages, Field
<1>3. digest = <<"docker.Manifest", i, run>>
  BY <1>1 DEF DigestOf
<1>4. ~manifestSkips(m, ctx.prerelease) => Owns("docker.Manifest", i, m.name)
  BY <1>1, <1>2 DEF Owns, Pushers, Field, NamesOf, SkipsUpload, manifestSkips
<1>5. LET a == ManifestArtifact(m, images, digest) IN a.name = m.name /\ a.key = digest
  BY NewImages
<1>6. CASE UNCHANGED <<arts, registry>>
  BY <1>6, KeyedStays DEF AllImages, Attesting, Unchanging
<1>7. CASE ~UNCHANGED <<arts, registry>>
  <2>1. /\ Owns("docker.Manifest", i, m.name) /\ Registered(new)
        /\ UNCHANGED arts \/ arts' = arts \cup {ManifestArtifact(m, images, digest)}
    BY <1>4, <1>7 DEF PushManifest
  <2>2. \A a \in AllImages' : a \in AllImages \/ a = ManifestArtifact(m, images, digest)
    BY <2>1 DEF AllImages
  <2>3. \A a \in AllImages' : a \in AllImages \/ <<a.name, a.key>> \in new
    BY <1>5, <2>2
  <2>4. \A x \in new : x = <<x[1], <<"docker.Manifest", i, run>>>> /\ Owns("docker.Manifest", i, x[1])
    BY <1>3, <2>1
  <2>. HIDE DEF new, i
  <2>. QED
    BY <2>1, <2>3, <2>4, KeyedPush DEF Attesting, Unchanging
<1>. QED
  BY <1>6, <1>7

LEMMA BuildPushKeyed == ASSUME NEW j, Attesting(j), BuildPush(j) PROVE Keyed'
<1>. DEFINE i == j.at
            d == Configured[i]
            digest == DigestOf(i)
            names == makeImageList(d.images, d.tags)
            new == {<<n, digest>> : n \in names}
<1>1. Publishes /\ Pipe = "dockerv2.Publish" /\ Configured = cfg.dockersV2
  <2>1. Pipe \in {"dockerv2.Publish", "dockerv2.Snapshot"} /\ stage \in 1..39
    BY DEF BuildPush, Attesting, Control
  <2>2. Pipe # "dockerv2.Snapshot"
    BY <2>1, AtWork, ImageStages DEF Attesting
  <2>. QED
    BY <2>1, <2>2, AtWork DEF Attesting, Configured, Field
<1>2. i \in DOMAIN cfg.dockersV2
  BY <1>1 DEF Attesting, ImageJobs, AtImages, Field
<1>3. digest = <<"dockerv2.Publish", i, run>>
  BY <1>1 DEF DigestOf
<1>4. ASSUME ~v2Skips(d), NEW n \in names PROVE Owns("dockerv2.Publish", i, n)
  <2>1. d.tags # {}
    BY <1>4 DEF makeImageList
  <2>2. ~d.disable /\ d.tags = IF d.tags = {} THEN {"tag"} ELSE d.tags
    BY <1>4, <2>1 DEF v2Skips
  <2>3. n \in NamesOf(cfg, world.koRepo, "dockerv2.Publish", i)
    BY <1>1, <1>4, <2>2 DEF NamesOf, Field
  <2>. QED
    BY <1>2, <2>3 DEF Owns, Pushers, Field
<1>5. \A n : LET a == V2Image(d, n, digest) IN a.name = n /\ a.key = digest
  BY NewImages
<1>6. CASE UNCHANGED <<arts, registry>>
  BY <1>6, KeyedStays DEF AllImages, Attesting, Unchanging
<1>7. CASE ~UNCHANGED <<arts, registry>>
  <2>1. /\ ~v2Skips(d) /\ Registered(new)
        /\ UNCHANGED arts \/ arts' = arts \cup {V2Image(d, n, digest) : n \in names}
    BY <1>1, <1>7 DEF BuildPush
  <2>2. \A a \in AllImages' : a \in AllImages \/ \E n \in names : a = V2Image(d, n, digest)
    BY <2>1 DEF AllImages
  <2>3. \A a \in AllImages' : a \in AllImages \/ <<a.name, a.key>> \in new
    BY <1>5, <2>2
  <2>4. \A x \in new : x = <<x[1], <<"dockerv2.Publish", i, run>>>> /\ Owns("dockerv2.Publish", i, x[1])
    BY <1>3, <1>4, <2>1
  <2>. HIDE DEF new, i
  <2>. QED
    BY <2>1, <2>3, <2>4, KeyedPush DEF Attesting, Unchanging
<1>. QED
  BY <1>6, <1>7

LEMMA KoPushKeyed ==
  ASSUME NEW j, Attesting(j), Pipe = "ko", NEW name, Owns("ko", j.at, name), Registered({<<name, DigestOf(j.at)>>}),
         arts' = arts \cup {KoArtifact(Configured[j.at], name, DigestOf(j.at))}
  PROVE  Keyed'
<1>. DEFINE i == j.at
            digest == DigestOf(i)
            new == {<<name, digest>>}
            image == KoArtifact(Configured[i], name, digest)
<1>1. digest = <<"ko", i, run>>
  BY DEF DigestOf
<1>2. image.name = name /\ image.key = digest
  BY NewImages
<1>3. \A a \in AllImages' : a \in AllImages \/ a = image
  BY DEF AllImages
<1>4. \A a \in AllImages' : a \in AllImages \/ <<a.name, a.key>> \in new
  BY <1>2, <1>3
<1>5. \A x \in new : x = <<x[1], <<"ko", i, run>>>> /\ Owns("ko", i, x[1])
  BY <1>1
<1>6. Registered(new)
  OBVIOUS
<1>. HIDE DEF new, i
<1>. QED
  BY <1>4, <1>5, <1>6, KeyedPush DEF Attesting, Unchanging

LEMMA KoKeyed ==
  ASSUME NEW j, Attesting(j), KoBuild(j) \/ \E name \in j.left : CopyImage(j, name)
  PROVE  Keyed'
<1>. DEFINE k == Configured[j.at]
<1>1. Pipe = "ko" /\ Configured = cfg.kos /\ ~ctx.snapshot
  <2>1. Pipe = "ko"
    BY DEF KoBuild, CopyImage
  <2>. QED
    BY <2>1, AtWork DEF Attesting, Configured, Field
<1>2. j.at \in DOMAIN cfg.kos
  BY <1>1 DEF Attesting, ImageJobs, AtImages, Field
<1>3. CASE UNCHANGED <<arts, registry>>
  BY <1>3, KeyedStays DEF AllImages, Attesting, Unchanging
<1>4. CASE KoBuild(j) /\ ~UNCHANGED <<arts, registry>>
  <2>. DEFINE name == KoName(k, k.repositories[1])
  <2>1. /\ ~k.disable /\ Registered({<<name, DigestOf(j.at)>>})
        /\ arts' = arts \cup {KoArtifact(k, name, DigestOf(j.at))}
    BY <1>1, <1>4 DEF KoBuild
  <2>2. 1 \in DOMAIN cfg.kos[j.at].repositories
    BY <1>2 DEF Attesting, SoundImages, SoundKo, KosSet, SetKo
  <2>3. Owns("ko", j.at, name)
    BY <1>1, <1>2, <2>1, <2>2, KoOwns DEF Attesting
  <2>. HIDE DEF name
  <2>. QED
    BY <1>1, <2>1, <2>3, KoPushKeyed
<1>5. ASSUME NEW name \in j.left, CopyImage(j, name), ~UNCHANGED <<arts, registry>> PROVE Keyed'
  <2>1. Registered({<<name, DigestOf(j.at)>>}) /\ arts' = arts \cup {KoArtifact(k, name, DigestOf(j.at))}
    BY <1>5 DEF CopyImage
  <2>2. Owns("ko", j.at, name)
    BY <1>1 DEF Attesting, ImageJobs
  <2>. QED
    BY <1>1, <2>1, <2>2, KoPushKeyed
<1>. QED
  BY <1>3, <1>4, <1>5

LEMMA KoSteps ==
  ASSUME Pipe = "ko", NEW j \in todo, TapStep(j) \/ ImageStep(j) \/ UploadStep(j)
  PROVE  KoBuild(j) \/ \E name \in j.left : CopyImage(j, name)
<1>1. ~TapStep(j)
  BY DEF TapStep, Make, StartUnit, PushPackage, OpenClone, Checkout, Commit, Push, CreateFile, OpenPullRequest,
       Tapping, Kinds
<1>2. ~UploadStep(j)
  BY DEF UploadStep, Deliver, Refuse, UploadFile, CreateApp, UpdateApp, Release, writeArtifacts, PublishServer,
       CloseMilestone, StartAnnouncing, Request, PlaceOf
<1>. QED
  BY <1>1, <1>2 DEF ImageStep, BuildImage, PushImage, PushManifest, BuildPush, WriteDigests, SignImages, PushSnap

LEMMA KoLeft ==
  ASSUME Control, SoundImages, KosSet, ImageJobs, SoundJobs, UNCHANGED <<cfg, world>>,
         NEW j \in todo, KoBuild(j) \/ (\E name \in j.left : CopyImage(j, name)), NEW k \in todo', NEW n \in k.left
  PROVE  Owns("ko", k.at, n)
<1>1. Pipe = "ko" /\ Configured = cfg.kos /\ GoesOnAnyway
  BY DEF KoBuild, CopyImage, Configured, Field, GoesOnAnyway, AllAtOnce
<1>2. CASE k \in todo
  BY <1>1, <1>2 DEF ImageJobs
<1>3. ASSUME NEW left, NEW phase, Proceeds(j, left, phase), \A x \in left : Owns("ko", j.at, x), k \notin todo
      PROVE  Owns("ko", k.at, n)
  <2>1. k = [j EXCEPT !.left = left, !.phase = phase]
    BY <1>3 DEF Proceeds
  <2>2. k.at = j.at /\ k.left = left
    BY <2>1 DEF SoundJobs, JobFields
  <2>. QED
    BY <1>3, <2>2
<1>4. CASE KoBuild(j) /\ k \notin todo
  <2>. DEFINE c == cfg.kos[j.at]
              rest == {KoName(c, c.repositories[i]) : i \in 2..Len(c.repositories)}
  <2>1. j.at \in DOMAIN cfg.kos
    BY <1>1 DEF ImageJobs, AtImages, Field
  <2>2. /\ ~c.disable
        /\ Done(j) \/ Unfortunate(j, "ko build") \/ Proceeds(j, rest, "copy")
    BY <1>1, <1>4 DEF KoBuild, Done
  <2>3. ~Done(j) /\ ~Unfortunate(j, "ko build")
    BY <1>1, <1>4 DEF Done, Unfortunate, Breaks
  <2>4. ASSUME NEW x \in rest PROVE Owns("ko", j.at, x)
    <3>1. PICK i \in 2..Len(c.repositories) : x = KoName(c, c.repositories[i])
      OBVIOUS
    <3>2. Len(c.repositories) \in Nat /\ DOMAIN c.repositories = 1..Len(c.repositories)
      BY <2>1 DEF SoundImages, SoundKo
    <3>3. i \in DOMAIN c.repositories
      BY <3>1, <3>2
    <3>. QED
      BY <2>1, <2>2, <3>1, <3>3, KoOwns
  <2>. HIDE DEF rest
  <2>5. Proceeds(j, rest, "copy") /\ k \notin todo
    BY <1>4, <2>2, <2>3
  <2>. QED
    BY <1>3, <2>4, <2>5
<1>5. ASSUME NEW name \in j.left, CopyImage(j, name), k \notin todo PROVE Owns("ko", k.at, n)
  <2>. DEFINE left == j.left \ {name}
  <2>1. ~Done(j) /\ ~Unfortunate(j, "copy")
    BY <1>1, <1>5 DEF Done, Unfortunate, Breaks
  <2>2. Proceeds(j, left, "copy")
    BY <1>5, <2>1 DEF CopyImage
  <2>3. \A x \in left : Owns("ko", j.at, x)
    BY <1>1 DEF ImageJobs
  <2>. HIDE DEF left
  <2>. QED
    BY <1>3, <1>5, <2>2, <2>3
<1>. QED
  BY <1>2, <1>4, <1>5

LEMMA StepAttests == ASSUME Sound, JoinInv, AttestInv, Step PROVE AttestInv'
<1>1. PICK j \in todo : TapStep(j) \/ ImageStep(j) \/ UploadStep(j)
  BY DEF Step
<1>2. /\ Control /\ stage \in 1..39 /\ stage # 1 /\ SoundJobs /\ SoundPlace
      /\ Separate(cfg, world.koRepo) /\ SoundImages /\ KosSet /\ ImageJobs /\ Keyed
  BY <1>1 DEF Sound, YardInv, Control, AttestInv
<1>3. Framed(j)
  BY <1>1, <1>2, TapFrame, ImageFrame, UploadFrame
<1>4. Unchanging /\ Flow(j)
  BY <1>3 DEF Framed, Basis, Flow, Unchanging
<1>5. Separate(cfg, world.koRepo)' /\ SoundImages' /\ KosSet'
  BY <1>2, <1>4, ConfigurationStays DEF Unchanging
<1>6. Pipe' = Pipe /\ (AtImages' <=> AtImages)
  BY <1>4 DEF Unchanging, Pipe, Publishes, Now, AtImages
<1>7. ASSUME NEW k \in todo' PROVE \E o \in todo : k.at = o.at /\ k.what = o.what
  <2>1. ASSUME NEW left, NEW phase, k = [j EXCEPT !.left = left, !.phase = phase]
        PROVE  k.at = j.at /\ k.what = j.what
    BY <1>2, <2>1 DEF SoundJobs, JobFields
  <2>. QED
    BY <1>4, <1>7, <2>1 DEF Flow
<1>8. ASSUME AtImages PROVE at \in Nat /\ \A k \in todo' : k.at \in DOMAIN cfg[Field(Pipe)]
  BY <1>2, <1>7, <1>8 DEF ImageJobs
<1>9. ASSUME Pipe = "ko", NEW k \in todo', NEW n \in k.left PROVE Owns("ko", k.at, n)
  BY <1>1, <1>2, <1>4, <1>9, KoSteps, KoLeft DEF Unchanging
<1>10. ASSUME stage = 18, NEW k \in todo' PROVE Ready(k.what)
  BY <1>2, <1>7, <1>10 DEF ImageJobs
<1>11. AllImages \subseteq AllImages' /\ \A a \in AllImages' \ AllImages : Makes(j) /\ New(j, a)
  BY <1>1, <1>2, OthersMakeNone, MakersAdd
<1>12. ASSUME NEW a \in ToPush' PROVE Ready(a)
  <2>1. CASE a \in AllImages
    BY <1>2, <2>1 DEF ImageJobs, ToPush
  <2>2. CASE a \notin AllImages
    <3>1. a \in AllImages' /\ a.type = "PublishableDockerImage" /\ New(j, a)
      BY <1>11, <2>2 DEF ToPush
    <3>2. ASSUME PushImage(j) PROVE DOMAIN j.what = DOMAIN Blank
      BY <1>2, <3>2, ImageStages DEF PushImage, JoinInv
    <3>3. BuildImage(j) /\ a \in PublishableImages(Configured[j.at], j.at)
      BY <3>1, <3>2, NewImages DEF New
    <3>4. AtImages /\ Field(Pipe) = "dockers"
      BY <3>3 DEF BuildImage, AtImages, Field
    <3>5. j.at \in DOMAIN cfg.dockers /\ Configured = cfg.dockers
      BY <1>2, <3>4 DEF ImageJobs, Configured
    <3>. QED
      BY <3>3, <3>5, NewImages DEF Ready
  <2>. QED
    BY <2>1, <2>2
<1>13. ImageJobs'
  <2>1. /\ \A a : Ready(a) => Ready(a)'
        /\ \A p, i, n : Owns(p, i, n) => Owns(p, i, n)'
    BY <1>4, ConfigurationStays, OwnsStays DEF Unchanging
  <2>2. AtImages' => at' \in Nat /\ \A k \in todo' : k.at \in DOMAIN cfg'[Field(Pipe')]
    BY <1>4, <1>6, <1>8 DEF Unchanging
  <2>3. Pipe' = "ko" => \A k \in todo' : \A n \in k.left : Owns("ko", k.at, n)'
    BY <1>6, <1>9, <2>1
  <2>4. stage' = 18 => \A k \in todo' : Ready(k.what)'
    BY <1>4, <1>10, <2>1 DEF Unchanging
  <2>5. \A a \in ToPush' : Ready(a)'
    BY <1>12, <2>1
  <2>. QED
    BY <1>6, <2>2, <2>3, <2>4, <2>5 DEF ImageJobs, Field
<1>14. Keyed'
  <2>1. CASE impliedSnapshot(world)
    BY <1>4, <2>1 DEF Keyed, Unchanging
  <2>2. CASE ~impliedSnapshot(world)
    <3>1. Attesting(j)
      BY <1>1, <1>2, <1>4, <2>2 DEF Attesting
    <3>2. CASE Makes(j)
      BY <3>1, <3>2, BuildKeyed, PushKeyed, ManifestKeyed, BuildPushKeyed, KoKeyed DEF Makes
    <3>3. CASE ~Makes(j)
      BY <1>1, <1>2, <1>4, <3>3, OthersMakeNone, KeyedStays DEF Unchanging
    <3>. QED
      BY <3>2, <3>3
  <2>. QED
    BY <2>1, <2>2
<1>. QED
  BY <1>5, <1>13, <1>14 DEF AttestInv

(* Where the configurations, the images and the registry stay.             *)
LEMMA AttestsStay ==
  ASSUME AttestInv, UNCHANGED <<cfg, world, run, registry, arts>>, stage' # 1 => KosSet, ImageJobs'
  PROVE  AttestInv'
<1>1. Separate(cfg, world.koRepo)' /\ SoundImages' /\ (stage' # 1 => KosSet')
  BY ConfigurationStays DEF AttestInv
<1>2. Keyed'
  BY KeyedStays DEF AttestInv, AllImages
<1>. QED
  BY <1>1, <1>2 DEF AttestInv

LEMMA BeginAttests == ASSUME Sound, AttestInv, Begin PROVE AttestInv'
<1>1. /\ UNCHANGED <<cfg, world, run, registry, arts, stage>> /\ ~Setting /\ todo = {} /\ at < Number
      /\ at' = IF AllAtOnce THEN Number ELSE at + 1
      /\ todo' = UNION {JobsOf(i) : i \in (at + 1)..at'}
  BY DEF Begin, fixed, stores
<1>2. stage \in 1..39 /\ SoundImages /\ ImageJobs
  BY DEF Sound, YardInv, Control, AttestInv
<1>3. stage # 1 /\ KosSet
  BY <1>1, <1>2, StageNames DEF AttestInv
<1>4. /\ Pipe' = Pipe /\ (AtImages' <=> AtImages) /\ ToPush' = ToPush
      /\ \A a : Ready(a) <=> Ready(a)'
      /\ \A p, i, n : Owns(p, i, n) <=> Owns(p, i, n)'
  BY <1>1, ConfigurationStays, OwnsStays DEF Pipe, Publishes, Now, AtImages, ToPush, AllImages
<1>5. ASSUME AtImages PROVE at' \in Nat /\ \A k \in todo' : k.at \in DOMAIN cfg[Field(Pipe)]
  <2>. DEFINE f == Field(Pipe)
  <2>1. f \in Sections /\ Configured = cfg[f]
    BY <1>5 DEF AtImages, Field, Sections, Configured
  <2>2. AllAtOnce /\ at' = Number /\ at \in Nat
    BY <1>1, <1>2, <1>5 DEF AtImages, AllAtOnce, ImageJobs
  <2>3. Number \in {0, Len(cfg[f])}
    BY <1>5, <2>1 DEF AtImages, Number, FromArtifacts, Kinds
  <2>4. Number = Len(cfg[f]) /\ Number \in Nat /\ DOMAIN cfg[f] = 1..Number
    <3>1. Len(cfg[f]) \in Nat /\ DOMAIN cfg[f] = 1..Len(cfg[f])
      BY <1>2, <2>1 DEF SoundImages
    <3>. HIDE DEF f
    <3>. QED
      BY <1>1, <2>2, <2>3, <3>1
  <2>5. ASSUME NEW k \in todo' PROVE k.at \in (at + 1)..at'
    BY <1>1, <2>5, NewJobs
  <2>. HIDE DEF f
  <2>6. \A k \in todo' : k.at \in DOMAIN cfg[f]
    BY <2>2, <2>4, <2>5
  <2>. QED
    BY <2>2, <2>4, <2>6 DEF f
<1>6. ASSUME NEW k \in todo' PROVE k.left = {}
  BY <1>1, <1>6, NewJobs
<1>7. ASSUME stage = 18, NEW k \in todo' PROVE Ready(k.what)
  <2>1. Publishes /\ Pipe = "docker"
    BY <1>2, <1>7, ImageStages
  <2>2. k.what \in OfType("PublishableDockerImage")
    BY <1>1, <1>7, <2>1, NewJobs
  <2>3. k.what \in ToPush
    BY <2>2 DEF OfType, ToPush, AllImages, ImageTypes
  <2>. QED
    BY <1>2, <2>3 DEF ImageJobs
<1>8. ImageJobs'
  <2>1. AtImages' => at' \in Nat /\ \A k \in todo' : k.at \in DOMAIN cfg'[Field(Pipe')]
    BY <1>1, <1>4, <1>5
  <2>2. Pipe' = "ko" => \A k \in todo' : \A n \in k.left : Owns("ko", k.at, n)'
    BY <1>6
  <2>3. stage' = 18 => \A k \in todo' : Ready(k.what)'
    BY <1>1, <1>4, <1>7
  <2>4. \A a \in ToPush' : Ready(a)'
    BY <1>2, <1>4 DEF ImageJobs
  <2>. QED
    BY <2>1, <2>2, <2>3, <2>4 DEF ImageJobs, Field
<1>. QED
  BY <1>1, <1>3, <1>8, AttestsStay

LEMMA FinishAttests == ASSUME Sound, AttestInv, Finish PROVE AttestInv'
<1>1. /\ UNCHANGED <<cfg, world, run, registry, arts>> /\ ~Setting /\ todo' = {}
      /\ UNCHANGED <<stage, at>> \/ (stage' = stage + 1 /\ at' = 0)
  BY DEF Finish, GoOn, End, fixed, stores
<1>2. stage \in 1..39 /\ ImageJobs
  BY DEF Sound, YardInv, Control, AttestInv
<1>3. stage # 1 /\ KosSet
  BY <1>1, <1>2, StageNames DEF AttestInv
<1>4. AtImages' => at' \in Nat
  <2>1. CASE UNCHANGED <<stage, at>>
    BY <1>2, <2>1 DEF ImageJobs, AtImages, Pipe, Publishes, Now
  <2>2. CASE at' = 0
    BY <2>2
  <2>. QED
    BY <1>1, <2>1, <2>2
<1>5. \A a \in ToPush' : Ready(a)'
  BY <1>1, <1>2, ConfigurationStays DEF ImageJobs, ToPush, AllImages
<1>6. ImageJobs'
  BY <1>1, <1>4, <1>5 DEF ImageJobs
<1>. QED
  BY <1>1, <1>3, <1>6, AttestsStay

LEMMA SetUpAttests == ASSUME Sound, JoinInv, AttestInv, SetUp PROVE AttestInv'
<1>1. stage = 1 /\ todo = {} /\ at = 0 /\ Setting
  BY StageNames DEF Sound, YardInv, Control, SetUp
<1>2. /\ UNCHANGED <<world, run, todo, at, registry>> /\ arts' = arts \cup {writeMetadata} /\ stage' \in {1, 2}
      /\ \/ UNCHANGED <<cfg, stage>>
         \/ cfg' = Defaults(cfg, world.koRepo) /\ ValidImages(cfg')
  BY <1>1 DEF SetUp, place, stores, DefaultErrs
<1>3. AllImages' = {} /\ ToPush' = {}
  <2>1. AllImages = {}
    BY <1>1 DEF JoinInv
  <2>. QED
    BY <1>2, <2>1, NoImages DEF AllImages, ToPush
<1>4. ImageJobs' /\ Keyed'
  BY <1>1, <1>2, <1>3 DEF ImageJobs, Keyed
<1>5. CASE UNCHANGED <<cfg, stage>>
  <2>1. Separate(cfg, world.koRepo)' /\ SoundImages'
    BY <1>2, <1>5, ConfigurationStays DEF AttestInv
  <2>. QED
    BY <1>1, <1>4, <1>5, <2>1 DEF AttestInv
<1>6. CASE cfg' = Defaults(cfg, world.koRepo) /\ ValidImages(cfg')
  <2>. DEFINE env == world.koRepo
              c == cfg'
  <2>1. SoundImages /\ Separate(cfg, env)
    BY DEF AttestInv
  <2>2. /\ SoundImages' /\ KosSet'
        /\ \A p \in Pushers : /\ DOMAIN c[Field(p)] = DOMAIN cfg[Field(p)]
                              /\ \A i \in DOMAIN cfg[Field(p)] : NamesOf(c, env, p, i) = NamesOf(cfg, env, p, i)
    BY <1>2, <1>6, <2>1, SetUpImages
  <2>. HIDE DEF c, env
  <2>3. Separate(c, env)
    BY <2>1, <2>2 DEF Separate
  <2>. QED
    BY <1>2, <1>4, <2>2, <2>3 DEF AttestInv, c, env
<1>. QED
  BY <1>2, <1>5, <1>6

LEMMA AgainAttests == ASSUME AttestInv, BuiltNoImages, Again PROVE AttestInv'
<1>1. UNCHANGED <<cfg, world>> /\ arts' = built /\ stage' = 1 /\ todo' = {} /\ at' = 0
  BY DEF Again
<1>2. AllImages' = {} /\ ToPush' = {}
  BY <1>1 DEF BuiltNoImages, AllImages, ToPush
<1>3. ImageJobs' /\ Keyed'
  BY <1>1, <1>2 DEF ImageJobs, Keyed
<1>4. Separate(cfg, world.koRepo)' /\ SoundImages'
  BY <1>1, ConfigurationStays DEF AttestInv
<1>. QED
  BY <1>1, <1>3, <1>4 DEF AttestInv

LEMMA RestAttests == ASSUME AttestInv, Crash \/ UNCHANGED vars PROVE AttestInv'
<1>1. UNCHANGED <<cfg, world, run, registry, arts, stage, at, todo>>
  BY DEF Crash, vars, fixed, place, stores
<1>2. /\ Pipe' = Pipe /\ (AtImages' <=> AtImages) /\ ToPush' = ToPush
      /\ \A a : Ready(a) <=> Ready(a)'
      /\ \A p, i, n : Owns(p, i, n) <=> Owns(p, i, n)'
  BY <1>1, ConfigurationStays, OwnsStays DEF Pipe, Publishes, Now, AtImages, ToPush, AllImages
<1>3. ImageJobs
  BY DEF AttestInv
<1>4. ImageJobs'
  BY <1>1, <1>2, <1>3 DEF ImageJobs, Field
<1>. QED
  BY <1>1, <1>4, AttestsStay DEF AttestInv

(* What is written of the images.                                          *)
LEMMA OthersSayNothing ==
  ASSUME NEW j \in todo, TapStep(j) \/ ImageStep(j) \/ UploadStep(j)
  PROVE  UNCHANGED <<digests, signatures>> \/ WriteDigests(j) \/ SignImages(j)
<1>1. CASE TapStep(j)
  BY <1>1 DEF TapStep, Make, StartUnit, PushPackage, OpenClone, Checkout, Commit, Push, CreateFile, OpenPullRequest,
       records
<1>2. CASE ImageStep(j)
  BY <1>2 DEF ImageStep, BuildImage, PushImage, PushManifest, BuildPush, KoBuild, CopyImage, PushSnap, Quiet, records
<1>3. CASE UploadStep(j)
  BY <1>3 DEF UploadStep, Deliver, Refuse, UploadFile, CreateApp, UpdateApp, Release, writeArtifacts,
       PublishServer, CloseMilestone, StartAnnouncing, Request, Elsewhere, records
<1>. QED
  BY <1>1, <1>2, <1>3

Attests == (digests' \ digests) \cup (signatures' \ signatures) \subseteq registry

LEMMA StepTells == ASSUME Sound, AttestInv, Step PROVE Attests
<1>1. PICK j \in todo : TapStep(j) \/ ImageStep(j) \/ UploadStep(j)
  BY DEF Step
<1>2. Control /\ SoundImages /\ ImageJobs /\ Keyed
  BY DEF Sound, YardInv, AttestInv
<1>3. ASSUME ~impliedSnapshot(world), NEW a \in arts, a.type \in InDigests PROVE <<a.name, a.key>> \in registry
  <2>1. a \in AllImages
    BY <1>3 DEF AllImages, ImageTypes
  <2>. QED
    BY <1>2, <1>3, <2>1 DEF Keyed, InRegister
<1>4. CASE WriteDigests(j)
  <2>1. digests' \subseteq digests \cup Digests /\ UNCHANGED signatures /\ ~impliedSnapshot(world)
    BY <1>2, <1>4, AtWork DEF WriteDigests
  <2>2. Digests \subseteq registry
    BY <1>3, <2>1 DEF Digests
  <2>. QED
    BY <2>1, <2>2 DEF Attests
<1>5. CASE SignImages(j)
  <2>. DEFINE s == Configured[j.at]
              signed == {<<a.name, a.key>> : a \in SignedImages(s)}
  <2>1. Pipe = "sign.Docker" /\ ~impliedSnapshot(world)
    BY <1>2, <1>5, AtWork DEF SignImages
  <2>2. s.artifacts \in {"", "all", "images", "manifests", "none"}
    BY <1>2, <2>1 DEF ImageJobs, AtImages, Field, Configured, SoundImages
  <2>3. Signable(s) \subseteq InDigests
    BY <2>2 DEF Signable, InDigests
  <2>4. signed \subseteq registry
    BY <1>3, <2>1, <2>3 DEF SignedImages
  <2>5. signatures' \subseteq signatures \cup signed /\ UNCHANGED digests
    BY <1>5 DEF SignImages
  <2>. QED
    BY <2>4, <2>5 DEF Attests
<1>6. CASE UNCHANGED <<digests, signatures>>
  BY <1>6 DEF Attests
<1>. QED
  BY <1>1, <1>4, <1>5, <1>6, OthersSayNothing

(* What is written to the digests file, or signed, is what the registry    *)
(* has under that name at that time, in whatever order the images were     *)
(* pushed and whatever was refused; where no two configurations push one   *)
(* name.                                                                   *)
THEOREM AttestationsHold == ASSUME ImagesApart PROVE Spec => AttestsWhatIsThere
<1>1. Init => AttestInv
  BY InitAttests
<1>2. Sound /\ JoinInv /\ BuiltNoImages /\ AttestInv /\ [Next]_vars => AttestInv' /\ [Attests]_vars
  <2>. SUFFICES ASSUME Sound, JoinInv, BuiltNoImages, AttestInv, [Next]_vars PROVE AttestInv' /\ [Attests]_vars
    OBVIOUS
  <2>1. CASE Step
    BY <2>1, StepAttests, StepTells
  <2>2. CASE ~Step
    <3>1. AttestInv'
      BY <2>2, BeginAttests, FinishAttests, SetUpAttests, AgainAttests, RestAttests DEF Next
    <3>2. digests' \subseteq digests /\ signatures' \subseteq signatures
      BY <2>2 DEF Next, Begin, Finish, SetUp, Crash, Again, vars, records
    <3>. QED
      BY <3>1, <3>2 DEF Attests
  <2>. QED
    BY <2>1, <2>2
<1>3. Spec => [][Attests]_vars
  BY <1>1, <1>2, AlwaysSound, AlwaysJoins, PTL DEF Spec
<1>. QED
  BY <1>3 DEF AttestsWhatIsThere, Attests

=============================================================================
