-------------------------- MODULE Packaging_proofs --------------------------
(***************************************************************************)
(* From binaries to packages nothing is lost, overwritten or packaged      *)
(* twice, for any configurations, any lists of binaries, any tools and any *)
(* tasks that fail.                                                        *)
(***************************************************************************)
EXTENDS Packaging, FiniteSetTheorems, TLAPS

(* The pipes, by their place.                                              *)
LEMMA StageList ==
  /\ Len(Stages) = 13 /\ DOMAIN Stages = 1..13
  /\ Stages[1] = "defaults" /\ Stages[2] = "universalbinary" /\ Stages[6] = "archive"
  /\ \A i \in 1..13 :
       /\ Stages[i] = "defaults" <=> i = 1
       /\ Stages[i] = "universalbinary" <=> i = 2
       /\ Stages[i] = "archive" <=> i = 6
       /\ Stages[i] = "nfpm" => i > 6
       /\ Stages[i] = "makeself" => i > 6
       /\ Stages[i] = "snapcraft" => i > 6
       /\ Stages[i] = "flatpak" => i > 6
BY DEF Stages

IsTask(t) == t = Task(t.pipe, t.at, t.part, t.bins)

(* The control of a run: tasks under way are of the pipe at work.          *)
Control ==
  /\ stage \in 1..14 /\ failed \in BOOLEAN
  /\ todo # {} => stage \in 2..13
  /\ \A t \in todo : IsTask(t) /\ t.pipe = Stages[stage]

(* Until the defaults are set the list is what was built; from then on the *)
(* configuration is one of those considered, with its defaults, and valid. *)
Ready ==
  IF stage = 1
    THEN /\ arts = built /\ prime = {} /\ at = 0 /\ ~failed
         /\ result = "none" => cfg \in Configs
    ELSE Valid(cfg) /\ \E c \in Configs : cfg = Defaulted(c)
-----------------------------------------------------------------------------
(* What a step of a task leaves alone, and how the task ends.              *)
Ends(t) == (todo' = todo \ {t} /\ failed' = failed) \/ Breaks(t)


(* A task goes on with another part of its work.                           *)
Continues(t, part, bins) ==
  todo' = (todo \ {t}) \cup {[t EXCEPT !.part = part, !.bins = bins]} /\ failed' = failed

LEMMA Endings ==
  ASSUME NEW t
  PROVE  /\ Succeeds(t) => Ends(t)
         /\ Unfortunate(t) => Ends(t)
         /\ Refused(t) => Ends(t)
         /\ \A part, bins : GoesOn(t, part, bins) => Continues(t, part, bins)
BY DEF Succeeds, Unfortunate, Refused, Ends, GoesOn, Continues

(* What the tasks of a pipe add to the list.                               *)
UploadTypes == {"UploadableArchive", "UploadableBinary"}
Exclusive == {"UploadableArchive", "LinuxPackage", "MSIX"}
Product(t, a) ==
  /\ a.type \notin Packaged
  /\ a.type \in UploadTypes => t.pipe = "archive"
  /\ a.type \in Exclusive => a.path \notin files
  /\ a.type \in Packages =>
       \/ t.pipe \in {"archive", "makeself", "flatpak"} /\ a.of \subseteq Paths(t.bins)
       \/ t.pipe = "nfpm" /\ a.of = nfpmContents(cfg.nfpms[t.at], t.bins)
       \/ t.pipe = "snapcraft" /\ a.of \subseteq {x[2] : x \in prime'}
Grows(t) == arts \subseteq arts' /\ \A a \in arts' \ arts : Product(t, a)

(* The directories of snapcraft get the binaries of the task.              *)
Primes(t) == prime' = prime \/ (t.pipe = "snapcraft" /\ \A x \in prime' \ prime : x[2] \in Paths(t.bins))
-----------------------------------------------------------------------------
LEMMA WritesGrows ==
  ASSUME NEW t, NEW path, NEW added, Writes(t, path, added), \A a \in added : Product(t, a)
  PROVE  Ends(t) /\ Grows(t)
<1>1. Ends(t)
  BY Endings DEF Writes
<1>2. arts' = arts \cup added \/ arts' = arts
  BY DEF Writes
<1>. QED
  BY <1>1, <1>2 DEF Grows

LEMMA YieldsGrows == ASSUME NEW t, Yields(t) PROVE Ends(t) /\ Grows(t)
<1>1. Ends(t) /\ arts' = arts
  BY Endings DEF Yields
<1>. QED
  BY <1>1 DEF Grows

(* The fields of what is made.                                             *)
LEMMA ArchiveFields ==
  ASSUME NEW c, NEW f, NEW head, NEW bins
  PROVE  LET a == archiveArtifact(c, f, head, bins) IN
         /\ a.type = "UploadableArchive" /\ a.id = c.id /\ a.format = f
         /\ a.of = Paths(bins)
BY DEF archiveArtifact, Inheriting, MadeOf, Blank

LEMMA SkipFields ==
  \A c, bins : \A a \in skip(c, bins) : \E b \in bins :
    /\ a.type = "UploadableBinary" /\ a.id = c.id /\ a.format = "binary" /\ a.path = b.path
    /\ \A x : x \in a.of <=> x = b.path
    /\ \A d : b \in d => a \in skip(c, d)
<1>. SUFFICES ASSUME NEW c, NEW bins, NEW a \in skip(c, bins)
              PROVE  \E b \in bins : /\ a.type = "UploadableBinary" /\ a.id = c.id /\ a.format = "binary"
                                     /\ a.path = b.path
                                     /\ \A x : x \in a.of <=> x = b.path
                                     /\ \A d : b \in d => a \in skip(c, d)
  OBVIOUS
<1>. DEFINE Up(b) ==
       [Inheriting(b, {b}) EXCEPT !.type = "UploadableBinary", !.id = c.id, !.format = "binary",
          !.name = <<c.template, b.name, PlatformName(b)>>, !.path = b.path]
<1>1. \A B : skip(c, B) = {Up(b) : b \in B}
  BY DEF skip
<1>2. PICK b \in bins : a = Up(b)
  <2>. HIDE DEF Up
  <2>. QED
    BY <1>1
<1>3. /\ Up(b).type = "UploadableBinary" /\ Up(b).id = c.id /\ Up(b).format = "binary"
      /\ Up(b).path = b.path
  BY DEF Inheriting, MadeOf, Blank
<1>4. \A x : x \in Up(b).of <=> x = b.path
  BY DEF Inheriting, MadeOf, Blank, Paths
<1>5. \A d : b \in d => a \in skip(c, d)
  <2>. HIDE DEF Up
  <2>. QED
    BY <1>1, <1>2
<1>. QED
  BY <1>2, <1>3, <1>4, <1>5

LEMMA OtherFields ==
  ASSUME NEW c, NEW f, NEW head, NEW bins, NEW x
  PROVE  /\ nfpmArtifact(c, f, head, bins).type \in {"MSIX", "LinuxPackage"}
         /\ nfpmArtifact(c, f, head, bins).of = nfpmContents(c, bins)
         /\ makeselfArtifact(c, head, bins, x).type = "Makeself"
         /\ makeselfArtifact(c, head, bins, x).of = Paths(bins)
         /\ flatpakArtifact(c, head, bins).type = "Flatpak"
         /\ flatpakArtifact(c, head, bins).of = Paths(bins)
         /\ snapArtifact(head, x).type = "PublishableSnapcraft" /\ snapArtifact(head, x).of = x
         /\ sbomArtifact(c, bins).type = "SBOM" /\ signatureArtifact(c, head).type = "Signature"
         /\ sourceArtifact.type = "UploadableSourceArchive" /\ srpmArtifact.type = "SourceRPM"
BY DEF nfpmArtifact, makeselfArtifact, flatpakArtifact, snapArtifact, sbomArtifact, signatureArtifact,
       sourceArtifact, srpmArtifact, Inheriting, MadeOf, Blank

LEMMA UniversalFields ==
  ASSUME NEW u, NEW head, NEW bins
  PROVE  LET a == Universal(u, head, bins) IN
         /\ a.type = "UniversalBinary" /\ a.path = <<u.id, "darwin_all">>
         /\ a.replaces = u.replace /\ a.of = Paths(bins)
BY DEF Universal, Inheriting, MadeOf, Blank
-----------------------------------------------------------------------------
(* Every task that makes no universal binary ends with its step, and adds  *)
(* what its pipe makes of the artifacts it was given.                      *)
LEMMA OtherStep ==
  ASSUME NEW t, Run(t), t.pipe # "universalbinary"
  PROVE  Steady /\ Ends(t) /\ Grows(t) /\ Primes(t)
<1>1. CASE compressOne(t)
  <2>1. Ends(t) /\ arts' = arts /\ prime' = prime /\ Steady
    BY <1>1, Endings DEF compressOne, dist
  <2>. QED
    BY <2>1 DEF Grows, Primes
<1>2. CASE signBinary(t)
  <2>1. Ends(t) /\ prime' = prime /\ Steady
    BY <1>2, Endings DEF signBinary, dist
  <2>2. \A a \in arts' \ arts : a.type = "Signature"
    <3>1. \A c, b : signatureArtifact(c, b).type = "Signature"
      BY OtherFields
    <3>2. \A a \in arts' \ arts : \E c, b : a = signatureArtifact(c, b)
      BY <1>2 DEF signBinary
    <3>. QED
      BY <3>1, <3>2
  <2>3. arts \subseteq arts'
    BY <1>2 DEF signBinary
  <2>4. ASSUME NEW a \in arts' \ arts PROVE Product(t, a)
    BY <2>2 DEF Product, Packaged, Packages, UploadTypes, Exclusive
  <2>. QED
    BY <2>1, <2>3, <2>4 DEF Grows, Primes
<1>3. CASE signAndNotarize(t)
  <2>1. Ends(t) /\ arts' = arts /\ prime' = prime /\ Steady
    BY <1>3, Endings DEF signAndNotarize, dist
  <2>. QED
    BY <2>1 DEF Grows, Primes
<1>4. CASE createArchive(t)
  <2>1. Primes(t) /\ Steady
    BY <1>4 DEF createArchive, Keeps, Primes
  <2>2. PICK head \in Heads(t) :
          LET a == archiveArtifact(cfg.archives[t.at], t.part, head, t.bins) IN
          IF Taken(a.path) THEN Yields(t) ELSE Writes(t, a.path, {a})
    BY <1>4 DEF createArchive
  <2>. DEFINE a == archiveArtifact(cfg.archives[t.at], t.part, head, t.bins)
  <2>3. t.pipe = "archive" /\ a.type = "UploadableArchive" /\ a.of = Paths(t.bins)
    BY <1>4, ArchiveFields DEF createArchive
  <2>4. (Taken(a.path) /\ Yields(t)) \/ (~Taken(a.path) /\ Writes(t, a.path, {a}))
    BY <2>2
  <2>. HIDE DEF a
  <2>5. CASE Taken(a.path) /\ Yields(t)
    BY <2>1, <2>5, YieldsGrows
  <2>6. CASE ~Taken(a.path) /\ Writes(t, a.path, {a})
    <3>1. Product(t, a)
      BY <2>3, <2>6 DEF Product, Taken, Packaged, Packages, UploadTypes, Exclusive
    <3>. QED
      BY <2>1, <2>6, <3>1, WritesGrows
  <2>. QED
    BY <2>4, <2>5, <2>6
<1>5. CASE UploadAsItIs(t)
  <2>1. Primes(t) /\ Steady /\ Ends(t) /\ t.pipe = "archive"
    BY <1>5, Endings DEF UploadAsItIs, Keeps, Primes
  <2>2. arts' = arts \cup skip(cfg.archives[t.at], t.bins) \/ arts' = arts
    BY <1>5 DEF UploadAsItIs
  <2>3. ASSUME NEW a \in skip(cfg.archives[t.at], t.bins) PROVE Product(t, a)
    <3>1. PICK b \in t.bins : a.type = "UploadableBinary" /\ (\A x : x \in a.of <=> x = b.path)
      <4>1. PICK c : c = cfg.archives[t.at]
        OBVIOUS
      <4>2. a \in skip(c, t.bins)
        BY <2>3, <4>1
      <4>3. \A x \in skip(c, t.bins) : \E b \in t.bins : x.type = "UploadableBinary" /\ (\A y : y \in x.of <=> y = b.path)
        BY SkipFields
      <4>. QED
        BY <4>2, <4>3
    <3>2. a.of \subseteq Paths(t.bins)
      BY <3>1 DEF Paths
    <3>. QED
      BY <2>1, <3>1, <3>2 DEF Product, Packaged, Packages, UploadTypes, Exclusive
  <2>. QED
    BY <2>1, <2>2, <2>3 DEF Grows
<1>6. CASE createPackage(t)
  <2>1. Primes(t) /\ Steady
    BY <1>6 DEF createPackage, Keeps, Primes
  <2>2. PICK head \in t.bins :
          LET a == nfpmArtifact(cfg.nfpms[t.at], t.part, head, t.bins) IN
          IF Taken(a.path) THEN Yields(t) ELSE Writes(t, a.path, {a})
    BY <1>6 DEF createPackage
  <2>. DEFINE a == nfpmArtifact(cfg.nfpms[t.at], t.part, head, t.bins)
  <2>3. /\ t.pipe = "nfpm" /\ a.type \in {"MSIX", "LinuxPackage"}
        /\ a.of = nfpmContents(cfg.nfpms[t.at], t.bins)
    BY <1>6, OtherFields DEF createPackage
  <2>4. (Taken(a.path) /\ Yields(t)) \/ (~Taken(a.path) /\ Writes(t, a.path, {a}))
    BY <2>2
  <2>. HIDE DEF a
  <2>5. CASE Taken(a.path) /\ Yields(t)
    BY <2>1, <2>5, YieldsGrows
  <2>6. CASE ~Taken(a.path) /\ Writes(t, a.path, {a})
    <3>1. Product(t, a)
      BY <2>3, <2>6 DEF Product, Taken, Packaged, Packages, UploadTypes, Exclusive
    <3>. QED
      BY <2>1, <2>6, <3>1, WritesGrows
  <2>. QED
    BY <2>4, <2>5, <2>6
<1>7. CASE createMakeself(t)
  <2>1. Primes(t) /\ Steady /\ t.pipe = "makeself"
    BY <1>7 DEF createMakeself, Keeps, Primes
  <2>2. CASE Yields(t)
    BY <2>1, <2>2, YieldsGrows
  <2>3. CASE ~Yields(t)
    <3>1. PICK head, x :
            LET a == makeselfArtifact(cfg.makeselfs[t.at], head, t.bins, x) IN Writes(t, a.path, {a})
      BY <1>7, <2>3 DEF createMakeself
    <3>. DEFINE a == makeselfArtifact(cfg.makeselfs[t.at], head, t.bins, x)
    <3>2. Writes(t, a.path, {a}) /\ a.type = "Makeself" /\ a.of = Paths(t.bins)
      BY <3>1, OtherFields
    <3>. HIDE DEF a
    <3>3. Product(t, a)
      BY <2>1, <3>2 DEF Product, Packaged, Packages, UploadTypes, Exclusive
    <3>. QED
      BY <2>1, <3>2, <3>3, WritesGrows
  <2>. QED
    BY <2>2, <2>3
<1>8. CASE createSnap(t)
  <2>1. Steady /\ t.pipe = "snapcraft"
    BY <1>8 DEF createSnap
  <2>2. PICK head, dir :
          /\ prime' = prime \cup {<<dir, b.path>> : b \in t.bins}
          /\ Writes(t, dir, IF cfg.snaps[t.at].publish
                            THEN {snapArtifact(head, {x[2] : x \in {y \in prime' : y[1] = dir}})} ELSE {})
    BY <1>8 DEF createSnap
  <2>3. Primes(t)
    BY <2>1, <2>2 DEF Primes, Paths
  <2>. DEFINE contents == {x[2] : x \in {y \in prime' : y[1] = dir}}
              a == snapArtifact(head, contents)
  <2>4. a.type = "PublishableSnapcraft" /\ a.of = contents /\ contents \subseteq {x[2] : x \in prime'}
    BY OtherFields
  <2>5. \E added : Writes(t, dir, added) /\ added \subseteq {a}
    BY <2>2
  <2>. HIDE DEF a, contents
  <2>6. Product(t, a)
    BY <2>1, <2>4 DEF Product, Packaged, Packages, UploadTypes, Exclusive
  <2>7. PICK added : Writes(t, dir, added) /\ added \subseteq {a}
    BY <2>5
  <2>. QED
    BY <2>1, <2>3, <2>6, <2>7, WritesGrows
<1>9. CASE createFlatpak(t)
  <2>1. Primes(t) /\ Steady /\ t.pipe = "flatpak"
    BY <1>9 DEF createFlatpak, Keeps, Primes
  <2>2. PICK head \in t.bins :
          LET a == flatpakArtifact(cfg.flatpaks[t.at], head, t.bins) IN Writes(t, a.path, {a})
    BY <1>9 DEF createFlatpak
  <2>. DEFINE a == flatpakArtifact(cfg.flatpaks[t.at], head, t.bins)
  <2>3. Writes(t, a.path, {a}) /\ a.type = "Flatpak" /\ a.of = Paths(t.bins)
    BY <2>2, OtherFields
  <2>. HIDE DEF a
  <2>4. Product(t, a)
    BY <2>1, <2>3 DEF Product, Packaged, Packages, UploadTypes, Exclusive
  <2>. QED
    BY <2>1, <2>3, <2>4, WritesGrows
<1>10. CASE catalogArtifact(t) \/ sourceArchive(t) \/ createSRPM(t)
  <2>1. Primes(t) /\ Steady
    BY <1>10 DEF catalogArtifact, sourceArchive, createSRPM, Keeps, Primes
  <2>2. PICK a : Writes(t, a.path, {a}) /\ a.type \in {"SBOM", "UploadableSourceArchive", "SourceRPM"}
    <3>1. CASE catalogArtifact(t)
      <4>. DEFINE a == sbomArtifact(cfg.sboms[t.at], t.bins)
      <4>1. Writes(t, a.path, {a})
        BY <3>1 DEF catalogArtifact
      <4>2. a.type = "SBOM"
        BY OtherFields
      <4>. QED
        BY <4>1, <4>2
    <3>2. CASE sourceArchive(t)
      BY <3>2, OtherFields DEF sourceArchive
    <3>3. CASE createSRPM(t)
      BY <3>3, OtherFields DEF createSRPM
    <3>. QED
      BY <1>10, <3>1, <3>2, <3>3
  <2>3. Product(t, a)
    BY <2>2 DEF Product, Packaged, Packages, UploadTypes, Exclusive
  <2>. QED
    BY <2>1, <2>2, <2>3, WritesGrows
<1>11. ~makeUniversalBinary(t) /\ ~addUniversalBinary(t) /\ ~replaceSlices(t)
  BY DEF makeUniversalBinary, addUniversalBinary, replaceSlices
<1>. QED
  BY <1>1, <1>2, <1>3, <1>4, <1>5, <1>6, <1>7, <1>8, <1>9, <1>10, <1>11 DEF Run
-----------------------------------------------------------------------------
(* The three parts of making a universal binary.                           *)
Making(t) ==
  \/ arts' = arts /\ Ends(t) /\ t.part # "add" /\ (t.part = "replace" => Breaks(t))
  \/ /\ t.part = "universalbinary" /\ arts' = arts
     /\ Continues(t, "add", slices(cfg.unibins[t.at]))
  \/ /\ t.part = "add"
     /\ \E u : /\ u.type = "UniversalBinary" /\ u.path = <<cfg.unibins[t.at].id, "darwin_all">>
               /\ u.replaces = cfg.unibins[t.at].replace /\ u.of = Paths(t.bins)
               /\ arts' = arts \cup {u}
     /\ IF cfg.unibins[t.at].replace
          THEN Continues(t, "replace", t.bins) ELSE todo' = todo \ {t} /\ failed' = failed
  \/ /\ t.part = "replace" /\ arts' = arts \ slices(cfg.unibins[t.at])
     /\ todo' = todo \ {t} /\ failed' = failed

LEMMA UniversalStep ==
  ASSUME NEW t, Run(t), t.pipe = "universalbinary"
  PROVE  Steady /\ prime' = prime /\ Making(t)
<1>1. CASE makeUniversalBinary(t)
  <2>1. Steady /\ prime' = prime /\ arts' = arts /\ t.part = "universalbinary"
    BY <1>1 DEF makeUniversalBinary, dist
  <2>. DEFINE bins == slices(cfg.unibins[t.at])
  <2>2. Succeeds(t) \/ Refused(t) \/ Unfortunate(t) \/ GoesOn(t, "add", bins)
    BY <1>1 DEF makeUniversalBinary
  <2>. HIDE DEF bins
  <2>3. Ends(t) \/ Continues(t, "add", bins)
    BY <2>2, Endings
  <2>. QED
    BY <2>1, <2>3 DEF Making, bins
<1>2. CASE addUniversalBinary(t)
  <2>1. Steady /\ prime' = prime /\ t.part = "add"
    BY <1>2 DEF addUniversalBinary
  <2>2. PICK head \in t.bins : arts' = Add(arts, Universal(cfg.unibins[t.at], head, t.bins))
    BY <1>2 DEF addUniversalBinary
  <2>. DEFINE u == Universal(cfg.unibins[t.at], head, t.bins)
  <2>3. /\ u.type = "UniversalBinary" /\ u.path = <<cfg.unibins[t.at].id, "darwin_all">>
        /\ u.replaces = cfg.unibins[t.at].replace /\ u.of = Paths(t.bins)
    BY UniversalFields
  <2>4. arts' = arts \cup {u}
    BY <2>2 DEF Add
  <2>. HIDE DEF u
  <2>5. IF cfg.unibins[t.at].replace THEN GoesOn(t, "replace", t.bins) ELSE Succeeds(t)
    BY <1>2 DEF addUniversalBinary
  <2>6. IF cfg.unibins[t.at].replace
          THEN Continues(t, "replace", t.bins) ELSE todo' = todo \ {t} /\ failed' = failed
    BY <2>5 DEF GoesOn, Continues, Succeeds
  <2>. QED
    BY <2>1, <2>3, <2>4, <2>6 DEF Making
<1>3. CASE replaceSlices(t)
  <2>1. Steady /\ prime' = prime /\ t.part = "replace"
    BY <1>3 DEF replaceSlices, dist
  <2>2. CASE arts' = arts \ Replaced(cfg.unibins[t.at]) /\ Succeeds(t)
    BY <2>1, <2>2 DEF Making, Replaced, Succeeds
  <2>3. CASE Unfortunate(t) /\ arts' = arts
    <3>1. Breaks(t) /\ Ends(t)
      BY <2>3 DEF Unfortunate, Ends
    <3>. QED
      BY <2>1, <2>3, <3>1 DEF Making
  <2>. QED
    BY <1>3, <2>2, <2>3 DEF replaceSlices
<1>4. \/ makeUniversalBinary(t) \/ addUniversalBinary(t) \/ replaceSlices(t)
  BY DEF Run, compressOne, signBinary, signAndNotarize, createArchive, UploadAsItIs, createPackage,
         createMakeself, createSnap, createFlatpak, catalogArtifact, sourceArchive, createSRPM
<1>. QED
  BY <1>1, <1>2, <1>3, <1>4
-----------------------------------------------------------------------------
(* The tasks a pipe turns a configuration into.                            *)
LEMMA TaskFields ==
  \A pipe, i, part, bins :
    LET t == Task(pipe, i, part, bins) IN
    t.pipe = pipe /\ t.at = i /\ t.part = part /\ t.bins = bins /\ IsTask(t)
<1>. SUFFICES ASSUME NEW pipe, NEW i, NEW part, NEW bins
              PROVE  LET t == Task(pipe, i, part, bins) IN
                     t.pipe = pipe /\ t.at = i /\ t.part = part /\ t.bins = bins /\ IsTask(t)
  OBVIOUS
<1>. DEFINE t == Task(pipe, i, part, bins)
<1>1. t.pipe = pipe /\ t.at = i /\ t.part = part /\ t.bins = bins
  BY DEF Task
<1>2. IsTask(t)
  BY <1>1 DEF IsTask
<1>. QED
  BY <1>1, <1>2

LEMMA EachFields ==
  \A pipe, i, part, bins : \A t \in ForEach(pipe, i, part, bins) :
    t.pipe = pipe /\ t.at = i /\ t.part = part /\ IsTask(t)
<1>. SUFFICES ASSUME NEW pipe, NEW i, NEW part, NEW bins, NEW t \in ForEach(pipe, i, part, bins)
              PROVE  t.pipe = pipe /\ t.at = i /\ t.part = part /\ IsTask(t)
  OBVIOUS
<1>1. PICK B : t = Task(pipe, i, part, B)
  BY DEF ForEach
<1>. QED
  BY <1>1, TaskFields

LEMMA TasksMade ==
  ASSUME NEW s, NEW i, NEW t \in TasksOf(s, i)
  PROVE  /\ t.pipe = s /\ t.at = i /\ IsTask(t)
         /\ s = "universalbinary" => t.part = "universalbinary"
<1>1. CASE s = "sign.Binary"
  BY <1>1, EachFields DEF TasksOf
<1>2. CASE s = "upx"
  BY <1>2, EachFields DEF TasksOf, upxTasks
<1>3. CASE s = "notary"
  BY <1>3, EachFields DEF TasksOf, notaryTasks
<1>4. CASE s = "archive"
  <2>1. \E f, g : t = Task("archive", i, f, g)
    BY <1>4 DEF TasksOf, archiveTasks
  <2>. QED
    BY <1>4, <2>1, TaskFields
<1>5. CASE s = "nfpm"
  <2>1. \E f, g : t = Task("nfpm", i, f, g)
    BY <1>5 DEF TasksOf, nfpmTasks
  <2>. QED
    BY <1>5, <2>1, TaskFields
<1>6. CASE s = "makeself"
  <2>1. \E f, g : t = Task("makeself", i, f, g)
    BY <1>6 DEF TasksOf, makeselfTasks
  <2>. QED
    BY <1>6, <2>1, TaskFields
<1>7. CASE s = "snapcraft"
  <2>1. \E f, g : t = Task("snapcraft", i, f, g)
    BY <1>7 DEF TasksOf, snapTasks
  <2>. QED
    BY <1>7, <2>1, TaskFields
<1>8. CASE s = "flatpak"
  <2>1. \E f, g : t = Task("flatpak", i, f, g)
    BY <1>8 DEF TasksOf, flatpakTasks
  <2>. QED
    BY <1>8, <2>1, TaskFields
<1>9. CASE s = "sbom"
  <2>1. sbomTasks(i) \subseteq {Task("sbom", i, "sbom", {})} \cup ForEach("sbom", i, "sbom", catalogued(cfg.sboms[i]))
    BY DEF sbomTasks
  <2>. QED
    BY <1>9, <2>1, EachFields, TaskFields DEF TasksOf
<1>10. CASE s \notin {"sign.Binary", "upx", "notary", "archive", "nfpm", "makeself", "snapcraft", "flatpak", "sbom"}
  <2>1. t = Task(s, i, s, {})
    BY <1>10 DEF TasksOf
  <2>. QED
    BY <2>1, TaskFields
<1>. QED
  BY <1>1, <1>2, <1>3, <1>4, <1>5, <1>6, <1>7, <1>8, <1>9, <1>10

(* A step of the run itself changes neither the list nor what was packed.  *)
Begins ==
  LET s == Stages[stage] IN
  /\ todo = {} /\ ~failed /\ at < Number(s)
  /\ todo' = UNION {TasksOf(s, i) : i \in at + 1..Upto(s)}
  /\ at' = Upto(s) /\ failed' \in BOOLEAN /\ stage' = stage
Aborts == todo = {} /\ UNCHANGED <<todo, stage, at, failed>>
Leaves == ~failed /\ todo = {} /\ at = Number(Stages[stage]) /\ stage' = stage + 1 /\ at' = 0 /\ todo' = {} /\ failed' = failed

LEMMA OwnStep ==
  ASSUME Start \/ Finish
  PROVE  /\ stage # 1 /\ Going /\ UNCHANGED <<settings, cfg, arts, dist>>
         /\ Begins \/ Aborts \/ Leaves
<1>1. stage # 1 /\ Going
  BY StageList DEF Start, Finish, In
<1>2. CASE Start
  <2>1. UNCHANGED <<settings, cfg, arts, dist>>
    BY <1>2 DEF Start
  <2>2. Begins \/ Aborts
    BY <1>2 DEF Start, Begins, Aborts, Fail
  <2>. QED
    BY <1>1, <2>1, <2>2
<1>3. CASE Finish
  <2>1. UNCHANGED <<settings, cfg, arts, dist>>
    BY <1>3 DEF Finish
  <2>2. Aborts \/ Leaves
    BY <1>3 DEF Finish, Leaves, Aborts, Fail, GoOn
  <2>. QED
    BY <1>1, <2>1, <2>2
<1>. QED
  BY <1>2, <1>3
-----------------------------------------------------------------------------
LEMMA TaskExcept ==
  ASSUME NEW t, IsTask(t), NEW part, NEW bins
  PROVE  [t EXCEPT !.part = part, !.bins = bins] = Task(t.pipe, t.at, part, bins)
<1>1. ASSUME NEW p, NEW i, NEW x, NEW y
      PROVE  [Task(p, i, x, y) EXCEPT !.part = part, !.bins = bins] = Task(p, i, part, bins)
  <2>. DEFINE n == [Task(p, i, x, y) EXCEPT !.part = part, !.bins = bins]
              Pin == {p}
              Iin == {i}
              Xin == {part}
              Yin == {bins}
  <2>1. n \in [pipe : Pin, at : Iin, part : Xin, bins : Yin]
    BY DEF Task
  <2>2. n.pipe = p /\ n.at = i /\ n.part = part /\ n.bins = bins
    BY DEF Task
  <2>. HIDE DEF n, Pin, Iin, Xin, Yin
  <2>3. n = [pipe |-> n.pipe, at |-> n.at, part |-> n.part, bins |-> n.bins]
    BY <2>1
  <2>. QED
    BY <2>2, <2>3 DEF Task, n
<1>2. PICK p, i, x, y : p = t.pipe /\ i = t.at /\ x = t.part /\ y = t.bins
  OBVIOUS
<1>3. t = Task(p, i, x, y)
  BY <1>2 DEF IsTask
<1>4. [t EXCEPT !.part = part, !.bins = bins] = Task(p, i, part, bins)
  BY <1>1, <1>3
<1>. QED
  BY <1>2, <1>4

(* Tasks that remain, or go on with the next part of their work.           *)
LEMMA TodoStep ==
  ASSUME Control, NEW t \in todo, Ends(t) \/ \E part, bins : Continues(t, part, bins)
  PROVE  /\ failed' \in BOOLEAN
         /\ \A x \in todo' : IsTask(x) /\ x.pipe = Stages[stage]
<1>1. IsTask(t) /\ t.pipe = Stages[stage] /\ failed \in BOOLEAN
  BY DEF Control
<1>2. CASE Ends(t)
  <2>1. todo' \subseteq todo /\ failed' \in BOOLEAN
    BY <1>1, <1>2 DEF Ends, Breaks
  <2>. QED
    BY <2>1 DEF Control
<1>3. CASE \E part, bins : Continues(t, part, bins)
  <2>1. PICK part, bins : Continues(t, part, bins)
    BY <1>3
  <2>. DEFINE next == [t EXCEPT !.part = part, !.bins = bins]
  <2>2. next = Task(t.pipe, t.at, part, bins)
    BY <1>1, TaskExcept
  <2>3. IsTask(next) /\ next.pipe = t.pipe
    BY <2>2, TaskFields
  <2>4. todo' = (todo \ {t}) \cup {next} /\ failed' = failed
    BY <2>1 DEF Continues
  <2>. HIDE DEF next
  <2>. QED
    BY <1>1, <2>3, <2>4 DEF Control
<1>. QED
  BY <1>2, <1>3

(* The next part of a task.                                                *)
LEMMA NextPart ==
  ASSUME NEW t, IsTask(t), NEW part, NEW bins, Continues(t, part, bins)
  PROVE  \E n : /\ n.pipe = t.pipe /\ n.at = t.at /\ n.part = part /\ n.bins = bins
                /\ todo' = (todo \ {t}) \cup {n} /\ failed' = failed
<1>. DEFINE n == [t EXCEPT !.part = part, !.bins = bins]
<1>1. n = Task(t.pipe, t.at, part, bins)
  BY TaskExcept
<1>2. n.pipe = t.pipe /\ n.at = t.at /\ n.part = part /\ n.bins = bins
  BY <1>1, TaskFields
<1>. QED
  BY <1>2 DEF Continues

(* A task of any pipe.                                                     *)
LEMMA RunStep ==
  ASSUME Control, NEW t \in todo, Run(t)
  PROVE  Steady /\ (Ends(t) \/ \E part, bins : Continues(t, part, bins))
<1>1. CASE t.pipe = "universalbinary"
  <2>1. Steady /\ Making(t)
    BY <1>1, UniversalStep
  <2>2. (todo' = todo \ {t} /\ failed' = failed) => Ends(t)
    BY DEF Ends
  <2>. QED
    BY <2>1, <2>2 DEF Making
<1>. QED
  BY <1>1, OtherStep

LEMMA ControlKept == ASSUME Control, Next PROVE Control'
<1>0. DOMAIN Stages = 1..13 /\ Len(Stages) = 13 /\ stage \in 1..14
  BY StageList DEF Control
<1>1. CASE Defaults
  <2>1. todo' = {} /\ failed' = failed /\ (stage' = stage \/ stage' = stage + 1) /\ Going
    BY <1>1 DEF Defaults, GoOn, Fail, In
  <2>. QED
    BY <1>0, <2>1 DEF Control, Going, Ended
<1>2. CASE Start \/ Finish
  <2>1. stage # 1 /\ Going /\ (Begins \/ Aborts \/ Leaves)
    BY <1>2, OwnStep
  <2>2. stage \in 2..13
    BY <1>0, <2>1 DEF Going, Ended
  <2>3. CASE Begins
    <3>1. stage' = stage /\ failed' \in BOOLEAN /\ \A t \in todo' : IsTask(t) /\ t.pipe = Stages[stage]
      BY <2>3, TasksMade DEF Begins
    <3>. QED
      BY <2>2, <3>1 DEF Control
  <2>4. CASE Aborts \/ Leaves
    <3>1. todo' = {} /\ failed' = failed /\ (stage' = stage \/ stage' = stage + 1)
      BY <2>4 DEF Aborts, Leaves
    <3>. QED
      BY <2>2, <3>1 DEF Control
  <2>. QED
    BY <2>1, <2>3, <2>4
<1>3. CASE \E t \in todo : Run(t)
  <2>1. PICK t \in todo : Run(t)
    BY <1>3
  <2>2. stage' = stage /\ failed' \in BOOLEAN /\ \A x \in todo' : IsTask(x) /\ x.pipe = Stages[stage]
    BY <2>1, RunStep, TodoStep DEF Steady, progress
  <2>. QED
    BY <1>0, <2>1, <2>2 DEF Control
<1>4. CASE Over
  BY <1>4 DEF Over, vars, Control, progress, IsTask
<1>. QED
  BY <1>1, <1>2, <1>3, <1>4 DEF Next

LEMMA ReadyKept == ASSUME Control, Ready, Next PROVE Ready'
<1>0. DOMAIN Stages = 1..13 /\ Len(Stages) = 13 /\ stage \in 1..14
  BY StageList DEF Control
<1>1. CASE Defaults
  <2>1. stage = 1 /\ result = "none"
    BY <1>1, StageList DEF Defaults, In, Going, Ended, Control
  <2>2. UNCHANGED <<arts, built, prime>> /\ cfg' = Defaulted(cfg)
    BY <1>1 DEF Defaults, settings, dist
  <2>3. CASE Valid(cfg')
    <3>1. stage' = 2
      BY <1>1, <2>1, <2>3 DEF Defaults, GoOn
    <3>2. cfg \in Configs
      BY <2>1 DEF Ready
    <3>. QED
      BY <2>2, <2>3, <3>1, <3>2 DEF Ready
  <2>4. CASE ~Valid(cfg')
    <3>1. UNCHANGED <<stage, at, failed>> /\ result' = "err"
      BY <1>1, <2>4 DEF Defaults, Fail
    <3>. QED
      BY <2>1, <2>2, <3>1 DEF Ready
  <2>. QED
    BY <2>3, <2>4
<1>2. CASE Start \/ Finish
  <2>1. stage # 1 /\ Going /\ cfg' = cfg /\ (Begins \/ Aborts \/ Leaves)
    BY <1>2, OwnStep
  <2>2. stage' \in {stage, stage + 1}
    BY <2>1 DEF Begins, Aborts, Leaves
  <2>3. stage' # 1
    BY <1>0, <2>1, <2>2
  <2>. QED
    BY <2>1, <2>3 DEF Ready
<1>3. CASE \E t \in todo : Run(t)
  <2>1. stage # 1 /\ stage' = stage /\ cfg' = cfg
    BY <1>3, RunStep DEF Steady, progress, Control
  <2>. QED
    BY <2>1 DEF Ready
<1>4. CASE Over
  BY <1>4 DEF Over, vars, Ready, progress, settings, dist
<1>. QED
  BY <1>1, <1>2, <1>3, <1>4 DEF Next
-----------------------------------------------------------------------------
(* A task that has read its slices: what is in the list of them now was    *)
(* there when it read, so that it removes nothing it did not bundle. When  *)
(* it is about to remove them, its binary is in the list.                  *)
Sliced(t) ==
  /\ slices(cfg.unibins[t.at]) \subseteq t.bins
  /\ \A b \in t.bins : filterFor(cfg.unibins[t.at], b)
Bundled(t) == \E u \in arts : u.type = "UniversalBinary" /\ u.of = Paths(t.bins)
SoundTask(t) ==
  \/ t.part = "universalbinary"
  \/ t.part = "add" /\ Sliced(t)
  \/ t.part = "replace" /\ Sliced(t) /\ Bundled(t)
OfUnibin(t) == t.pipe = "universalbinary"
SoundSlices == \A t \in todo : OfUnibin(t) => SoundTask(t)

(* Binaries only leave the list, and nothing else does.                    *)
OnlyBinariesLeave ==
  /\ \A a \in arts' \ arts : a.type # "Binary"
  /\ \A a \in arts \ arts' : a.type = "Binary"

LEMMA MakingLeaves ==
  ASSUME NEW t, Making(t) PROVE OnlyBinariesLeave
BY DEF Making, OnlyBinariesLeave, slices, filterFor

LEMMA GrowsLeaves == ASSUME NEW t, Grows(t) PROVE OnlyBinariesLeave
BY DEF Grows, Product, OnlyBinariesLeave, Packaged

LEMMA SoundTaskKept ==
  ASSUME NEW t, SoundTask(t), cfg' = cfg, OnlyBinariesLeave
  PROVE  SoundTask(t)'
<1>1. ASSUME Sliced(t) PROVE Sliced(t)'
  BY <1>1 DEF Sliced, slices, filterFor, OnlyBinariesLeave, ByIDs, autoOr
<1>2. ASSUME Bundled(t) PROVE Bundled(t)'
  <2>1. PICK u \in arts : u.type = "UniversalBinary" /\ u.of = Paths(t.bins)
    BY <1>2 DEF Bundled
  <2>2. u \in arts'
    BY <2>1 DEF OnlyBinariesLeave
  <2>. QED
    BY <2>1, <2>2 DEF Bundled, Paths
<1>. QED
  BY <1>1, <1>2 DEF SoundTask

LEMMA SoundSlicesKept ==
  ASSUME Control, SoundSlices, Next
  PROVE  SoundSlices' /\ (stage # 1 => OnlyBinariesLeave)
<1>1. CASE Defaults
  <2>1. todo' = {} /\ stage = 1
    BY <1>1, StageList DEF Defaults, GoOn, Fail, In, Going, Ended, Control
  <2>. QED
    BY <2>1 DEF SoundSlices
<1>2. CASE Start \/ Finish
  <2>1. arts' = arts /\ (Begins \/ Aborts \/ Leaves)
    BY <1>2, OwnStep
  <2>2. OnlyBinariesLeave
    BY <2>1 DEF OnlyBinariesLeave
  <2>3. \A t \in todo' : OfUnibin(t) => t.part = "universalbinary"
    BY <2>1, TasksMade DEF Begins, Aborts, Leaves, OfUnibin
  <2>. QED
    BY <2>2, <2>3 DEF SoundSlices, SoundTask
<1>3. ASSUME NEW t \in todo, Run(t), ~OfUnibin(t) PROVE SoundSlices' /\ OnlyBinariesLeave
  <2>1. Steady /\ Ends(t) /\ Grows(t)
    BY <1>3, OtherStep DEF OfUnibin
  <2>2. OnlyBinariesLeave /\ cfg' = cfg /\ todo' \subseteq todo
    BY <2>1, GrowsLeaves DEF Steady, Ends, Breaks
  <2>3. \A x \in todo' : OfUnibin(x) => SoundTask(x)'
    BY <2>2, SoundTaskKept DEF SoundSlices
  <2>. QED
    BY <2>2, <2>3 DEF SoundSlices, OfUnibin
<1>4. ASSUME NEW t \in todo, Run(t), OfUnibin(t) PROVE SoundSlices' /\ OnlyBinariesLeave
  <2>0. IsTask(t) /\ SoundTask(t)
    BY <1>4 DEF Control, SoundSlices
  <2>1. Steady /\ Making(t)
    BY <1>4, UniversalStep DEF OfUnibin
  <2>2. OnlyBinariesLeave /\ cfg' = cfg
    BY <2>1, MakingLeaves DEF Steady
  <2>3. \A x \in todo : OfUnibin(x) => SoundTask(x)'
    BY <2>2, SoundTaskKept DEF SoundSlices
  <2>4. CASE todo' \subseteq todo
    BY <2>2, <2>3, <2>4 DEF SoundSlices, OfUnibin
  <2>5. ASSUME Continues(t, "add", slices(cfg.unibins[t.at])), arts' = arts PROVE SoundSlices'
    <3>1. PICK n : /\ n.pipe = t.pipe /\ n.at = t.at /\ n.part = "add"
                   /\ n.bins = slices(cfg.unibins[t.at]) /\ todo' = (todo \ {t}) \cup {n}
      BY <2>0, <2>5, NextPart
    <3>2. Sliced(n)'
      BY <2>2, <2>5, <3>1 DEF Sliced, slices, filterFor, ByIDs, autoOr
    <3>3. SoundTask(n)'
      BY <3>1, <3>2 DEF SoundTask
    <3>. QED
      BY <2>3, <3>1, <3>3 DEF SoundSlices, OfUnibin
  <2>6. ASSUME t.part = "add", Continues(t, "replace", t.bins),
               NEW u, u.type = "UniversalBinary", u.of = Paths(t.bins), u \in arts'
        PROVE  SoundSlices'
    <3>1. PICK n : /\ n.pipe = t.pipe /\ n.at = t.at /\ n.part = "replace"
                   /\ n.bins = t.bins /\ todo' = (todo \ {t}) \cup {n}
      BY <2>0, <2>6, NextPart
    <3>2. Sliced(t)'
      BY <2>0, <2>3, <1>4, <2>6 DEF SoundTask
    <3>3. Sliced(n)'
      BY <3>1, <3>2 DEF Sliced
    <3>4. Bundled(n)'
      BY <2>6, <3>1 DEF Bundled, Paths
    <3>5. SoundTask(n)'
      BY <3>1, <3>3, <3>4 DEF SoundTask
    <3>. QED
      BY <2>3, <3>1, <3>5 DEF SoundSlices, OfUnibin
  <2>7. todo' \subseteq todo
        \/ (Continues(t, "add", slices(cfg.unibins[t.at])) /\ arts' = arts)
        \/ (t.part = "add" /\ Continues(t, "replace", t.bins)
            /\ \E u \in arts' : u.type = "UniversalBinary" /\ u.of = Paths(t.bins))
    BY <2>1 DEF Making, Ends, Breaks
  <2>. QED
    BY <2>2, <2>4, <2>5, <2>6, <2>7
<1>5. CASE Over
  BY <1>5 DEF Over, vars, SoundSlices, SoundTask, Sliced, Bundled, slices, filterFor, OfUnibin, OnlyBinariesLeave
<1>. QED
  BY <1>1, <1>2, <1>3, <1>4, <1>5 DEF Next

(* What is removed is in the binary that is made of it.                    *)
LEMMA RemovedKept ==
  ASSUME Control, SoundSlices, RemovedIsBundled, Next
  PROVE  RemovedIsBundled'
<1>1. ASSUME built' = built, OnlyBinariesLeave, arts \subseteq arts' PROVE RemovedIsBundled'
  BY <1>1 DEF RemovedIsBundled
<1>2. CASE Defaults
  <2>1. built' = built /\ arts' = arts
    BY <1>2 DEF Defaults, settings
  <2>. QED
    BY <1>1, <2>1 DEF OnlyBinariesLeave
<1>3. CASE Start \/ Finish
  <2>1. built' = built /\ arts' = arts
    BY <1>3, OwnStep DEF settings
  <2>. QED
    BY <1>1, <2>1 DEF OnlyBinariesLeave
<1>4. ASSUME NEW t \in todo, Run(t), ~OfUnibin(t) PROVE RemovedIsBundled'
  <2>1. Steady /\ Grows(t)
    BY <1>4, OtherStep DEF OfUnibin
  <2>2. OnlyBinariesLeave /\ built' = built /\ arts \subseteq arts'
    BY <2>1, GrowsLeaves DEF Grows, Steady, settings
  <2>. QED
    BY <1>1, <2>2
<1>5. ASSUME NEW t \in todo, Run(t), OfUnibin(t) PROVE RemovedIsBundled'
  <2>1. Steady /\ Making(t)
    BY <1>5, UniversalStep DEF OfUnibin
  <2>2. OnlyBinariesLeave /\ built' = built
    BY <2>1, MakingLeaves DEF Steady, settings
  <2>3. CASE arts \subseteq arts'
    BY <1>1, <2>2, <2>3
  <2>4. CASE t.part = "replace" /\ arts' = arts \ slices(cfg.unibins[t.at])
    <3>1. Sliced(t) /\ Bundled(t)
      BY <1>5, <2>4 DEF SoundSlices, SoundTask
    <3>2. PICK u \in arts : u.type = "UniversalBinary" /\ u.of = Paths(t.bins)
      BY <3>1 DEF Bundled
    <3>3. u \in arts'
      BY <3>2, <2>2 DEF OnlyBinariesLeave
    <3>4. ASSUME NEW b \in built, b \in arts, b \notin arts' PROVE b.path \in u.of
      <4>1. b \in t.bins
        BY <2>4, <3>1, <3>4 DEF Sliced
      <4>. QED
        BY <3>2, <4>1 DEF Paths
    <3>5. ASSUME NEW b \in built, b \notin arts
          PROVE  \E v \in arts' : v.type = "UniversalBinary" /\ b.path \in v.of
      <4>1. PICK v \in arts : v.type = "UniversalBinary" /\ b.path \in v.of
        BY <3>5 DEF RemovedIsBundled
      <4>. QED
        BY <2>2, <4>1 DEF OnlyBinariesLeave
    <3>. QED
      BY <2>2, <3>2, <3>3, <3>4, <3>5 DEF RemovedIsBundled
  <2>. QED
    BY <2>1, <2>3, <2>4 DEF Making
<1>6. CASE Over
  BY <1>6 DEF Over, vars, RemovedIsBundled, settings
<1>. QED
  BY <1>2, <1>3, <1>4, <1>5, <1>6 DEF Next

(* The invariant on which the others rest.                                 *)
Grounds == Control /\ Ready /\ SoundSlices /\ RemovedIsBundled

LEMMA GroundsInit == ASSUME Init PROVE Grounds
<1>1. /\ stage = 1 /\ todo = {} /\ failed = FALSE /\ arts = built /\ prime = {} /\ at = 0
      /\ cfg \in Configs
  BY DEF Init
<1>2. failed \in BOOLEAN /\ ~failed
  BY <1>1, Zenon
<1>3. stage \in 1..14
  BY <1>1
<1>4. Control /\ SoundSlices
  BY <1>1, <1>2, <1>3, Zenon DEF Control, SoundSlices
<1>5. Ready /\ RemovedIsBundled
  BY <1>1, <1>2 DEF Ready, RemovedIsBundled
<1>. QED
  BY <1>4, <1>5 DEF Grounds


LEMMA GroundsKept == ASSUME Grounds, [Next]_vars PROVE Grounds'
<1>1. CASE Next
  BY <1>1, ControlKept, ReadyKept, SoundSlicesKept, RemovedKept DEF Grounds
<1>2. CASE UNCHANGED vars
  BY <1>2 DEF vars, settings, progress, dist, Grounds, Control, Ready, SoundSlices, RemovedIsBundled,
     SoundTask, Sliced, Bundled, slices, filterFor, OfUnibin, IsTask, ByIDs, autoOr
<1>. QED
  BY <1>1, <1>2

LEMMA GroundsHold == Spec => []Grounds
<1>1. Init => Grounds
  BY GroundsInit
<1>2. Grounds /\ [Next]_vars => Grounds'
  BY GroundsKept
<1>. QED
  BY <1>1, <1>2, PTL DEF Spec

(* No binary is lost: whatever left the list is a slice of a universal     *)
(* binary that is in it, with any tasks failing or reading the list while  *)
(* others remove from it.                                                  *)
THEOREM NothingIsLost == Spec => []RemovedIsBundled
<1>1. Grounds => RemovedIsBundled
  BY DEF Grounds
<1>. QED
  BY <1>1, GroundsHold, PTL

(* No archive and no linux package is written over a file that is there,   *)
(* whatever the names configured and whichever tasks run side by side.     *)
THEOREM NothingWrittenOver == Spec => NothingOverwritten
<1>. DEFINE Apart == \A a \in arts' \ arts : a.type \in Exclusive => a.path \notin files
<1>1. ASSUME [Next]_vars PROVE Apart
  <2>1. ASSUME arts' = arts PROVE Apart
    BY <2>1
  <2>2. CASE Defaults \/ Start \/ Finish \/ Over \/ UNCHANGED vars
    <3>1. arts' = arts
      BY <2>2, OwnStep DEF Defaults, Over, vars
    <3>. QED
      BY <2>1, <3>1
  <2>3. ASSUME NEW t \in todo, Run(t), t.pipe # "universalbinary" PROVE Apart
    <3>1. Grows(t)
      BY <2>3, OtherStep
    <3>. QED
      BY <3>1 DEF Grows, Product
  <2>4. ASSUME NEW t \in todo, Run(t), t.pipe = "universalbinary" PROVE Apart
    <3>1. Making(t)
      BY <2>4, UniversalStep
    <3>. QED
      BY <3>1 DEF Making, Exclusive
  <2>. QED
    BY <1>1, <2>2, <2>3, <2>4 DEF Next
<1>2. Apart <=> \A a \in arts' \ arts : a.type \in {"UploadableArchive", "LinuxPackage", "MSIX"} => a.path \notin files
  BY DEF Exclusive
<1>. HIDE DEF Apart
<1>3. ASSUME [Next]_vars
      PROVE  [\A a \in arts' \ arts : a.type \in {"UploadableArchive", "LinuxPackage", "MSIX"} => a.path \notin files]_vars
  BY <1>1, <1>2, <1>3
<1>. QED
  BY <1>3, PTL DEF Spec, NothingOverwritten
-----------------------------------------------------------------------------
(* The configuration has a universal binary for each index of the list.    *)
LEMMA EachIndexed ==
  ASSUME NEW S, NEW seq \in Seq(S), NEW new, new = [i \in DOMAIN seq |-> new[i]]
  PROVE  Len(new) \in Nat /\ DOMAIN new = 1..Len(new) /\ Len(new) = Len(seq)
<1>1. DOMAIN seq = 1..Len(seq) /\ Len(seq) \in Nat
  OBVIOUS
<1>. DEFINE V == {new[i] : i \in 1..Len(seq)}
<1>2. new \in [1..Len(seq) -> V]
  BY <1>1
<1>. HIDE DEF V
<1>3. new \in Seq(V)
  BY <1>1, <1>2
<1>. QED
  BY <1>1, <1>2, <1>3

LEMMA Indexed ==
  ASSUME Ready, stage # 1
  PROVE  /\ Len(cfg.unibins) \in Nat /\ DOMAIN cfg.unibins = 1..Len(cfg.unibins)
         /\ Len(cfg.archives) \in Nat /\ DOMAIN cfg.archives = 1..Len(cfg.archives)
<1>1. PICK c \in Configs : cfg = Defaulted(c)
  BY DEF Ready
<1>2. c.unibins \in Seq(Config!UniversalBinary) /\ c.archives \in Seq(Config!Archive)
  BY PackagingAssumption DEF Config!Packages
<1>3. cfg.unibins = Each(c.unibins, unibinDefault) /\ cfg.archives = archivesDefault(c.archives)
  BY <1>1 DEF Defaulted
<1>4. Len(cfg.unibins) \in Nat /\ DOMAIN cfg.unibins = 1..Len(cfg.unibins)
  <2>1. cfg.unibins = [i \in DOMAIN c.unibins |-> unibinDefault(c.unibins[i])]
    BY <1>3 DEF Each
  <2>2. cfg.unibins = [i \in DOMAIN c.unibins |-> cfg.unibins[i]]
    BY <2>1
  <2>. QED
    BY <1>2, <2>2, EachIndexed
<1>5. Len(cfg.archives) \in Nat /\ DOMAIN cfg.archives = 1..Len(cfg.archives)
  <2>. DEFINE seq == IF c.archives = <<>> THEN <<NoArchive>> ELSE c.archives
              S == Config!Archive \cup {NoArchive}
  <2>1. seq \in Seq(S)
    <3>1. <<NoArchive>> \in Seq(S) /\ c.archives \in Seq(S)
      BY <1>2
    <3>. QED
      BY <3>1
  <2>2. cfg.archives = [i \in DOMAIN seq |-> archiveDefault(seq[i])]
    BY <1>3 DEF Each, archivesDefault
  <2>. HIDE DEF seq, S
  <2>3. cfg.archives = [i \in DOMAIN seq |-> cfg.archives[i]]
    BY <2>2
  <2>. QED
    BY <2>1, <2>3, EachIndexed
<1>. QED
  BY <1>4, <1>5
-----------------------------------------------------------------------------
(* What the builders leave: binaries and their likes, each in a file of    *)
(* its own, which is not that of a universal binary.                       *)
BuilderTypes == {"Binary", "Header", "CArchive", "CShared", "PyWheel", "PySdist"}
BuiltApart ==
  \A list \in Built :
    /\ \A a \in list : a.type \in BuilderTypes
    /\ \A a, b \in list : a.path = b.path => a = b
    /\ \A a \in list : \A c \in Configs : \A i \in DOMAIN c.unibins :
         a.path # <<unibinDefault(c.unibins[i]).id, "darwin_all">>

(* The artifacts that are packaged, and where they come from.              *)
Packs == {a \in arts : a.type \in Packaged}
UniPath(i) == <<cfg.unibins[i].id, "darwin_all">>
MadeBy(a, i) ==
  /\ a.path = UniPath(i)
  /\ \A t \in todo : OfUnibin(t) /\ t.at = i => t.part = "replace"
Origins ==
  \A a \in Packs :
    \/ a \in built
    \/ /\ a.type = "UniversalBinary" /\ a.of \subseteq Paths(built)
       /\ \E i \in DOMAIN cfg.unibins : MadeBy(a, i)
PathsApart == \A a, b \in Packs : a.path = b.path => a = b

(* One task for each universal binary.                                     *)
OneOfEach ==
  /\ \A t \in todo : OfUnibin(t) =>
       t.at \in DOMAIN cfg.unibins /\ (t.part # "universalbinary" => t.bins \subseteq built)
  /\ \A s, t \in todo : OfUnibin(s) /\ OfUnibin(t) /\ s.at = t.at => s = t

(* The slices of a universal binary that replaces them are out of the list *)
(* once its pipe is past; until then their removal is to come or a task    *)
(* failed, which ends the run.                                             *)
Unspoilt(u) == \A a \in Packs : a.path \notin u.of
Waiting(u) ==
  failed \/ \E t \in todo : OfUnibin(t) /\ t.part = "replace" /\ u.of = Paths(t.bins)
Gone(u) == Unspoilt(u) \/ (stage = 2 /\ Waiting(u))
SlicesGone == \A u \in Packs : u.type = "UniversalBinary" /\ u.replaces => Gone(u)

(* The pipe of universal binaries turns all configurations into tasks at   *)
(* once, and nothing is packaged before it is over.                        *)
AtStart ==
  stage = 2 => \/ at = 0 /\ arts = built /\ todo = {} /\ ~failed
               \/ at = Number("universalbinary")
Early == stage < 3 => prime = {} /\ \A a \in arts : a \in built \/ a.type = "UniversalBinary"

Apart ==
  built \in Built /\ OneOfEach /\ Origins /\ PathsApart /\ SlicesGone /\ AtStart /\ Early

(* A built artifact has not the path of a universal binary.                *)
LEMMA PathOfBuilt ==
  ASSUME BuiltApart, Ready, stage # 1, built \in Built, NEW b \in built, NEW i \in DOMAIN cfg.unibins
  PROVE  b.path # UniPath(i)
<1>1. PICK c \in Configs : cfg = Defaulted(c)
  BY DEF Ready
<1>2. c \in Config!Packages
  BY PackagingAssumption
<1>3. cfg.unibins = [j \in DOMAIN c.unibins |-> unibinDefault(c.unibins[j])]
  BY <1>1, <1>2 DEF Defaulted, Each, Config!Packages
<1>4. b.path # <<unibinDefault(c.unibins[i]).id, "darwin_all">>
  BY <1>3 DEF BuiltApart
<1>. QED
  BY <1>3, <1>4 DEF UniPath

(* Two universal binaries of different configurations are different files. *)
LEMMA PathOfUniversal ==
  ASSUME Ready, stage # 1, NEW i \in DOMAIN cfg.unibins, NEW j \in DOMAIN cfg.unibins, UniPath(i) = UniPath(j)
  PROVE  i = j
<1>1. UniqueIDs(cfg.unibins)
  BY DEF Ready, Valid
<1>2. cfg.unibins[i].id = cfg.unibins[j].id
  BY DEF UniPath
<1>. QED
  BY <1>1, <1>2 DEF UniqueIDs

(* What is packaged stays the same but where universal binaries are made.  *)
LEMMA PacksSteady ==
  ASSUME Control, Next, stage # 2
  PROVE  Packs' = Packs
<1>1. CASE Defaults \/ Start \/ Finish \/ Over
  <2>1. arts' = arts
    BY <1>1, OwnStep DEF Defaults, Over, vars
  <2>. QED
    BY <2>1 DEF Packs
<1>2. ASSUME NEW t \in todo, Run(t) PROVE Packs' = Packs
  <2>1. t.pipe # "universalbinary"
    BY StageList DEF Control
  <2>2. Grows(t)
    BY <1>2, <2>1, OtherStep
  <2>. QED
    BY <2>2 DEF Grows, Product, Packs
<1>. QED
  BY <1>1, <1>2 DEF Next

LEMMA UnibinStage == ASSUME Control, NEW t \in todo, OfUnibin(t) PROVE stage = 2
BY StageList DEF Control, OfUnibin

(* Outside the pipe of universal binaries.                                 *)
LEMMA ApartOutside ==
  ASSUME Control, Control', Apart, Packs' = Packs, built' = built, cfg' = cfg,
         stage # 1, stage' \in 3..14, \A u \in Packs : u.type = "UniversalBinary" /\ u.replaces => Unspoilt(u)
  PROVE  Apart'
<1>1. \A t \in todo' : ~OfUnibin(t)
  <2>1. \A t \in todo' : t.pipe # "universalbinary"
    BY StageList DEF Control
  <2>. QED
    BY <2>1 DEF OfUnibin
<1>2. OneOfEach'
  BY <1>1 DEF OneOfEach, OfUnibin
<1>3. Origins'
  <2>1. \A a, i : MadeBy(a, i) => MadeBy(a, i)'
    BY <1>1 DEF MadeBy, UniPath, OfUnibin
  <2>. QED
    BY <2>1 DEF Apart, Origins, Paths
<1>4. PathsApart' /\ SlicesGone'
  BY DEF Apart, PathsApart, SlicesGone, Gone, Unspoilt
<1>5. AtStart' /\ Early' /\ built' \in Built
  BY DEF AtStart, Early, Apart
<1>. QED
  BY <1>2, <1>3, <1>4, <1>5 DEF Apart

(* Before the first universal binary.                                      *)
LEMMA OnlyBuilt ==
  ASSUME BuiltApart, built \in Built, arts = built
  PROVE  /\ \A a \in Packs : a \in built /\ a.type # "UniversalBinary"
         /\ PathsApart
<1>1. \A a \in Packs : a \in built /\ a.type # "UniversalBinary"
  BY DEF Packs, BuiltApart, BuilderTypes
<1>2. PathsApart
  BY <1>1 DEF BuiltApart, PathsApart
<1>. QED
  BY <1>1, <1>2

LEMMA ApartInit == ASSUME BuiltApart, Init PROVE Apart
<1>1. /\ stage = 1 /\ todo = {} /\ arts = built /\ prime = {} /\ built \in Built
  BY DEF Init
<1>2. Origins /\ PathsApart /\ SlicesGone
  BY <1>1, OnlyBuilt DEF Origins, SlicesGone
<1>3. OneOfEach /\ AtStart /\ Early
  BY <1>1 DEF OneOfEach, AtStart, Early
<1>. QED
  BY <1>1, <1>2, <1>3 DEF Apart

LEMMA ApartDefaults ==
  ASSUME BuiltApart, Control, Ready, Apart, Defaults
  PROVE  Apart'
<1>1. stage = 1 /\ built \in Built
  BY StageList DEF Defaults, In, Going, Ended, Control, Apart
<1>2. arts = built /\ prime = {} /\ at = 0 /\ ~failed
  BY <1>1 DEF Ready
<1>3. arts' = arts /\ built' = built /\ prime' = prime /\ todo' = {} /\ at' = 0
  BY <1>2 DEF Defaults, settings, dist, GoOn, Fail
<1>4. failed' = failed /\ stage' \in {1, 2}
  BY <1>1 DEF Defaults, GoOn, Fail
<1>5. Packs' = Packs /\ \A a \in Packs : a \in built /\ a.type # "UniversalBinary"
  BY <1>1, <1>2, <1>3, OnlyBuilt DEF Packs
<1>6. OneOfEach' /\ Origins' /\ SlicesGone'
  BY <1>3, <1>5 DEF OneOfEach, Origins, SlicesGone
<1>7. PathsApart'
  BY <1>5 DEF PathsApart, Apart
<1>8. AtStart'
  BY <1>2, <1>3, <1>4 DEF AtStart
<1>9. Early'
  BY <1>2, <1>3 DEF Early
<1>. QED
  BY <1>1, <1>3, <1>6, <1>7, <1>8, <1>9 DEF Apart

(* The tasks of universal binaries at their start.                         *)
LEMMA UniversalTasks ==
  \A i : TasksOf("universalbinary", i) = {Task("universalbinary", i, "universalbinary", {})}
BY DEF TasksOf

LEMMA ApartBegins ==
  ASSUME BuiltApart, Control, Ready, Apart, stage = 2, Begins,
         UNCHANGED <<settings, cfg, arts, dist>>
  PROVE  Apart'
<1>1. Len(cfg.unibins) \in Nat /\ DOMAIN cfg.unibins = 1..Len(cfg.unibins)
  BY Indexed
<1>2. Stages[stage] = "universalbinary" /\ Number("universalbinary") = Len(cfg.unibins)
  BY StageList DEF Number, Unskippable
<1>3. at < Len(cfg.unibins) /\ at' = Len(cfg.unibins)
  BY <1>2 DEF Begins, Upto
<1>4. at = 0 /\ arts = built
  BY <1>1, <1>2, <1>3 DEF Apart, AtStart
<1>5. todo' = UNION {TasksOf("universalbinary", i) : i \in 1..Len(cfg.unibins)} /\ stage' = 2
  BY <1>2, <1>4 DEF Begins, Upto
<1>6. \A t \in todo' : \E i \in 1..Len(cfg.unibins) : t = Task("universalbinary", i, "universalbinary", {})
  BY <1>5, UniversalTasks
<1>7. \A t \in todo' : /\ t.at \in DOMAIN cfg.unibins /\ t.part = "universalbinary"
                       /\ t = Task("universalbinary", t.at, "universalbinary", {})
  BY <1>1, <1>6, TaskFields
<1>8. OneOfEach'
  BY <1>7 DEF OneOfEach
<1>9. Packs' = Packs /\ built' = built /\ prime' = prime /\ cfg' = cfg
  BY DEF Packs, settings, dist
<1>10. \A a \in Packs : a \in built /\ a.type # "UniversalBinary"
  BY <1>4, OnlyBuilt DEF Apart
<1>11. Origins' /\ SlicesGone' /\ PathsApart'
  BY <1>9, <1>10 DEF Origins, SlicesGone, Apart, PathsApart
<1>12. AtStart'
  BY <1>2, <1>3, <1>9 DEF AtStart, Number, Unskippable
<1>13. Early'
  BY <1>9, <1>5 DEF Apart, Early
<1>. QED
  BY <1>8, <1>9, <1>11, <1>12, <1>13 DEF Apart

LEMMA ApartSame ==
  ASSUME Apart, UNCHANGED <<settings, cfg, arts, dist, todo, stage, at, failed>>
  PROVE  Apart'
<1>1. Packs' = Packs /\ built' = built
  BY DEF Packs, settings
<1>2. OneOfEach' /\ PathsApart' /\ AtStart' /\ Early'
  BY <1>1 DEF OneOfEach, PathsApart, Apart, OfUnibin, AtStart, Early, Number, Unskippable, dist
<1>3. Origins'
  BY <1>1 DEF Origins, Apart, MadeBy, UniPath, Paths, OfUnibin
<1>4. SlicesGone'
  BY <1>1 DEF SlicesGone, Apart, Gone, Unspoilt, Waiting, OfUnibin, Paths
<1>. QED
  BY <1>1, <1>2, <1>3, <1>4 DEF Apart

(* The pipe of universal binaries is over.                                 *)
LEMMA ApartLeaves ==
  ASSUME Control, Control', Apart, Leaves, stage # 1, UNCHANGED <<settings, cfg, arts, dist>>
  PROVE  Apart'
<1>1. Packs' = Packs /\ built' = built /\ cfg' = cfg
  BY DEF Packs, settings
<1>2. stage' \in 3..14
  BY DEF Control, Leaves
<1>3. ASSUME NEW u \in Packs, u.type = "UniversalBinary", u.replaces PROVE Unspoilt(u)
  BY <1>3 DEF Apart, SlicesGone, Gone, Waiting, Leaves
<1>. QED
  BY <1>1, <1>2, <1>3, ApartOutside
-----------------------------------------------------------------------------
(* A step of a universal binary that leaves the list alone.                *)
LEMMA ApartQuiet ==
  ASSUME Control, Apart, NEW t \in todo, OfUnibin(t), Steady, prime' = prime, arts' = arts,
         Ends(t), t.part # "add", t.part = "replace" => Breaks(t)
  PROVE  Apart'
<1>1. /\ Packs' = Packs /\ built' = built /\ cfg' = cfg /\ stage' = stage /\ at' = at
      /\ stage = 2 /\ todo' \subseteq todo
  BY UnibinStage DEF Packs, Steady, settings, progress, Ends, Breaks
<1>2. failed' = failed \/ failed' = TRUE
  BY DEF Ends, Breaks
<1>3. at = Number("universalbinary")
  BY <1>1 DEF Apart, AtStart
<1>4. AtStart' /\ Early'
  BY <1>1, <1>3 DEF AtStart, Early, Apart, Number, Unskippable
<1>5. OneOfEach' /\ PathsApart'
  BY <1>1 DEF OneOfEach, PathsApart, Apart, OfUnibin
<1>6. Origins'
  BY <1>1 DEF Origins, Apart, MadeBy, UniPath, Paths, OfUnibin
<1>7. ASSUME NEW u, Waiting(u) PROVE Waiting(u)'
  <2>1. CASE failed' = TRUE
    BY <2>1 DEF Waiting
  <2>2. CASE ~(failed' = TRUE)
    <3>1. todo' = todo \ {t} /\ failed' = failed /\ t.part # "replace"
      BY <2>2 DEF Ends, Breaks
    <3>. QED
      BY <1>7, <3>1 DEF Waiting, OfUnibin, Paths
  <2>. QED
    BY <2>1, <2>2
<1>8. SlicesGone'
  BY <1>1, <1>7 DEF SlicesGone, Apart, Gone, Unspoilt
<1>. QED
  BY <1>1, <1>4, <1>5, <1>6, <1>8 DEF Apart

(* A universal binary has read its slices.                                 *)
LEMMA ApartReads ==
  ASSUME Control, Apart, NEW t \in todo, OfUnibin(t), Steady, prime' = prime, arts' = arts,
         t.part = "universalbinary", Continues(t, "add", slices(cfg.unibins[t.at]))
  PROVE  Apart'
<1>1. /\ Packs' = Packs /\ built' = built /\ cfg' = cfg /\ stage' = stage /\ at' = at
      /\ stage = 2 /\ IsTask(t)
  BY UnibinStage DEF Packs, Steady, settings, progress, Control
<1>2. PICK n : /\ n.pipe = t.pipe /\ n.at = t.at /\ n.part = "add"
               /\ n.bins = slices(cfg.unibins[t.at]) /\ todo' = (todo \ {t}) \cup {n} /\ failed' = failed
  BY <1>1, NextPart
<1>3. at = Number("universalbinary")
  BY <1>1 DEF Apart, AtStart
<1>4. AtStart' /\ Early'
  BY <1>1, <1>3 DEF AtStart, Early, Apart, Number, Unskippable
<1>5. OneOfEach'
  <2>1. n.bins \subseteq built
    BY <1>1, <1>2 DEF slices, filterFor, Apart, Early
  <2>. QED
    BY <1>1, <1>2, <2>1 DEF OneOfEach, Apart, OfUnibin
<1>6. PathsApart'
  BY <1>1 DEF PathsApart, Apart
<1>7. Origins'
  <2>1. ASSUME NEW a \in Packs, NEW i, MadeBy(a, i) PROVE MadeBy(a, i)'
    <3>1. i # t.at
      BY <2>1 DEF MadeBy
    <3>. QED
      BY <1>1, <1>2, <2>1, <3>1 DEF MadeBy, UniPath, OfUnibin
  <2>. QED
    BY <1>1, <2>1 DEF Origins, Apart, Paths
<1>8. ASSUME NEW u, Waiting(u) PROVE Waiting(u)'
  BY <1>1, <1>2, <1>8 DEF Waiting, OfUnibin, Paths
<1>9. SlicesGone'
  BY <1>1, <1>8 DEF SlicesGone, Apart, Gone, Unspoilt
<1>. QED
  BY <1>1, <1>4, <1>5, <1>6, <1>7, <1>9 DEF Apart

(* The universal binary joins the list, with a path of its own.            *)
LEMMA ApartAdds ==
  ASSUME BuiltApart, Control, Ready, Apart, NEW t \in todo, OfUnibin(t), Steady, prime' = prime,
         t.part = "add",
         NEW u, u.type = "UniversalBinary", u.path = UniPath(t.at),
         u.replaces = cfg.unibins[t.at].replace, u.of = Paths(t.bins), arts' = arts \cup {u},
         IF cfg.unibins[t.at].replace
           THEN Continues(t, "replace", t.bins) ELSE todo' = todo \ {t} /\ failed' = failed
  PROVE  Apart'
<1>1. /\ Packs' = Packs \cup {u} /\ built' = built /\ cfg' = cfg /\ stage' = stage /\ at' = at
      /\ stage = 2 /\ IsTask(t)
  <2>1. Packs' = Packs \cup {u}
    BY DEF Packs, Packaged
  <2>. QED
    BY <2>1, UnibinStage DEF Steady, settings, progress, Control
<1>2. \/ todo' = todo \ {t} /\ failed' = failed /\ ~u.replaces
      \/ \E n : /\ n.pipe = t.pipe /\ n.at = t.at /\ n.part = "replace" /\ n.bins = t.bins
                /\ todo' = (todo \ {t}) \cup {n} /\ failed' = failed
  <2>1. CASE cfg.unibins[t.at].replace
    BY <1>1, <2>1, NextPart
  <2>2. CASE ~cfg.unibins[t.at].replace
    BY <2>2
  <2>. QED
    BY <2>1, <2>2
<1>3. at = Number("universalbinary") /\ t.at \in DOMAIN cfg.unibins /\ t.bins \subseteq built
  BY <1>1 DEF Apart, AtStart, OneOfEach
<1>4. AtStart' /\ Early'
  BY <1>1, <1>3 DEF AtStart, Early, Apart, Number, Unskippable
<1>5. OneOfEach'
  BY <1>1, <1>2, <1>3 DEF OneOfEach, Apart, OfUnibin
<1>6. ASSUME NEW a \in Packs PROVE a.path # u.path
  <2>1. CASE a \in built
    BY <1>1, <1>3, <2>1, PathOfBuilt DEF Apart
  <2>2. ASSUME NEW i \in DOMAIN cfg.unibins, MadeBy(a, i) PROVE a.path # u.path
    <3>1. i # t.at
      BY <2>2 DEF MadeBy
    <3>. QED
      BY <1>1, <1>3, <2>2, <3>1, PathOfUniversal DEF MadeBy
  <2>. QED
    BY <2>1, <2>2 DEF Apart, Origins
<1>7. PathsApart'
  BY <1>1, <1>6 DEF PathsApart, Apart
<1>8. ASSUME NEW a, NEW i, MadeBy(a, i) PROVE MadeBy(a, i)'
  BY <1>1, <1>2, <1>8 DEF MadeBy, UniPath, OfUnibin
<1>9. MadeBy(u, t.at)'
  <2>1. \A x \in todo : OfUnibin(x) /\ x.at = t.at => x = t
    BY DEF Apart, OneOfEach
  <2>2. \A x \in todo' : OfUnibin(x) /\ x.at = t.at => x.part = "replace"
    BY <1>2, <2>1
  <2>. QED
    BY <1>1, <2>2 DEF MadeBy, UniPath, OfUnibin
<1>10. u.of \subseteq Paths(built)
  BY <1>3 DEF Paths
<1>11. Origins'
  BY <1>1, <1>3, <1>8, <1>9, <1>10 DEF Origins, Apart, Paths
<1>12. ASSUME NEW v, Waiting(v) PROVE Waiting(v)'
  BY <1>1, <1>2, <1>12 DEF Waiting, OfUnibin, Paths
<1>13. u.replaces => Waiting(u)'
  BY <1>2 DEF Waiting, OfUnibin, Paths
<1>14. ASSUME NEW v \in Packs, v.type = "UniversalBinary", Unspoilt(v) PROVE Unspoilt(v)'
  <2>1. v.of \subseteq Paths(built)
    <3>1. v \notin built
      BY <1>14 DEF Apart, BuiltApart, BuilderTypes
    <3>. QED
      BY <3>1 DEF Apart, Origins
  <2>2. u.path \notin v.of
    <3>1. \A b \in built : b.path # u.path
      BY <1>1, <1>3, PathOfBuilt DEF Apart
    <3>. QED
      BY <2>1, <3>1 DEF Paths
  <2>. QED
    BY <1>1, <1>14, <2>2 DEF Unspoilt
<1>15. SlicesGone'
  BY <1>1, <1>12, <1>13, <1>14 DEF SlicesGone, Apart, Gone
<1>. QED
  BY <1>1, <1>4, <1>5, <1>7, <1>11, <1>15 DEF Apart

(* Its slices leave the list, and nothing of the list is at their paths.   *)
LEMMA ApartReplaces ==
  ASSUME BuiltApart, Control, Ready, Apart, SoundSlices, NEW t \in todo, OfUnibin(t), Steady,
         prime' = prime, t.part = "replace", arts' = arts \ slices(cfg.unibins[t.at]),
         todo' = todo \ {t}, failed' = failed
  PROVE  Apart'
<1>1. /\ Packs' \subseteq Packs /\ built' = built /\ cfg' = cfg /\ stage' = stage /\ at' = at /\ stage = 2
  BY UnibinStage DEF Packs, Steady, settings, progress
<1>2. at = Number("universalbinary") /\ t.at \in DOMAIN cfg.unibins /\ t.bins \subseteq built /\ Sliced(t)
  BY <1>1 DEF Apart, AtStart, OneOfEach, SoundSlices, SoundTask
<1>3. AtStart' /\ Early'
  BY <1>1, <1>2 DEF AtStart, Early, Apart, Number, Unskippable
<1>4. OneOfEach' /\ PathsApart'
  BY <1>1 DEF OneOfEach, PathsApart, Apart, OfUnibin
<1>5. Origins'
  <2>1. ASSUME NEW a, NEW i, MadeBy(a, i) PROVE MadeBy(a, i)'
    BY <1>1, <2>1 DEF MadeBy, UniPath, OfUnibin
  <2>. QED
    BY <1>1, <2>1 DEF Origins, Apart, Paths
<1>6. ASSUME NEW a \in Packs', NEW b \in t.bins PROVE a.path # b.path
  <2>1. CASE a \in built
    <3>1. a.path = b.path => a = b
      BY <1>2, <2>1 DEF Apart, BuiltApart
    <3>2. a # b
      BY <1>2 DEF Sliced, slices, Packs
    <3>. QED
      BY <3>1, <3>2
  <2>2. ASSUME NEW i \in DOMAIN cfg.unibins, MadeBy(a, i) PROVE a.path # b.path
    BY <1>1, <1>2, <2>2, PathOfBuilt DEF Apart, MadeBy
  <2>. QED
    BY <1>1, <2>1, <2>2 DEF Apart, Origins
<1>7. ASSUME NEW u, Waiting(u) PROVE Waiting(u)' \/ Unspoilt(u)'
  <2>1. CASE u.of = Paths(t.bins)
    BY <1>6, <2>1 DEF Unspoilt, Paths
  <2>2. CASE u.of # Paths(t.bins)
    BY <1>7, <2>2 DEF Waiting, OfUnibin, Paths
  <2>. QED
    BY <2>1, <2>2
<1>8. SlicesGone'
  BY <1>1, <1>7 DEF SlicesGone, Apart, Gone, Unspoilt
<1>. QED
  BY <1>1, <1>3, <1>4, <1>5, <1>8 DEF Apart

LEMMA ApartKept ==
  ASSUME BuiltApart, Control, Control', Ready, SoundSlices, Apart, [Next]_vars
  PROVE  Apart'
<1>1. CASE UNCHANGED vars \/ Over
  <2>1. UNCHANGED <<settings, cfg, arts, dist, todo, stage, at, failed>>
    BY <1>1 DEF vars, Over, progress
  <2>. QED
    BY <2>1, ApartSame
<1>2. CASE Defaults
  BY <1>2, ApartDefaults
<1>3. CASE Start \/ Finish
  <2>1. stage # 1 /\ UNCHANGED <<settings, cfg, arts, dist>> /\ (Begins \/ Aborts \/ Leaves)
    BY <1>3, OwnStep
  <2>2. CASE Aborts
    BY <2>1, <2>2, ApartSame DEF Aborts
  <2>3. CASE Leaves
    BY <2>1, <2>3, ApartLeaves
  <2>4. CASE Begins /\ stage = 2
    BY <2>1, <2>4, ApartBegins
  <2>5. CASE Begins /\ stage # 2
    <3>1. Packs' = Packs /\ built' = built /\ cfg' = cfg /\ stage' \in 3..14
      BY <2>1, <2>5 DEF Packs, settings, Begins, Control
    <3>2. \A u \in Packs : u.type = "UniversalBinary" /\ u.replaces => Unspoilt(u)
      BY <2>5 DEF Apart, SlicesGone, Gone
    <3>. QED
      BY <2>1, <3>1, <3>2, ApartOutside
  <2>. QED
    BY <2>1, <2>2, <2>3, <2>4, <2>5
<1>4. ASSUME NEW t \in todo, Run(t), ~OfUnibin(t) PROVE Apart'
  <2>1. Steady
    BY <1>4, RunStep
  <2>2. stage # 1 /\ stage # 2
    BY <1>4, StageList DEF Control, OfUnibin
  <2>3. Packs' = Packs
    BY <1>4, <2>2, PacksSteady DEF Next
  <2>4. built' = built /\ cfg' = cfg /\ stage' \in 3..14
    BY <2>1, <2>2 DEF Steady, settings, progress, Control
  <2>5. \A u \in Packs : u.type = "UniversalBinary" /\ u.replaces => Unspoilt(u)
    BY <2>2 DEF Apart, SlicesGone, Gone
  <2>. QED
    BY <2>2, <2>3, <2>4, <2>5, ApartOutside
<1>5. ASSUME NEW t \in todo, Run(t), OfUnibin(t) PROVE Apart'
  <2>1. Steady /\ prime' = prime /\ Making(t)
    BY <1>5, UniversalStep DEF OfUnibin
  <2>2. CASE arts' = arts /\ Ends(t) /\ t.part # "add" /\ (t.part = "replace" => Breaks(t))
    BY <1>5, <2>1, <2>2, ApartQuiet
  <2>3. CASE /\ t.part = "universalbinary" /\ arts' = arts
             /\ Continues(t, "add", slices(cfg.unibins[t.at]))
    BY <1>5, <2>1, <2>3, ApartReads
  <2>4. CASE /\ t.part = "add"
             /\ \E u : /\ u.type = "UniversalBinary" /\ u.path = <<cfg.unibins[t.at].id, "darwin_all">>
                       /\ u.replaces = cfg.unibins[t.at].replace /\ u.of = Paths(t.bins)
                       /\ arts' = arts \cup {u}
             /\ IF cfg.unibins[t.at].replace
                  THEN Continues(t, "replace", t.bins) ELSE todo' = todo \ {t} /\ failed' = failed
    <3>1. PICK u : /\ u.type = "UniversalBinary" /\ u.path = <<cfg.unibins[t.at].id, "darwin_all">>
                   /\ u.replaces = cfg.unibins[t.at].replace /\ u.of = Paths(t.bins)
                   /\ arts' = arts \cup {u}
      BY <2>4
    <3>2. u.path = UniPath(t.at)
      BY <3>1 DEF UniPath
    <3>. QED
      BY <1>5, <2>1, <2>4, <3>1, <3>2, ApartAdds
  <2>5. CASE /\ t.part = "replace" /\ arts' = arts \ slices(cfg.unibins[t.at])
             /\ todo' = todo \ {t} /\ failed' = failed
    BY <1>5, <2>1, <2>5, ApartReplaces
  <2>. QED
    BY <2>1, <2>2, <2>3, <2>4, <2>5 DEF Making
<1>. QED
  BY <1>1, <1>2, <1>3, <1>4, <1>5 DEF Next
-----------------------------------------------------------------------------
(* Artifacts that may be packaged together.                                *)
Match(a, b) ==
  /\ a.goos = b.goos /\ a.goarch = b.goarch
  /\ \A f \in VariantFields : a.variant[f] = b.variant[f] \/ NoVariant \in {a.variant[f], b.variant[f]}
Alike(g) == \A a, b \in g : Match(a, b)

LEMMA FiniteFilter ==
  ASSUME NEW X, NEW Y, IsFiniteSet(X), Y \subseteq X PROVE IsFiniteSet(Y)
BY FS_Subset

(* A set of at most one value, by its cardinality.                         *)
LEMMA AtMostOne ==
  ASSUME NEW S, IsFiniteSet(S), ~(Cardinality(S) > 1), NEW x \in S, NEW y \in S
  PROVE  x = y
<1>1. SUFFICES ASSUME x # y PROVE FALSE
  OBVIOUS
<1>2. {x, y} \subseteq S
  OBVIOUS
<1>3. Cardinality({x}) = 1 /\ IsFiniteSet({x})
  BY FS_Singleton
<1>4. y \notin {x} /\ {x, y} = {x} \cup {y}
  BY <1>1
<1>5. Cardinality({x} \cup {y}) = Cardinality({x}) + 1
  BY <1>3, <1>4, FS_AddElement
<1>6. Cardinality({x, y}) <= Cardinality(S) /\ Cardinality(S) \in Nat
  BY <1>2, FS_Subset, FS_CardinalityType
<1>. QED
  BY <1>3, <1>4, <1>5, <1>6

(* GroupByPlatform: a group is of the list, and of one platform.           *)
LEMMA GroupOf ==
  ASSUME NEW X, NEW g \in GroupByPlatform(X)
  PROVE  /\ g \subseteq X /\ \E b \in X : b \in g
         /\ \A a \in g, b \in X : b \in g <=> Key(b, X) = Key(a, X)
<1>1. PICK k \in Platforms(X) : g = Group(X, k)
  BY DEF GroupByPlatform
<1>2. PICK b \in X : k = Key(b, X)
  BY <1>1 DEF Platforms
<1>. QED
  BY <1>1, <1>2 DEF Group

LEMMA GroupAlike ==
  ASSUME NEW X, IsFiniteSet(X), NEW g \in GroupByPlatform(X)
  PROVE  Alike(g)
<1>1. SUFFICES ASSUME NEW a \in g, NEW b \in g PROVE Match(a, b)
  BY DEF Alike
<1>2. a \in X /\ b \in X /\ Key(a, X) = Key(b, X)
  BY GroupOf
<1>3. CASE Specific(X)
  <2>1. Full(a) = Full(b)
    BY <1>2, <1>3 DEF Key
  <2>2. a.goos = b.goos /\ a.goarch = b.goarch /\ a.variant = b.variant
    BY <2>1 DEF Full
  <2>. QED
    BY <2>2 DEF Match
<1>4. CASE ~Specific(X)
  <2>1. Simple(a) = Simple(b)
    BY <1>2, <1>4 DEF Key
  <2>2. a.goos = b.goos /\ a.goarch = b.goarch
    BY <2>1 DEF Simple
  <2>3. ASSUME NEW f \in VariantFields, a.variant[f] # NoVariant, b.variant[f] # NoVariant
        PROVE  a.variant[f] = b.variant[f]
    <3>. DEFINE S == nonEmpty(X, f)
                W == {x.variant[f] : x \in X}
    <3>1. IsFiniteSet(W)
      <4>. DEFINE h == [x \in X |-> x.variant[f]]
      <4>1. h \in Surjection(X, W)
        BY DEF Surjection
      <4>. HIDE DEF h, W
      <4>. QED
        BY <4>1, FS_Surjection
    <3>2. S \subseteq W /\ a.variant[f] \in S /\ b.variant[f] \in S
      BY <1>2, <2>3 DEF nonEmpty
    <3>3. ~(Cardinality(S) > 1)
      BY <1>4 DEF Specific
    <3>. HIDE DEF S, W
    <3>4. IsFiniteSet(S)
      BY <3>1, <3>2, FS_Subset
    <3>. QED
      BY <3>2, <3>3, <3>4, AtMostOne
  <2>4. ASSUME NEW f \in VariantFields
        PROVE  a.variant[f] = b.variant[f] \/ NoVariant \in {a.variant[f], b.variant[f]}
    BY <2>3
  <2>. QED
    BY <2>2, <2>4 DEF Match
<1>. QED
  BY <1>3, <1>4

(* What the packagers select is packaged.                                  *)
LEMMA OfTypes == \A a, in : in # {} /\ ByTypes(a, in) => a.type \in in
BY DEF ByTypes, autoOr

LEMMA Selected ==
  ASSUME NEW c
  PROVE  /\ archived(c) \subseteq Packs /\ selfExtracting(c) \subseteq Packs
         /\ snapped(c) \subseteq Packs /\ bundled(c) \subseteq Packs
<1>1. archived(c) \subseteq Packs /\ selfExtracting(c) \subseteq Packs
  <2>1. Packaged # {}
    BY DEF Packaged
  <2>. QED
    BY <2>1, OfTypes DEF archived, selfExtracting, Packs
<1>2. snapped(c) \subseteq Packs /\ bundled(c) \subseteq Packs
  BY DEF snapped, bundled, Packs, Packaged
<1>. QED
  BY <1>1, <1>2

(* A task that packages: its artifacts are in the list and go together.    *)
Packers == {"archive", "nfpm", "makeself", "snapcraft", "flatpak"}
Meta(t) == t.pipe = "nfpm" /\ cfg.nfpms[t.at].meta
Fit(g) == g \subseteq Packs /\ Alike(g)

LEMMA FitTasks ==
  ASSUME IsFiniteSet(Packs), NEW s \in Packers, NEW i, NEW t \in TasksOf(s, i)
  PROVE  Fit(t.bins) \/ Meta(t)
<1>1. ASSUME NEW X, X \subseteq Packs, NEW g \in GroupByPlatform(X) PROVE Fit(g)
  <2>1. IsFiniteSet(X)
    BY <1>1, FS_Subset
  <2>. QED
    BY <1>1, <2>1, GroupOf, GroupAlike DEF Fit
<1>2. Fit({})
  BY DEF Fit, Alike
<1>3. CASE s = "archive"
  <2>1. PICK f, g : t = Task("archive", i, f, g) /\ (g = {} \/ g \in GroupByPlatform(archived(cfg.archives[i])))
    BY <1>3 DEF TasksOf, archiveTasks
  <2>2. archived(cfg.archives[i]) \subseteq Packs
    BY Selected
  <2>3. Fit(g)
    BY <1>1, <1>2, <2>1, <2>2
  <2>. QED
    BY <2>1, <2>3, TaskFields
<1>4. CASE s = "nfpm"
  <2>. DEFINE c == cfg.nfpms[i]
              X == {a \in arts : /\ ByTypes(a, {"Binary", "Header", "CArchive", "CShared"})
                                 /\ ByGooses(a, {"linux", "ios", "android", "aix", "windows"})
                                 /\ a.goarch = "amd64" => ByGoamd64s(a, c.goamd64)
                                 /\ ByIDs(a, c.ids)}
  <2>1. PICK f, g : t = Task("nfpm", i, f, g) /\ g \in findArtifacts(c)
    BY <1>4 DEF TasksOf, nfpmTasks
  <2>2. t.pipe = "nfpm" /\ t.at = i /\ t.bins = g
    BY <2>1, TaskFields
  <2>3. CASE c.meta
    BY <2>2, <2>3 DEF Meta
  <2>4. CASE ~c.meta
    <3>1. g \in GroupByPlatform(X)
      BY <2>1, <2>4 DEF findArtifacts
    <3>2. X \subseteq Packs
      BY OfTypes DEF Packs, Packaged
    <3>. HIDE DEF X
    <3>. QED
      BY <1>1, <2>2, <3>1, <3>2
  <2>. QED
    BY <2>3, <2>4
<1>5. CASE s = "makeself"
  <2>1. PICK g : t = Task("makeself", i, "makeself", g) /\ g \in GroupByPlatform(selfExtracting(cfg.makeselfs[i]))
    BY <1>5 DEF TasksOf, makeselfTasks
  <2>2. selfExtracting(cfg.makeselfs[i]) \subseteq Packs
    BY Selected
  <2>. QED
    BY <1>1, <2>1, <2>2, TaskFields
<1>6. CASE s = "snapcraft"
  <2>1. PICK g : t = Task("snapcraft", i, "snap", g) /\ g \in GroupByPlatform(snapped(cfg.snaps[i]))
    BY <1>6 DEF TasksOf, snapTasks, GroupByPlatform
  <2>2. snapped(cfg.snaps[i]) \subseteq Packs
    BY Selected
  <2>. QED
    BY <1>1, <2>1, <2>2, TaskFields
<1>7. CASE s = "flatpak"
  <2>1. PICK g : t = Task("flatpak", i, "flatpak", g) /\ g \in GroupByPlatform(bundled(cfg.flatpaks[i]))
    BY <1>7 DEF TasksOf, flatpakTasks
  <2>2. bundled(cfg.flatpaks[i]) \subseteq Packs
    BY Selected
  <2>. QED
    BY <1>1, <2>1, <2>2, TaskFields
<1>. QED
  BY <1>3, <1>4, <1>5, <1>6, <1>7 DEF Packers

(* A package holds what is in the list, and so do snapcraft's directories. *)
FinitePacks == IsFiniteSet(Packs)
Contents ==
  /\ \A p \in arts : p.type \in Packages => p.of \subseteq Paths(Packs)
  /\ \A x \in prime : x[2] \in Paths(Packs)
  /\ \A t \in todo : t.pipe \in Packers => Fit(t.bins) \/ Meta(t)

LEMMA FiniteInit == ASSUME Init PROVE FinitePacks
<1>1. IsFiniteSet(built) /\ Packs \subseteq built
  BY PackagingAssumption DEF Init, Packs
<1>. QED
  BY <1>1, FS_Subset DEF FinitePacks

LEMMA FiniteKept == ASSUME Control, FinitePacks, [Next]_vars PROVE FinitePacks'
<1>1. CASE arts' = arts
  <2>1. Packs' = Packs
    BY <1>1 DEF Packs
  <2>. QED
    BY <2>1 DEF FinitePacks
<1>2. CASE Defaults \/ Start \/ Finish \/ Over \/ UNCHANGED vars
  <2>1. arts' = arts
    BY <1>2, OwnStep DEF Defaults, Over, vars
  <2>. QED
    BY <1>1, <2>1
<1>3. ASSUME NEW t \in todo, Run(t), t.pipe # "universalbinary" PROVE FinitePacks'
  <2>1. Grows(t)
    BY <1>3, OtherStep
  <2>2. Packs' = Packs
    BY <2>1 DEF Grows, Product, Packs
  <2>. QED
    BY <2>2 DEF FinitePacks
<1>4. ASSUME NEW t \in todo, Run(t), t.pipe = "universalbinary" PROVE FinitePacks'
  <2>1. Making(t)
    BY <1>4, UniversalStep
  <2>2. \E u : Packs' \subseteq Packs \cup {u}
    BY <2>1 DEF Making, Packs
  <2>3. PICK u : Packs' \subseteq Packs \cup {u}
    BY <2>2
  <2>4. IsFiniteSet(Packs \cup {u})
    BY FS_AddElement DEF FinitePacks
  <2>. QED
    BY <2>3, <2>4, FS_Subset DEF FinitePacks
<1>. QED
  BY <1>2, <1>3, <1>4 DEF Next

LEMMA NothingPackaged ==
  ASSUME BuiltApart, Apart, stage < 3
  PROVE  prime = {} /\ \A p \in arts : p.type \notin Packages
BY DEF Apart, Early, BuiltApart, BuilderTypes, Packages

LEMMA ContentsEarly == ASSUME BuiltApart, Apart, Control, stage < 3 PROVE Contents
<1>1. \A t \in todo : t.pipe \notin Packers
  <2>1. stage \in {1, 2}
    BY DEF Control
  <2>2. Stages[stage] \notin Packers
    BY <2>1, StageList DEF Packers
  <2>. QED
    BY <2>2 DEF Control
<1>. QED
  BY <1>1, NothingPackaged DEF Contents

(* What a step of a packager adds.                                         *)
LEMMA Added ==
  ASSUME Control, Contents, NEW t \in todo, Run(t), t.pipe # "universalbinary"
  PROVE  /\ arts \subseteq arts' /\ todo' \subseteq todo /\ cfg' = cfg /\ built' = built /\ stage' = stage
         /\ at' = at
         /\ \A p \in arts' \ arts : p.type \in Packages =>
              \/ Fit(t.bins) /\ p.of \subseteq Paths(t.bins)
              \/ p.of = {}
              \/ t.pipe = "snapcraft" /\ p.of \subseteq {x[2] : x \in prime'}
         /\ \A x \in prime' \ prime : Fit(t.bins) /\ x[2] \in Paths(t.bins)
<1>1. Steady /\ Ends(t) /\ Grows(t) /\ Primes(t)
  BY OtherStep
<1>2. todo' \subseteq todo /\ cfg' = cfg /\ built' = built /\ arts \subseteq arts' /\ stage' = stage /\ at' = at
  BY <1>1 DEF Steady, settings, progress, Ends, Breaks, Grows
<1>3. t.pipe \in Packers \ {"nfpm"} => Fit(t.bins)
  BY DEF Contents, Meta
<1>4. ASSUME NEW p \in arts' \ arts, p.type \in Packages
      PROVE  \/ Fit(t.bins) /\ p.of \subseteq Paths(t.bins)
             \/ p.of = {}
             \/ t.pipe = "snapcraft" /\ p.of \subseteq {x[2] : x \in prime'}
  <2>1. CASE t.pipe \in {"archive", "makeself", "flatpak"} /\ p.of \subseteq Paths(t.bins)
    BY <1>3, <2>1 DEF Packers
  <2>2. CASE t.pipe = "nfpm" /\ p.of = nfpmContents(cfg.nfpms[t.at], t.bins)
    <3>1. CASE Meta(t)
      BY <2>2, <3>1 DEF nfpmContents, Meta
    <3>2. CASE ~Meta(t)
      <4>1. Fit(t.bins)
        BY <2>2, <3>2 DEF Contents, Packers
      <4>. QED
        BY <2>2, <3>2, <4>1 DEF nfpmContents, Meta
    <3>. QED
      BY <3>1, <3>2
  <2>3. Product(t, p)
    BY <1>1, <1>4 DEF Grows
  <2>. QED
    BY <1>4, <2>1, <2>2, <2>3 DEF Product
<1>5. ASSUME NEW x \in prime' \ prime PROVE Fit(t.bins) /\ x[2] \in Paths(t.bins)
  BY <1>1, <1>3, <1>5 DEF Primes, Packers
<1>. QED
  BY <1>2, <1>4, <1>5

LEMMA PathsIn == \A g : Fit(g) => Paths(g) \subseteq Paths(Packs)
BY DEF Fit, Paths

LEMMA ContentsKept ==
  ASSUME BuiltApart, Control, Control', Apart, Apart', FinitePacks, Contents, [Next]_vars
  PROVE  Contents'
<1>1. (BuiltApart /\ Apart /\ Control /\ stage < 3 => Contents)'
  BY ContentsEarly, PTL
<1>2. CASE stage' < 3
  BY <1>1, <1>2 DEF BuiltApart
<1>3. ASSUME Packs' = Packs, cfg' = cfg, arts' = arts, prime' = prime, todo' \subseteq todo
      PROVE  Contents'
  BY <1>3 DEF Contents, Paths, Fit, Meta
<1>4. CASE UNCHANGED vars \/ Over
  BY <1>3, <1>4 DEF vars, Over, dist, Packs
<1>5. CASE Defaults
  <2>1. stage' < 3
    BY <1>5, StageList DEF Defaults, GoOn, Fail, In, Going, Ended, Control
  <2>. QED
    BY <1>2, <2>1
<1>6. CASE Start \/ Finish
  <2>1. /\ UNCHANGED <<cfg, arts, prime>> /\ Packs' = Packs /\ stage # 1
        /\ Begins \/ Aborts \/ Leaves
    BY <1>6, OwnStep DEF dist, Packs
  <2>2. CASE Aborts \/ Leaves
    BY <1>3, <2>1, <2>2 DEF Aborts, Leaves
  <2>3. CASE Begins
    <3>1. ASSUME NEW t \in todo', t.pipe \in Packers PROVE Fit(t.bins) \/ Meta(t)
      <4>1. PICK i : t \in TasksOf(Stages[stage], i)
        BY <2>3, <3>1 DEF Begins
      <4>2. t.pipe = Stages[stage]
        BY <4>1, TasksMade
      <4>. QED
        BY <3>1, <4>1, <4>2, FitTasks DEF FinitePacks
    <3>2. \A t \in todo' : t.pipe \in Packers => (Fit(t.bins) \/ Meta(t))'
      BY <2>1, <3>1 DEF Fit, Meta
    <3>. QED
      BY <2>1, <3>2 DEF Contents, Paths
  <2>. QED
    BY <2>1, <2>2, <2>3
<1>7. ASSUME NEW t \in todo, Run(t), t.pipe # "universalbinary" PROVE Contents'
  <2>1. Packs' = Packs
    BY <1>7, StageList, PacksSteady DEF Control, Next
  <2>2. /\ todo' \subseteq todo /\ cfg' = cfg
        /\ \A p \in arts' \ arts : p.type \in Packages =>
             \/ Fit(t.bins) /\ p.of \subseteq Paths(t.bins)
             \/ p.of = {}
             \/ t.pipe = "snapcraft" /\ p.of \subseteq {x[2] : x \in prime'}
        /\ \A x \in prime' \ prime : Fit(t.bins) /\ x[2] \in Paths(t.bins)
    BY <1>7, Added
  <2>3. \A x \in prime' : x[2] \in Paths(Packs)
    BY <2>2, PathsIn DEF Contents
  <2>4. \A p \in arts' : p.type \in Packages => p.of \subseteq Paths(Packs)
    BY <2>2, <2>3, PathsIn DEF Contents
  <2>5. \A x \in todo' : x.pipe \in Packers => (Fit(x.bins) \/ Meta(x))'
    BY <2>1, <2>2 DEF Contents, Fit, Meta
  <2>. QED
    BY <2>1, <2>3, <2>4, <2>5 DEF Contents, Paths
<1>8. ASSUME NEW t \in todo, t.pipe = "universalbinary", Run(t) PROVE Contents'
  <2>1. stage = 2
    BY <1>8, UnibinStage DEF OfUnibin
  <2>2. stage' = stage
    BY <1>8, RunStep DEF Steady, progress
  <2>. QED
    BY <1>2, <2>1, <2>2
<1>. QED
  BY <1>4, <1>5, <1>6, <1>7, <1>8 DEF Next

(* What was built in files of their own stays apart.                       *)
Sound == Grounds /\ Apart /\ FinitePacks /\ Contents

LEMMA SoundKept == ASSUME BuiltApart, Sound, [Next]_vars PROVE Sound'
<1>1. Grounds'
  BY GroundsKept DEF Sound
<1>2. Apart'
  BY <1>1, ApartKept DEF Sound, Grounds
<1>3. FinitePacks' /\ Contents'
  BY <1>1, <1>2, FiniteKept, ContentsKept DEF Sound, Grounds
<1>. QED
  BY <1>1, <1>2, <1>3 DEF Sound

LEMMA SoundInit == ASSUME BuiltApart, Init PROVE Sound
<1>1. Grounds /\ Apart /\ FinitePacks
  BY GroundsInit, ApartInit, FiniteInit
<1>2. stage < 3
  BY DEF Init
<1>. QED
  BY <1>1, <1>2, ContentsEarly DEF Sound, Grounds

LEMMA SoundHolds == ASSUME BuiltApart PROVE Spec => []Sound
<1>1. Init => Sound
  BY SoundInit
<1>2. Sound /\ [Next]_vars => Sound'
  BY SoundKept
<1>. QED
  BY <1>1, <1>2, PTL DEF Spec

(* When a universal binary replaces its slices, no package, archive or     *)
(* plain upload of the release holds one of them, for any configurations   *)
(* and binaries built into files of their own.                             *)
THEOREM SlicesStayOut == ASSUME BuiltApart PROVE Spec => []ReplacedStayOut
<1>1. ASSUME Sound PROVE ReplacedStayOut
  <2>1. SUFFICES ASSUME NEW u \in arts, NEW p \in arts, u.type = "UniversalBinary", u.replaces,
                        p.type \in Packages
                 PROVE  u.of \cap p.of = {}
    BY DEF ReplacedStayOut
  <2>2. stage # 2
    BY <1>1, <2>1, NothingPackaged DEF Sound
  <2>3. u \in Packs
    BY <2>1 DEF Packs, Packaged
  <2>4. Unspoilt(u)
    BY <1>1, <2>1, <2>2, <2>3 DEF Sound, Apart, SlicesGone, Gone
  <2>5. p.of \subseteq Paths(Packs)
    BY <1>1, <2>1 DEF Sound, Contents
  <2>. QED
    BY <2>4, <2>5 DEF Unspoilt, Paths
<1>. QED
  BY <1>1, SoundHolds, PTL
-----------------------------------------------------------------------------
(* Where no snap is made, what is in a package goes together: the snaps of *)
(* two configurations may share a directory, in which binaries of more     *)
(* than one platform meet.                                                 *)
NoSnaps == \A c \in Configs : c.snaps = <<>>
SnapsSkipped == Stages[stage] = "snapcraft" => at = 0 /\ todo = {}
Together ==
  \A p \in arts : p.type \in Packages =>
    \A a, b \in Packs : a.path \in p.of /\ b.path \in p.of => Match(a, b)

LEMMA NumberOfSnaps ==
  ASSUME NoSnaps, Ready, stage # 1 PROVE Number("snapcraft") = 0
<1>1. PICK c \in Configs : cfg = Defaulted(c)
  BY DEF Ready
<1>2. c \in Config!Packages /\ c.snaps = <<>>
  BY PackagingAssumption DEF NoSnaps
<1>3. cfg.snaps = Each(c.snaps, snapDefault)
  BY <1>1, <1>2 DEF Defaulted, Config!Packages
<1>4. cfg.snaps = [i \in DOMAIN c.snaps |-> snapDefault(c.snaps[i])]
  BY <1>3 DEF Each
<1>5. cfg.snaps = [i \in DOMAIN c.snaps |-> cfg.snaps[i]]
  BY <1>4
<1>6. c.snaps \in Seq({}) /\ Len(c.snaps) = 0
  BY <1>2
<1>7. Len(cfg.snaps) = 0
  BY <1>5, <1>6, EachIndexed
<1>. QED
  BY <1>7 DEF Number, Unskippable

LEMMA SnapsSkippedKept ==
  ASSUME NoSnaps, Control, Control', Ready, SnapsSkipped, [Next]_vars
  PROVE  SnapsSkipped'
<1>1. CASE UNCHANGED vars \/ Over
  BY <1>1 DEF vars, Over, SnapsSkipped, progress
<1>2. CASE Defaults
  <2>1. todo' = {} /\ (at' = 0 \/ stage' = 1)
    BY <1>2, StageList DEF Defaults, GoOn, Fail, In, Going, Ended, Control
  <2>. QED
    BY <2>1, StageList DEF SnapsSkipped
<1>3. CASE Start \/ Finish
  <2>1. stage # 1 /\ (Begins \/ Aborts \/ Leaves)
    BY <1>3, OwnStep
  <2>2. CASE Aborts
    BY <1>3, <2>2 DEF Aborts, SnapsSkipped
  <2>3. CASE Leaves
    BY <2>3 DEF Leaves, SnapsSkipped
  <2>4. CASE Begins
    <3>1. Stages[stage] # "snapcraft"
      BY <2>1, <2>4, NumberOfSnaps DEF Begins, SnapsSkipped
    <3>. QED
      BY <2>4, <3>1 DEF Begins, SnapsSkipped
  <2>. QED
    BY <2>1, <2>2, <2>3, <2>4
<1>4. ASSUME NEW t \in todo, Run(t) PROVE SnapsSkipped'
  <2>1. stage' = stage
    BY <1>4, RunStep DEF Steady, progress
  <2>. QED
    BY <2>1 DEF SnapsSkipped
<1>. QED
  BY <1>1, <1>2, <1>3, <1>4 DEF Next

LEMMA TogetherKept ==
  ASSUME BuiltApart, NoSnaps, Sound, Sound', SnapsSkipped, Together, [Next]_vars
  PROVE  Together'
<1>0. Control /\ Apart /\ Contents /\ Control' /\ Apart'
  BY DEF Sound, Grounds
<1>1. ASSUME arts' = arts PROVE Together'
  BY <1>1 DEF Together, Packs
<1>2. CASE Defaults \/ Start \/ Finish \/ Over \/ UNCHANGED vars
  <2>1. arts' = arts
    BY <1>2, OwnStep DEF Defaults, Over, vars
  <2>. QED
    BY <1>1, <2>1
<1>3. ASSUME NEW t \in todo, t.pipe = "universalbinary", Run(t) PROVE Together'
  <2>1. stage = 2 /\ stage' = stage
    BY <1>0, <1>3, UnibinStage, RunStep DEF OfUnibin, Steady, progress
  <2>2. (BuiltApart /\ Apart /\ stage < 3 => prime = {} /\ \A p \in arts : p.type \notin Packages)'
    BY NothingPackaged, PTL
  <2>3. \A p \in arts' : p.type \notin Packages
    BY <1>0, <2>1, <2>2 DEF BuiltApart
  <2>. QED
    BY <2>3 DEF Together
<1>4. ASSUME NEW t \in todo, t.pipe # "universalbinary", Run(t) PROVE Together'
  <2>1. Packs' = Packs /\ t.pipe # "snapcraft"
    BY <1>0, <1>4, StageList, PacksSteady DEF Control, Next, SnapsSkipped
  <2>2. /\ \A p \in arts' \ arts : p.type \in Packages =>
             (Fit(t.bins) /\ p.of \subseteq Paths(t.bins)) \/ p.of = {}
    BY <1>0, <1>4, <2>1, Added
  <2>3. ASSUME NEW p \in arts' \ arts, p.type \in Packages, NEW a \in Packs, NEW b \in Packs,
               a.path \in p.of, b.path \in p.of
        PROVE  Match(a, b)
    <3>1. Fit(t.bins) /\ a.path \in Paths(t.bins) /\ b.path \in Paths(t.bins)
      BY <2>2, <2>3
    <3>2. a \in t.bins /\ b \in t.bins
      BY <1>0, <3>1 DEF Fit, Paths, Apart, PathsApart
    <3>. QED
      BY <3>1, <3>2 DEF Fit, Alike
  <2>. QED
    BY <2>1, <2>3 DEF Together
<1>. QED
  BY <1>2, <1>3, <1>4 DEF Next

(* GroupByPlatform: what is packaged together runs on the same machines,   *)
(* for any variants of any processors, wherever no snap is made.           *)
THEOREM PackagesOfOnePlatform == ASSUME BuiltApart, NoSnaps PROVE Spec => []VariantsApart
<1>. DEFINE All == Sound /\ SnapsSkipped /\ Together
<1>1. ASSUME Init PROVE All
  <2>1. Sound /\ stage = 1 /\ arts = built
    BY <1>1, SoundInit DEF Init
  <2>2. SnapsSkipped
    BY <2>1, StageList DEF SnapsSkipped
  <2>3. \A p \in arts : p.type \notin Packages
    BY <2>1, NothingPackaged DEF Sound
  <2>. QED
    BY <2>1, <2>2, <2>3 DEF Together
<1>2. ASSUME All, [Next]_vars PROVE All'
  BY <1>2, SoundKept, SnapsSkippedKept, TogetherKept DEF Sound, Grounds
<1>3. ASSUME All PROVE VariantsApart
  <2>1. ASSUME NEW p \in arts, p.type \in Packages, NEW a \in built, a.path \in p.of PROVE a \in Packs
    <3>1. PICK x \in Packs : x.path = a.path
      BY <1>3, <2>1 DEF Sound, Contents, Paths
    <3>2. stage # 1 /\ built \in Built /\ Ready
      BY <1>3, <2>1, NothingPackaged DEF Sound, Apart, Grounds
    <3>3. x \in built
      BY <1>3, <3>1, <3>2, PathOfBuilt DEF Sound, Apart, Origins, MadeBy
    <3>. QED
      BY <3>1, <3>2, <3>3 DEF BuiltApart
  <2>. QED
    BY <1>3, <2>1 DEF VariantsApart, Together, Match
<1>. HIDE DEF All
<1>. QED
  BY <1>1, <1>2, <1>3, PTL DEF Spec
-----------------------------------------------------------------------------
(* The tasks of the archive pipe, once it has begun, and what each of them *)
(* puts in the list: one archive, or each of its binaries as it is.        *)
AllTasks == UNION {archiveTasks(i) : i \in DOMAIN cfg.archives}
From(T, p) ==
  LET c == cfg.archives[T.at] IN
  /\ p.id = c.id /\ p.format = T.part
  /\ IF T.part = "binary" THEN p \in skip(c, T.bins)
     ELSE p.type = "UploadableArchive" /\ p.of = Paths(T.bins)
Given(T) ==
  IF T.part = "binary" THEN skip(cfg.archives[T.at], T.bins) \subseteq arts
  ELSE \E p \in arts : From(T, p)

Before == stage < 6 \/ (stage = 6 /\ at = 0)
Began == stage = 6 => at \in {0, Number("archive")}
NoUploads ==
  Before => (stage = 6 => todo = {}) /\ \A p \in arts : p.type \notin UploadTypes
Accounted ==
  /\ stage = 6 => at = Number("archive") /\ todo \subseteq AllTasks
  /\ \A p \in arts : p.type \in UploadTypes => \E T \in AllTasks : T \notin todo /\ From(T, p)
  /\ \A T \in AllTasks : Given(T) \/ (stage = 6 /\ (failed \/ T \in todo))
  /\ \A T \in AllTasks : T.part # "binary" =>
       \A p, q \in arts : From(T, p) /\ From(T, q) => p = q
Delivered == "archive" \notin cfg.skips /\ ~Before => Accounted
Stock == Began /\ NoUploads /\ Delivered

LEMMA TaskOfArchive ==
  ASSUME FinitePacks, NEW T \in AllTasks
  PROVE  /\ T.pipe = "archive" /\ T.at \in DOMAIN cfg.archives /\ T \in archiveTasks(T.at)
         /\ IsTask(T) /\ T.bins \subseteq Packs
<1>1. PICK i \in DOMAIN cfg.archives : T \in archiveTasks(i)
  BY DEF AllTasks
<1>2. T \in TasksOf("archive", i)
  BY <1>1 DEF TasksOf
<1>3. T.pipe = "archive" /\ T.at = i /\ IsTask(T)
  BY <1>2, TasksMade
<1>4. Fit(T.bins) \/ Meta(T)
  BY <1>2, FitTasks DEF Packers, FinitePacks
<1>. QED
  BY <1>1, <1>3, <1>4 DEF Meta, Fit

(* The tasks depend on what is packaged only.                              *)
TasksFor(c, i, X) ==
  LET Formats(g) == packageFormats(c, (CHOOSE b \in g : TRUE).goos) \ {"none"} IN
  IF c.meta THEN {Task("archive", i, f, {}) : f \in c.formats}
  ELSE UNION {{Task("archive", i, f, g) : f \in Formats(g)} : g \in GroupByPlatform(X)}
Archivable(c) == {a \in Packs : ByIDs(a, c.ids)}

LEMMA ArchivedIs == \A c : archived(c) = Archivable(c)
<1>1. \A a : ByTypes(a, Packaged) <=> a.type \in Packaged
  BY DEF ByTypes, autoOr, Packaged
<1>. QED
  BY <1>1 DEF archived, Archivable, Packs

LEMMA ArchiveTasks ==
  \A i : archiveTasks(i) = TasksFor(cfg.archives[i], i, Archivable(cfg.archives[i]))
BY ArchivedIs DEF archiveTasks, TasksFor

LEMMA SameTasks ==
  ASSUME Packs' = Packs, cfg' = cfg
  PROVE  AllTasks' = AllTasks
<1>1. (\A i : archiveTasks(i) = TasksFor(cfg.archives[i], i, Archivable(cfg.archives[i])))'
  BY ArchiveTasks, PTL
<1>2. ASSUME NEW i PROVE archiveTasks(i)' = archiveTasks(i)
  <2>1. PICK c : c = cfg.archives[i]
    OBVIOUS
  <2>2. PICK X : X = Archivable(c)
    OBVIOUS
  <2>3. Archivable(c)' = X
    BY <2>2 DEF Archivable
  <2>4. archiveTasks(i) = TasksFor(c, i, X)
    BY <2>1, <2>2, ArchiveTasks
  <2>5. archiveTasks(i)' = TasksFor(c, i, X)
    BY <1>1, <2>1, <2>3
  <2>. QED
    BY <2>4, <2>5
<1>. QED
  BY <1>2 DEF AllTasks

(* A task of the archive pipe adds its archive, or its binaries, or fails. *)
LEMMA ArchiveStep ==
  ASSUME Control, NEW t \in todo, t.pipe = "archive", Run(t)
  PROVE  /\ todo' = todo \ {t}
         /\ \/ failed' = TRUE /\ arts' = arts
            \/ failed' = failed /\ t.part # "binary" /\ \E p : From(t, p) /\ arts' = arts \cup {p}
            \/ failed' = failed /\ t.part = "binary" /\ arts' = arts \cup skip(cfg.archives[t.at], t.bins)
<1>1. ASSUME Breaks(t) PROVE todo' = todo \ {t} /\ failed' = TRUE
  <2>1. \A x \in todo : x.pipe = "archive"
    BY DEF Control
  <2>2. \A x \in todo : x.pipe \notin OneAfterTheOther
    BY <2>1 DEF OneAfterTheOther
  <2>. QED
    BY <1>1, <2>2 DEF Breaks
<1>2. ASSUME NEW path, NEW p, Writes(t, path, {p}), From(t, p), t.part # "binary"
      PROVE  /\ todo' = todo \ {t}
             /\ \/ failed' = TRUE /\ arts' = arts
                \/ failed' = failed /\ t.part # "binary" /\ \E q : From(t, q) /\ arts' = arts \cup {q}
  <2>1. CASE Succeeds(t) /\ arts' = arts \cup {p}
    BY <1>2, <2>1 DEF Succeeds
  <2>2. CASE Unfortunate(t) /\ arts' = arts
    BY <1>1, <2>2 DEF Unfortunate
  <2>. QED
    BY <1>2, <2>1, <2>2 DEF Writes
<1>3. CASE createArchive(t)
  <2>. DEFINE c == cfg.archives[t.at]
  <2>1. PICK head \in Heads(t) :
          LET a == archiveArtifact(c, t.part, head, t.bins) IN
          IF Taken(a.path) THEN Yields(t) ELSE Writes(t, a.path, {a})
    BY <1>3 DEF createArchive
  <2>. DEFINE a == archiveArtifact(c, t.part, head, t.bins)
  <2>2. t.part # "binary"
    BY <1>3 DEF createArchive
  <2>3. From(t, a)
    BY <2>2, ArchiveFields DEF From
  <2>4. (Taken(a.path) /\ Yields(t)) \/ (~Taken(a.path) /\ Writes(t, a.path, {a}))
    BY <2>1
  <2>. HIDE DEF a
  <2>5. CASE Yields(t)
    BY <1>1, <2>5 DEF Yields, Refused
  <2>6. CASE Writes(t, a.path, {a})
    BY <1>2, <2>2, <2>3, <2>6
  <2>. QED
    BY <2>4, <2>5, <2>6
<1>4. CASE UploadAsItIs(t)
  <2>1. t.part = "binary"
    BY <1>4 DEF UploadAsItIs
  <2>2. CASE Succeeds(t) /\ arts' = arts \cup skip(cfg.archives[t.at], t.bins)
    BY <2>1, <2>2 DEF Succeeds
  <2>3. CASE Unfortunate(t) /\ arts' = arts
    BY <1>1, <2>3 DEF Unfortunate
  <2>. QED
    BY <1>4, <2>2, <2>3 DEF UploadAsItIs
<1>5. createArchive(t) \/ UploadAsItIs(t)
  BY DEF Run, makeUniversalBinary, addUniversalBinary, replaceSlices, compressOne, signBinary, signAndNotarize,
         createPackage, createMakeself, createSnap, createFlatpak, catalogArtifact, sourceArchive, createSRPM
<1>. QED
  BY <1>3, <1>4, <1>5

(* What a task puts in the list tells which task it was.                   *)
LEMMA FromTypes ==
  ASSUME NEW T, NEW p, From(T, p)
  PROVE  /\ p.id = cfg.archives[T.at].id /\ p.format = T.part /\ p.type \in UploadTypes
         /\ p.of \subseteq Paths(T.bins)
<1>1. CASE T.part = "binary"
  <2>1. PICK c, B : c = cfg.archives[T.at] /\ B = T.bins
    OBVIOUS
  <2>2. p \in skip(c, B)
    BY <1>1, <2>1 DEF From
  <2>3. PICK b \in B : p.type = "UploadableBinary" /\ \A x : x \in p.of <=> x = b.path
    BY <2>2, SkipFields
  <2>. QED
    BY <2>1, <2>3 DEF From, UploadTypes, Paths
<1>2. CASE T.part # "binary"
  BY <1>2 DEF From, UploadTypes
<1>. QED
  BY <1>1, <1>2

LEMMA IdOfArchive ==
  ASSUME Ready, stage # 1, NEW i \in DOMAIN cfg.archives, NEW j \in DOMAIN cfg.archives,
         cfg.archives[i].id = cfg.archives[j].id
  PROVE  i = j
<1>1. UniqueIDs(cfg.archives)
  BY DEF Ready, Valid
<1>. QED
  BY <1>1 DEF UniqueIDs

LEMMA OneTask ==
  ASSUME Ready, stage # 1, FinitePacks, PathsApart, NEW S \in AllTasks, NEW T \in AllTasks, NEW p,
         From(S, p), From(T, p), S.part # "binary"
  PROVE  S = T
<1>1. /\ S.pipe = "archive" /\ S.at \in DOMAIN cfg.archives /\ IsTask(S) /\ S.bins \subseteq Packs
      /\ T.pipe = "archive" /\ T.at \in DOMAIN cfg.archives /\ IsTask(T) /\ T.bins \subseteq Packs
  BY TaskOfArchive
<1>2. S.part = T.part /\ cfg.archives[S.at].id = cfg.archives[T.at].id
  BY FromTypes
<1>3. S.at = T.at
  BY <1>1, <1>2, IdOfArchive
<1>4. Paths(S.bins) = Paths(T.bins)
  BY <1>2 DEF From
<1>5. S.bins = T.bins
  <2>1. ASSUME NEW X, NEW Y, X \subseteq Packs, Y \subseteq Packs, Paths(X) \subseteq Paths(Y)
        PROVE  X \subseteq Y
    BY <2>1 DEF Paths, PathsApart
  <2>. QED
    BY <1>1, <1>4, <2>1
<1>. QED
  BY <1>1, <1>2, <1>3, <1>5 DEF IsTask

(* The list goes on as it is for the archives.                             *)
LEMMA AccountedOutside ==
  ASSUME Control', FinitePacks, Accounted, Packs' = Packs, cfg' = cfg, stage \in 6..14, stage' \in 7..14,
         stage = 6 => ~failed /\ todo = {}, arts \subseteq arts',
         \A p \in arts' \ arts : p.type \notin UploadTypes
  PROVE  Accounted'
<1>1. AllTasks' = AllTasks
  BY SameTasks
<1>2. \A T, p : From(T, p)' <=> From(T, p)
  BY DEF From, Paths
<1>3. ASSUME NEW p \in arts', p.type \in UploadTypes
      PROVE  \E T \in AllTasks : T \notin todo' /\ From(T, p)
  <2>1. PICK T \in AllTasks : From(T, p)
    BY <1>3 DEF Accounted
  <2>2. T.pipe = "archive"
    BY TaskOfArchive
  <2>3. T \notin todo'
    BY <2>2, StageList DEF Control
  <2>. QED
    BY <2>1, <2>3
<1>4. ASSUME NEW T \in AllTasks PROVE Given(T)'
  <2>1. Given(T)
    BY DEF Accounted
  <2>2. PICK c, B : c = cfg.archives[T.at] /\ B = T.bins
    OBVIOUS
  <2>3. CASE T.part = "binary"
    <3>1. skip(c, B) \subseteq arts
      BY <2>1, <2>2, <2>3 DEF Given
    <3>. QED
      BY <2>2, <2>3, <3>1 DEF Given
  <2>4. CASE T.part # "binary"
    BY <1>2, <2>1, <2>4 DEF Given
  <2>. QED
    BY <2>3, <2>4
<1>5. ASSUME NEW T \in AllTasks, T.part # "binary", NEW p \in arts', NEW q \in arts', From(T, p), From(T, q)
      PROVE  p = q
  <2>1. p \in arts /\ q \in arts
    BY <1>5, FromTypes
  <2>. QED
    BY <1>5, <2>1 DEF Accounted
<1>6. stage' # 6
  OBVIOUS
<1>. QED
  BY <1>1, <1>2, <1>3, <1>4, <1>5, <1>6 DEF Accounted

LEMMA GivenKept ==
  ASSUME NEW T, Given(T), cfg' = cfg, arts \subseteq arts' PROVE Given(T)'
<1>1. \A p : From(T, p)' <=> From(T, p)
  BY DEF From, Paths
<1>2. PICK c, B : c = cfg.archives[T.at] /\ B = T.bins
  OBVIOUS
<1>3. CASE T.part = "binary"
  <2>1. skip(c, B) \subseteq arts
    BY <1>2, <1>3 DEF Given
  <2>. QED
    BY <1>2, <1>3, <2>1 DEF Given
<1>4. CASE T.part # "binary"
  BY <1>1, <1>4 DEF Given
<1>. QED
  BY <1>3, <1>4

(* What a task of the archive pipe does to the account.                    *)
LEMMA SkipIsFrom ==
  ASSUME NEW T, T.part = "binary" PROVE \A p \in skip(cfg.archives[T.at], T.bins) : From(T, p)
<1>1. PICK c, B : c = cfg.archives[T.at] /\ B = T.bins
  OBVIOUS
<1>2. \A p \in skip(c, B) : p.id = c.id /\ p.format = "binary"
  BY SkipFields
<1>. QED
  BY <1>1, <1>2 DEF From

LEMMA AccountedRuns ==
  ASSUME Control, Ready, FinitePacks, PathsApart, Accounted, stage = 6, NEW t \in todo, Run(t), Packs' = Packs
  PROVE  Accounted'
<1>1. Steady
  BY RunStep
<1>2. cfg' = cfg /\ stage' = 6 /\ at' = at /\ stage # 1
  BY <1>1 DEF Steady, progress
<1>3. AllTasks' = AllTasks
  BY <1>2, SameTasks
<1>4. \A T, p : From(T, p)' <=> From(T, p)
  BY <1>2 DEF From, Paths
<1>5. Number("archive")' = Number("archive")
  BY <1>2 DEF Number
<1>6. t.pipe = "archive" /\ t \in AllTasks
  BY StageList DEF Control, Accounted
<1>7. todo' = todo \ {t}
  BY <1>6, ArchiveStep
<1>8. stage' = 6 => at' = Number("archive")' /\ todo' \subseteq AllTasks'
  BY <1>2, <1>3, <1>5, <1>7 DEF Accounted
<1>9. CASE failed' = TRUE /\ arts' = arts
  BY <1>2, <1>3, <1>4, <1>7, <1>8, <1>9 DEF Accounted
<1>10. ASSUME arts \subseteq arts', failed' = failed, Given(t)',
              \A p \in arts' \ arts : From(t, p),
              \A T \in AllTasks : \A p \in arts' \ arts : T.part # "binary" /\ From(T, p) =>
                \A q \in arts' : From(T, q) => p = q
       PROVE  Accounted'
  <2>1. ASSUME NEW p \in arts', p.type \in UploadTypes PROVE \E T \in AllTasks : T \notin todo' /\ From(T, p)
    <3>1. CASE p \in arts
      BY <1>7, <2>1, <3>1 DEF Accounted
    <3>2. CASE p \notin arts
      BY <1>6, <1>7, <1>10, <3>2
    <3>. QED
      BY <3>1, <3>2
  <2>2. ASSUME NEW T \in AllTasks PROVE Given(T)' \/ failed' \/ T \in todo'
    <3>1. CASE T = t
      BY <1>10, <3>1
    <3>2. CASE T # t /\ Given(T)
      BY <1>2, <1>10, <3>2, GivenKept
    <3>3. CASE T # t /\ ~Given(T)
      BY <1>7, <1>10, <3>3 DEF Accounted
    <3>. QED
      BY <3>1, <3>2, <3>3
  <2>3. ASSUME NEW T \in AllTasks, T.part # "binary", NEW p \in arts', NEW q \in arts', From(T, p), From(T, q)
        PROVE  p = q
    <3>1. CASE p \in arts /\ q \in arts
      BY <2>3, <3>1 DEF Accounted
    <3>. QED
      BY <1>10, <2>3, <3>1
  <2>. QED
    BY <1>2, <1>3, <1>4, <1>8, <2>1, <2>2, <2>3 DEF Accounted
<1>11. CASE failed' = failed /\ t.part # "binary" /\ \E p : From(t, p) /\ arts' = arts \cup {p}
  <2>1. PICK p : From(t, p) /\ arts' = arts \cup {p}
    BY <1>11
  <2>2. Given(t)'
    BY <1>4, <1>11, <2>1 DEF Given
  <2>3. ASSUME NEW T \in AllTasks, From(T, p), NEW q \in arts, From(T, q), T.part # "binary" PROVE FALSE
    <3>1. T = t
      BY <1>2, <1>6, <1>11, <2>1, <2>3, OneTask
    <3>2. q.type \in UploadTypes
      BY <2>3, FromTypes
    <3>3. PICK S \in AllTasks : S \notin todo /\ From(S, q)
      BY <3>2 DEF Accounted
    <3>4. S = T
      BY <1>2, <2>3, <3>3, OneTask
    <3>. QED
      BY <3>1, <3>3, <3>4
  <2>. QED
    BY <1>10, <1>11, <2>1, <2>2, <2>3
<1>12. CASE failed' = failed /\ t.part = "binary" /\ arts' = arts \cup skip(cfg.archives[t.at], t.bins)
  <2>1. PICK c, B : c = cfg.archives[t.at] /\ B = t.bins
    OBVIOUS
  <2>2. arts' = arts \cup skip(c, B)
    BY <1>12, <2>1
  <2>3. Given(t)'
    BY <1>2, <1>12, <2>1, <2>2 DEF Given
  <2>4. \A p \in arts' \ arts : From(t, p)
    BY <1>12, <2>1, <2>2, SkipIsFrom
  <2>5. \A T \in AllTasks : \A p \in arts' \ arts : ~(T.part # "binary" /\ From(T, p))
    BY <1>12, <2>4, FromTypes
  <2>. QED
    BY <1>10, <1>12, <2>2, <2>3, <2>4, <2>5
<1>. QED
  BY <1>6, <1>9, <1>11, <1>12, ArchiveStep

LEMMA UploadsOfArchive ==
  ASSUME Control, NEW t \in todo, Run(t), stage # 6
  PROVE  \A p \in arts' \ arts : p.type \notin UploadTypes
<1>1. t.pipe # "archive"
  BY StageList DEF Control
<1>2. CASE t.pipe = "universalbinary"
  <2>1. Making(t)
    BY <1>2, UniversalStep
  <2>. QED
    BY <2>1 DEF Making, UploadTypes
<1>3. CASE t.pipe # "universalbinary"
  BY <1>1, <1>3, OtherStep DEF Grows, Product
<1>. QED
  BY <1>2, <1>3

LEMMA NumberOfArchives ==
  /\ "archive" \in cfg.skips => Number("archive") = 0
  /\ "archive" \notin cfg.skips => Number("archive") = Len(cfg.archives)
<1>1. SkipKey("archive") = "archive"
  BY DEF SkipKey
<1>2. "archive" \notin Unskippable
  BY DEF Unskippable
<1>. QED
  BY <1>1, <1>2 DEF Number

LEMMA StockSame ==
  ASSUME Stock, UNCHANGED <<cfg, arts, todo, stage, at, failed>> PROVE Stock'
<1>1. Packs' = Packs /\ Number("archive")' = Number("archive")
  BY DEF Packs, Number
<1>2. AllTasks' = AllTasks
  BY <1>1, SameTasks
<1>3. \A T, p : From(T, p)' <=> From(T, p)
  BY DEF From, Paths
<1>4. \A T : Given(T) => Given(T)'
  BY GivenKept
<1>5. Accounted => Accounted'
  BY <1>1, <1>2, <1>3, <1>4 DEF Accounted
<1>6. Before' <=> Before
  BY DEF Before
<1>. QED
  BY <1>1, <1>5, <1>6 DEF Stock, Began, NoUploads, Delivered

LEMMA StockBegins ==
  ASSUME Control, Control', Ready, FinitePacks, Stock, Begins, stage # 1, UNCHANGED <<cfg, arts>>
  PROVE  Stock'
<1>1. stage' = stage /\ stage \in 2..13 \cup {14} /\ Packs' = Packs
  BY DEF Begins, Control, Packs
<1>2. CASE stage < 6
  BY <1>1, <1>2 DEF Stock, Began, NoUploads, Delivered, Before
<1>3. CASE stage > 6
  <2>1. Accounted => Accounted'
    BY <1>1, <1>3, AccountedOutside
  <2>2. ~Before /\ ~Before'
    BY <1>1, <1>3 DEF Before
  <2>. QED
    BY <1>1, <1>3, <2>1, <2>2 DEF Stock, Began, NoUploads, Delivered
<1>4. CASE stage = 6
  <2>. DEFINE n == Number("archive")
  <2>1. Stages[stage] = "archive" /\ Upto("archive") = n
    BY <1>4, StageList DEF Upto
  <2>2. n \in Nat /\ (n # 0 => n = Len(cfg.archives) /\ DOMAIN cfg.archives = 1..n)
    BY NumberOfArchives, Indexed
  <2>3. at < n /\ at \in {0, n}
    BY <1>4, <2>1 DEF Begins, Stock, Began
  <2>. HIDE DEF n
  <2>4. at = 0 /\ n # 0
    BY <2>2, <2>3
  <2>5. at' = n /\ todo' = UNION {TasksOf("archive", i) : i \in 1..n}
    BY <2>1, <2>4 DEF Begins
  <2>6. todo' = AllTasks
    BY <2>2, <2>4, <2>5 DEF AllTasks, TasksOf
  <2>7. AllTasks' = AllTasks /\ n' = n
    BY <1>1, SameTasks DEF n, Number
  <2>8. \A p \in arts : p.type \notin UploadTypes
    BY <1>4, <2>4 DEF Stock, NoUploads, Before
  <2>9. \A T, p : From(T, p)' => p.type \in UploadTypes
    <3>1. \A T, p : From(T, p)' <=> From(T, p)
      BY DEF From, Paths
    <3>. QED
      BY <3>1, FromTypes
  <2>10. Accounted'
    BY <1>1, <1>4, <2>5, <2>6, <2>7, <2>8, <2>9 DEF Accounted, n
  <2>11. ~Before' /\ Began'
    BY <1>1, <1>4, <2>4, <2>5, <2>7 DEF Before, Began, n
  <2>. QED
    BY <2>10, <2>11 DEF Stock, NoUploads, Delivered
<1>. QED
  BY <1>1, <1>2, <1>3, <1>4

LEMMA StockLeaves ==
  ASSUME Control, Control', Ready, FinitePacks, Stock, Leaves, stage \in 2..13, UNCHANGED <<cfg, arts>>
  PROVE  Stock'
<1>1. stage' = stage + 1 /\ at' = 0 /\ todo' = {} /\ Packs' = Packs /\ ~failed /\ todo = {}
  BY DEF Leaves, Packs
<1>2. CASE stage < 6
  BY <1>1, <1>2 DEF Stock, Began, NoUploads, Delivered, Before
<1>3. CASE stage > 6 \/ (stage = 6 /\ at # 0)
  <2>1. Accounted => Accounted'
    BY <1>1, <1>3, AccountedOutside
  <2>2. ~Before /\ ~Before'
    BY <1>1, <1>3 DEF Before
  <2>. QED
    BY <1>1, <1>3, <2>1, <2>2 DEF Stock, Began, NoUploads, Delivered
<1>4. CASE stage = 6 /\ at = 0
  <2>1. at = Number("archive")
    BY <1>4, StageList DEF Leaves
  <2>2. stage' = 7 /\ ~Before'
    BY <1>1, <1>4 DEF Before
  <2>3. ASSUME "archive" \notin cfg.skips PROVE Accounted'
    <3>1. DOMAIN cfg.archives = {}
      BY <1>4, <2>1, <2>3, NumberOfArchives, Indexed
    <3>2. AllTasks = {}
      BY <3>1 DEF AllTasks
    <3>3. AllTasks' = {}
      BY <1>1, <3>2, SameTasks
    <3>4. \A p \in arts : p.type \notin UploadTypes
      BY <1>4 DEF Stock, NoUploads, Before
    <3>. QED
      BY <2>2, <3>3, <3>4 DEF Accounted
  <2>. QED
    BY <2>2, <2>3 DEF Stock, Began, NoUploads, Delivered
<1>. QED
  BY <1>2, <1>3, <1>4

LEMMA StockRuns ==
  ASSUME Control, Control', Ready, FinitePacks, PathsApart, Contents, Stock, stage # 1, NEW t \in todo, Run(t)
  PROVE  Stock'
<1>1. Steady /\ stage \in 2..13
  BY RunStep DEF Control
<1>2. cfg' = cfg /\ stage' = stage /\ at' = at
  BY <1>1 DEF Steady, progress
<1>3. CASE stage < 6
  <2>1. \A p \in arts' \ arts : p.type \notin UploadTypes
    BY <1>3, UploadsOfArchive
  <2>2. \A p \in arts' : p.type \notin UploadTypes
    BY <1>3, <2>1 DEF Stock, NoUploads, Before
  <2>. QED
    BY <1>1, <1>2, <1>3, <2>2 DEF Stock, Began, NoUploads, Delivered, Before
<1>4. CASE stage > 6
  <2>1. \A p \in arts' \ arts : p.type \notin UploadTypes
    BY <1>4, UploadsOfArchive
  <2>2. Packs' = Packs /\ t.pipe # "universalbinary"
    BY <1>1, <1>4, PacksSteady, StageList DEF Next, Control
  <2>3. arts \subseteq arts'
    BY <2>2, Added
  <2>4. Accounted => Accounted'
    BY <1>1, <1>2, <1>4, <2>1, <2>2, <2>3, AccountedOutside
  <2>5. ~Before /\ ~Before'
    BY <1>1, <1>2, <1>4 DEF Before
  <2>. QED
    BY <1>1, <1>2, <1>4, <2>4, <2>5 DEF Stock, Began, NoUploads, Delivered
<1>5. CASE stage = 6
  <2>1. Packs' = Packs
    BY <1>5, PacksSteady DEF Next
  <2>2. Accounted => Accounted'
    BY <1>5, <2>1, AccountedRuns
  <2>3. ~Before /\ ~Before'
    BY <1>2, <1>5 DEF Before, Stock, NoUploads
  <2>4. Number("archive")' = Number("archive")
    BY <1>2 DEF Number
  <2>. QED
    BY <1>2, <1>5, <2>2, <2>3, <2>4 DEF Stock, Began, NoUploads, Delivered
<1>. QED
  BY <1>1, <1>3, <1>4, <1>5

LEMMA StockKept == ASSUME BuiltApart, Sound, Sound', Stock, [Next]_vars PROVE Stock'
<1>0. Control /\ Control' /\ Ready /\ FinitePacks /\ PathsApart /\ Contents
  BY DEF Sound, Grounds, Apart
<1>1. CASE UNCHANGED vars \/ Over
  <2>1. UNCHANGED <<cfg, arts, todo, stage, at, failed>>
    BY <1>1 DEF vars, Over, progress
  <2>. QED
    BY <2>1, StockSame
<1>2. CASE Defaults
  <2>1. arts' = arts /\ stage = 1 /\ stage' \in {1, 2}
    BY <1>0, <1>2, StageList DEF Defaults, GoOn, Fail, In, Going, Ended, Control
  <2>2. \A p \in arts' : p.type \notin UploadTypes
    BY <2>1 DEF Stock, NoUploads, Before
  <2>. QED
    BY <2>1, <2>2 DEF Stock, Began, NoUploads, Delivered, Before
<1>3. CASE Start \/ Finish
  <2>1. stage # 1 /\ Going /\ UNCHANGED <<cfg, arts>> /\ (Begins \/ Aborts \/ Leaves)
    BY <1>3, OwnStep
  <2>2. stage \in 2..13
    BY <1>0, <2>1, StageList DEF Going, Ended, Control
  <2>3. CASE Aborts
    BY <2>1, <2>3, StockSame DEF Aborts
  <2>4. CASE Begins
    BY <1>0, <2>1, <2>4, StockBegins
  <2>5. CASE Leaves
    BY <1>0, <2>1, <2>2, <2>5, StockLeaves
  <2>. QED
    BY <2>1, <2>3, <2>4, <2>5
<1>4. ASSUME NEW t \in todo, Run(t) PROVE Stock'
  <2>1. stage # 1
    BY <1>0, <1>4 DEF Control
  <2>. QED
    BY <1>0, <1>4, <2>1, StockRuns
<1>. QED
  BY <1>1, <1>2, <1>3, <1>4 DEF Next

LEMMA StockInit == ASSUME BuiltApart, Init PROVE Stock
<1>1. arts \in Built /\ stage = 1
  BY DEF Init
<1>2. \A p \in arts : p.type \notin UploadTypes
  BY <1>1 DEF BuiltApart, BuilderTypes, UploadTypes
<1>. QED
  BY <1>1, <1>2 DEF Stock, Began, NoUploads, Delivered, Before

(* Of a binary an archive of format binary makes one upload, which is      *)
(* among those of every group the binary is in.                            *)
LEMMA SkipOne ==
  \A c, b : \E p :
    /\ p.type = "UploadableBinary" /\ p.id = c.id /\ p.format = "binary"
    /\ b.path \in p.of
    /\ \A d : b \in d => p \in skip(c, d)
    /\ \A q, d : q \in skip(c, d) /\ (\A x \in d : x = b) => q = p
<1>. SUFFICES ASSUME NEW c, NEW b
              PROVE  \E p : /\ p.type = "UploadableBinary" /\ p.id = c.id /\ p.format = "binary"
                            /\ b.path \in p.of
                            /\ \A d : b \in d => p \in skip(c, d)
                            /\ \A q, d : q \in skip(c, d) /\ (\A x \in d : x = b) => q = p
  OBVIOUS
<1>. DEFINE Up(x) ==
       [Inheriting(x, {x}) EXCEPT !.type = "UploadableBinary", !.id = c.id, !.format = "binary",
          !.name = <<c.template, x.name, PlatformName(x)>>, !.path = x.path]
<1>1. \A d : skip(c, d) = {Up(x) : x \in d}
  BY DEF skip
<1>2. /\ Up(b).type = "UploadableBinary" /\ Up(b).id = c.id /\ Up(b).format = "binary"
      /\ b.path \in Up(b).of
  BY DEF Inheriting, MadeOf, Blank, Paths
<1>. HIDE DEF Up
<1>3. \A d : b \in d => Up(b) \in skip(c, d)
  BY <1>1
<1>4. \A q, d : q \in skip(c, d) /\ (\A x \in d : x = b) => q = Up(b)
  BY <1>1
<1>. QED
  BY <1>2, <1>3, <1>4

(* A binary of the list is in one task of each format for its platform.    *)
LEMMA TaskOfBinary ==
  ASSUME FinitePacks, NEW i \in DOMAIN cfg.archives, ~cfg.archives[i].meta,
         NEW b \in Archivable(cfg.archives[i]),
         NEW f \in packageFormats(cfg.archives[i], b.goos) \ {"none"}
  PROVE  \E T \in AllTasks :
           /\ T.at = i /\ T.part = f /\ b \in T.bins
           /\ \A S \in AllTasks : S.at = i /\ S.part = f /\ b \in S.bins => S = T
<1>1. PICK c : c = cfg.archives[i]
  OBVIOUS
<1>2. PICK X : X = Archivable(c)
  OBVIOUS
<1>3. X \subseteq Packs /\ b \in X /\ IsFiniteSet(X)
  BY <1>1, <1>2, FS_Subset DEF Archivable, FinitePacks
<1>4. PICK g : g = Group(X, Key(b, X))
  OBVIOUS
<1>5. g \in GroupByPlatform(X) /\ b \in g
  BY <1>3, <1>4 DEF GroupByPlatform, Platforms, Group
<1>6. (CHOOSE x \in g : TRUE).goos = b.goos
  <2>1. (CHOOSE x \in g : TRUE) \in g
    BY <1>5
  <2>. QED
    BY <1>3, <1>5, <2>1, GroupAlike DEF Alike, Match
<1>. DEFINE Formats(h) == packageFormats(c, (CHOOSE x \in h : TRUE).goos) \ {"none"}
<1>7. archiveTasks(i) = UNION {{Task("archive", i, e, h) : e \in Formats(h)} : h \in GroupByPlatform(X)}
  BY <1>1, <1>2, ArchiveTasks DEF TasksFor
<1>8. f \in Formats(g)
  BY <1>1, <1>6
<1>. HIDE DEF Formats
<1>9. Task("archive", i, f, g) \in archiveTasks(i)
  BY <1>5, <1>7, <1>8
<1>10. PICK T \in AllTasks : T = Task("archive", i, f, g)
  BY <1>9 DEF AllTasks
<1>11. T.at = i /\ T.part = f /\ T.bins = g
  BY <1>10, TaskFields
<1>12. ASSUME NEW S \in AllTasks, S.at = i, S.part = f, b \in S.bins PROVE S = T
  <2>1. S \in archiveTasks(i)
    BY <1>12, TaskOfArchive
  <2>2. PICK e, h : S = Task("archive", i, e, h) /\ h \in GroupByPlatform(X)
    BY <1>7, <2>1
  <2>3. S.bins = h /\ e = f
    BY <1>12, <2>2, TaskFields
  <2>4. PICK k : h = Group(X, k)
    BY <2>2 DEF GroupByPlatform
  <2>5. k = Key(b, X)
    BY <1>12, <2>3, <2>4 DEF Group
  <2>. QED
    BY <1>4, <1>10, <2>2, <2>3, <2>4, <2>5
<1>. QED
  BY <1>5, <1>11, <1>12

LEMMA OneUpload ==
  ASSUME Ready, stage > 6, FinitePacks, PathsApart, Accounted,
         NEW i \in DOMAIN cfg.archives, ~cfg.archives[i].meta, NEW b \in Archivable(cfg.archives[i]),
         NEW f \in packageFormats(cfg.archives[i], b.goos) \ {"none"}
  PROVE  \E p : \A q : q \in Uploads(cfg.archives[i], f, b) <=> q = p
<1>1. PICK c : c = cfg.archives[i]
  OBVIOUS
<1>2. PICK T \in AllTasks : /\ T.at = i /\ T.part = f /\ b \in T.bins
                            /\ \A S \in AllTasks : S.at = i /\ S.part = f /\ b \in S.bins => S = T
  BY TaskOfBinary
<1>3. b \in Packs /\ stage # 1 /\ stage # 6
  BY DEF Archivable
<1>4. Given(T)
  BY <1>3 DEF Accounted
<1>5. ASSUME NEW q \in Uploads(c, f, b) PROVE q \in arts /\ From(T, q) /\ b.path \in q.of
  <2>1. q \in arts /\ q.type \in UploadTypes /\ q.id = c.id /\ q.format = f /\ b.path \in q.of
    BY <1>5 DEF Uploads, UploadTypes
  <2>2. PICK S \in AllTasks : From(S, q)
    BY <2>1 DEF Accounted
  <2>3. S.at \in DOMAIN cfg.archives /\ S.bins \subseteq Packs
    BY TaskOfArchive
  <2>4. cfg.archives[S.at].id = cfg.archives[i].id /\ S.part = f /\ b.path \in Paths(S.bins)
    BY <1>1, <2>1, <2>2, FromTypes
  <2>5. S.at = i
    BY <1>3, <2>3, <2>4, IdOfArchive
  <2>6. b \in S.bins
    BY <1>3, <2>3, <2>4 DEF Paths, PathsApart
  <2>7. S = T
    BY <1>2, <2>4, <2>5, <2>6
  <2>. QED
    BY <2>1, <2>2, <2>7
<1>6. CASE f # "binary"
  <2>1. PICK p \in arts : From(T, p)
    BY <1>2, <1>4, <1>6 DEF Given
  <2>2. p \in Uploads(c, f, b)
    BY <1>1, <1>2, <1>6, <2>1 DEF From, Uploads, Paths
  <2>3. \A q \in Uploads(c, f, b) : q = p
    BY <1>2, <1>5, <1>6, <2>1 DEF Accounted
  <2>. QED
    BY <1>1, <2>2, <2>3
<1>7. CASE f = "binary"
  <2>1. PICK B : B = T.bins
    OBVIOUS
  <2>2. b \in B /\ skip(c, B) \subseteq arts
    BY <1>1, <1>2, <1>4, <1>7, <2>1 DEF Given
  <2>3. PICK p : /\ p.type = "UploadableBinary" /\ p.id = c.id /\ p.format = "binary"
                 /\ b.path \in p.of
                 /\ \A d : b \in d => p \in skip(c, d)
                 /\ \A q, d : q \in skip(c, d) /\ (\A x \in d : x = b) => q = p
    BY SkipOne
  <2>4. p \in Uploads(c, f, b)
    BY <1>7, <2>2, <2>3 DEF Uploads
  <2>5. ASSUME NEW q \in Uploads(c, f, b) PROVE q = p
    <3>1. q \in skip(c, B) /\ b.path \in q.of
      BY <1>1, <1>2, <1>5, <1>7, <2>1, <2>5 DEF From
    <3>2. PICK y \in B : (\A x : x \in q.of <=> x = y.path) /\ (\A d : y \in d => q \in skip(c, d))
      BY <3>1, SkipFields
    <3>3. y = b
      <4>1. y \in Packs
        BY <1>2, <2>1, <3>2, TaskOfArchive
      <4>. QED
        BY <1>3, <3>1, <3>2, <4>1 DEF PathsApart
    <3>4. PICK D : \A x : x \in D <=> x = b
      <4>1. \A x : x \in {b} <=> x = b
        OBVIOUS
      <4>. QED
        BY <4>1
    <3>5. q \in skip(c, D)
      BY <3>2, <3>3, <3>4
    <3>. QED
      BY <2>3, <3>4, <3>5
  <2>. QED
    BY <1>1, <2>4, <2>5
<1>. QED
  BY <1>6, <1>7

(* When the archive pipe is past, each binary an archive configuration is  *)
(* for is in exactly one upload of each of its formats: none was left out  *)
(* by a group, an override or a task that failed, and none taken twice,    *)
(* for any configurations and binaries built into files of their own.      *)
THEOREM ArchivedOnce == ASSUME BuiltApart PROVE Spec => []EachBinaryArchivedOnce
<1>. DEFINE All == Sound /\ Stock
<1>1. Init => All
  BY SoundInit, StockInit
<1>2. All /\ [Next]_vars => All'
  BY SoundKept, StockKept
<1>3. ASSUME All PROVE EachBinaryArchivedOnce
  <2>1. SUFFICES ASSUME Past("archive"), "archive" \notin cfg.skips, NEW i \in DOMAIN cfg.archives, NEW b \in arts,
                        b.type \in BinaryTypes \cup {"UniversalBinary"}, ~cfg.archives[i].meta,
                        cfg.archives[i].ids = {} \/ b.id \in cfg.archives[i].ids,
                        NEW f \in packageFormats(cfg.archives[i], b.goos) \ {"none"}
                 PROVE  Cardinality(Uploads(cfg.archives[i], f, b)) = 1
    BY DEF EachBinaryArchivedOnce
  <2>2. Ready /\ FinitePacks /\ PathsApart /\ Control
    BY <1>3 DEF Sound, Grounds, Apart
  <2>3. stage > 6
    BY <2>1, StageList DEF Past
  <2>4. Accounted
    <3>1. ~Before
      BY <2>2, <2>3 DEF Before, Control
    <3>. QED
      BY <1>3, <2>1, <3>1 DEF Stock, Delivered
  <2>5. b \in Archivable(cfg.archives[i])
    <3>1. b.type \in Packaged
      BY <2>1 DEF BinaryTypes, Packaged
    <3>2. ByIDs(b, cfg.archives[i].ids)
      BY <2>1 DEF ByIDs, autoOr
    <3>. QED
      BY <3>1, <3>2 DEF Archivable, Packs
  <2>6. PICK p : \A q : q \in Uploads(cfg.archives[i], f, b) <=> q = p
    BY <2>1, <2>2, <2>3, <2>4, <2>5, OneUpload
  <2>7. Uploads(cfg.archives[i], f, b) = {p}
    BY <2>6
  <2>. QED
    BY <2>7, FS_Singleton
<1>. HIDE DEF All
<1>. QED
  BY <1>1, <1>2, <1>3, PTL DEF Spec
-----------------------------------------------------------------------------
(* What a step adds to the list that may be catalogued, and to the files.  *)
Source == "UploadableSourceArchive"
Catalogable(t, a) ==
  /\ a.type \in Exclusive => a.path \notin files /\ a.path \in files'
  /\ a.type = Source => a = sourceArtifact
  /\ a.type = "SBOM" => t.pipe = "sbom" /\ a = sbomArtifact(cfg.sboms[t.at], t.bins)
Adds(t) ==
  /\ files \subseteq files' /\ \A a \in arts' \ arts : Catalogable(t, a)
  /\ \A a, b \in arts' \ arts : a.type \in Exclusive /\ b.type \in Exclusive => a = b

(* A step that adds nothing, or nothing of these types.                    *)
LEMMA AddsOthers ==
  ASSUME NEW t, files \subseteq files', \A a \in arts' \ arts : a.type \notin Exclusive \cup {Source, "SBOM"}
  PROVE  Adds(t)
BY DEF Adds, Catalogable

LEMMA WritesAdds ==
  ASSUME NEW t, NEW a, Writes(t, a.path, {a}), a.type \in Exclusive => a.path \notin files,
         a.type = Source => a = sourceArtifact,
         a.type = "SBOM" => t.pipe = "sbom" /\ a = sbomArtifact(cfg.sboms[t.at], t.bins)
  PROVE  Adds(t)
<1>1. files' = files \cup {a.path} /\ (arts' = arts \cup {a} \/ arts' = arts)
  BY DEF Writes
<1>2. \A b \in arts' \ arts : b = a
  BY <1>1
<1>. QED
  BY <1>1, <1>2 DEF Adds, Catalogable

LEMMA RunAdds == ASSUME NEW t, Run(t) PROVE Adds(t)
<1>1. CASE makeUniversalBinary(t) \/ replaceSlices(t) \/ compressOne(t) \/ signAndNotarize(t)
  <2>1. files' = files /\ arts' \subseteq arts
    BY <1>1 DEF makeUniversalBinary, replaceSlices, compressOne, signAndNotarize, dist
  <2>. QED
    BY <2>1, AddsOthers
<1>2. CASE addUniversalBinary(t)
  <2>1. PICK head \in t.bins :
          /\ arts' = Add(arts, Universal(cfg.unibins[t.at], head, t.bins))
          /\ files' = files \cup {Universal(cfg.unibins[t.at], head, t.bins).path}
    BY <1>2 DEF addUniversalBinary
  <2>2. Universal(cfg.unibins[t.at], head, t.bins).type = "UniversalBinary"
    BY UniversalFields
  <2>3. \A a \in arts' \ arts : a.type = "UniversalBinary"
    BY <2>1, <2>2 DEF Add
  <2>. QED
    BY <2>1, <2>3, AddsOthers DEF Exclusive, Source
<1>3. CASE signBinary(t)
  <2>1. \A c, b : signatureArtifact(c, b).type = "Signature"
    BY OtherFields
  <2>2. \A a \in arts' \ arts : \E c, b : a = signatureArtifact(c, b)
    BY <1>3 DEF signBinary
  <2>3. files' = files /\ \A a \in arts' \ arts : a.type = "Signature"
    BY <1>3, <2>1, <2>2 DEF signBinary, dist
  <2>. QED
    BY <2>3, AddsOthers DEF Exclusive, Source
<1>4. CASE createArchive(t)
  <2>1. PICK head \in Heads(t) :
          LET a == archiveArtifact(cfg.archives[t.at], t.part, head, t.bins) IN
          IF Taken(a.path) THEN Yields(t) ELSE Writes(t, a.path, {a})
    BY <1>4 DEF createArchive
  <2>. DEFINE a == archiveArtifact(cfg.archives[t.at], t.part, head, t.bins)
  <2>2. a.type = "UploadableArchive"
    BY ArchiveFields
  <2>3. Yields(t) \/ (~Taken(a.path) /\ Writes(t, a.path, {a}))
    BY <2>1
  <2>. HIDE DEF a
  <2>. QED
    BY <2>2, <2>3, AddsOthers, WritesAdds DEF Yields, Taken, Source
<1>5. CASE UploadAsItIs(t)
  <2>1. files' = files
    BY <1>5 DEF UploadAsItIs
  <2>2. ASSUME NEW a \in arts' \ arts PROVE a.type = "UploadableBinary"
    <3>1. PICK c, B : c = cfg.archives[t.at] /\ B = t.bins
      OBVIOUS
    <3>2. a \in skip(c, B)
      BY <1>5, <2>2, <3>1 DEF UploadAsItIs
    <3>. QED
      BY <3>2, SkipFields
  <2>. QED
    BY <2>1, <2>2, AddsOthers DEF Exclusive, Source
<1>6. CASE createPackage(t)
  <2>1. PICK head \in t.bins :
          LET a == nfpmArtifact(cfg.nfpms[t.at], t.part, head, t.bins) IN
          IF Taken(a.path) THEN Yields(t) ELSE Writes(t, a.path, {a})
    BY <1>6 DEF createPackage
  <2>. DEFINE a == nfpmArtifact(cfg.nfpms[t.at], t.part, head, t.bins)
  <2>2. a.type \in {"MSIX", "LinuxPackage"}
    BY OtherFields
  <2>3. Yields(t) \/ (~Taken(a.path) /\ Writes(t, a.path, {a}))
    BY <2>1
  <2>. HIDE DEF a
  <2>. QED
    BY <2>2, <2>3, AddsOthers, WritesAdds DEF Yields, Taken, Source
<1>7. CASE createMakeself(t)
  <2>1. CASE Yields(t)
    BY <2>1, AddsOthers DEF Yields
  <2>2. CASE ~Yields(t)
    <3>1. PICK head, x :
            LET a == makeselfArtifact(cfg.makeselfs[t.at], head, t.bins, x) IN Writes(t, a.path, {a})
      BY <1>7, <2>2 DEF createMakeself
    <3>. DEFINE a == makeselfArtifact(cfg.makeselfs[t.at], head, t.bins, x)
    <3>2. Writes(t, a.path, {a}) /\ a.type = "Makeself"
      BY <3>1, OtherFields
    <3>. HIDE DEF a
    <3>. QED
      BY <3>2, WritesAdds DEF Exclusive, Source
  <2>. QED
    BY <2>1, <2>2
<1>8. CASE createSnap(t)
  <2>1. PICK head, dir :
          Writes(t, dir, IF cfg.snaps[t.at].publish
                         THEN {snapArtifact(head, {x[2] : x \in {y \in prime' : y[1] = dir}})} ELSE {})
    BY <1>8 DEF createSnap
  <2>2. \A x : snapArtifact(head, x).type = "PublishableSnapcraft"
    BY OtherFields
  <2>3. files \subseteq files' /\ \A a \in arts' \ arts : \E x : a = snapArtifact(head, x)
    BY <2>1 DEF Writes
  <2>4. \A a \in arts' \ arts : a.type = "PublishableSnapcraft"
    BY <2>2, <2>3
  <2>. QED
    BY <2>3, <2>4, AddsOthers DEF Exclusive, Source
<1>9. CASE createFlatpak(t)
  <2>1. PICK head \in t.bins :
          LET a == flatpakArtifact(cfg.flatpaks[t.at], head, t.bins) IN Writes(t, a.path, {a})
    BY <1>9 DEF createFlatpak
  <2>. DEFINE a == flatpakArtifact(cfg.flatpaks[t.at], head, t.bins)
  <2>2. Writes(t, a.path, {a}) /\ a.type = "Flatpak"
    BY <2>1, OtherFields
  <2>. HIDE DEF a
  <2>. QED
    BY <2>2, WritesAdds DEF Exclusive, Source
<1>10. CASE catalogArtifact(t)
  <2>. DEFINE a == sbomArtifact(cfg.sboms[t.at], t.bins)
  <2>1. Writes(t, a.path, {a}) /\ t.pipe = "sbom"
    BY <1>10 DEF catalogArtifact
  <2>2. a.type = "SBOM" /\ a = sbomArtifact(cfg.sboms[t.at], t.bins)
    BY OtherFields
  <2>. HIDE DEF a
  <2>. QED
    BY <2>1, <2>2, WritesAdds DEF Exclusive, Source
<1>11. CASE sourceArchive(t)
  BY <1>11, OtherFields, WritesAdds DEF sourceArchive, Exclusive, Source
<1>12. CASE createSRPM(t)
  BY <1>12, OtherFields, WritesAdds DEF createSRPM, Exclusive, Source
<1>. QED
  BY <1>1, <1>2, <1>3, <1>4, <1>5, <1>6, <1>7, <1>8, <1>9, <1>10, <1>11, <1>12 DEF Run
-----------------------------------------------------------------------------
(* No two of the archives a configuration describes upload one binary as   *)
(* it is: an archive does that with those of its ids whose platform has    *)
(* the format "binary".                                                    *)
AsIs(a, goos, id) == "binary" \in packageFormats(a, goos) /\ (a.ids = {} \/ id \in a.ids)
AsIsOnce(as) ==
  \A i, j \in DOMAIN as : \A goos, id : AsIs(as[i], goos, id) /\ AsIs(as[j], goos, id) => i = j
UploadedOnce == \A c \in Configs : AsIsOnce(archivesDefault(c.archives))

(* Archives and packages have a file each, the source archive is one, and  *)
(* without the archive pipe nothing is uploaded as it is.                  *)
FilesApart ==
  /\ \A a \in arts : a.type \in Exclusive => a.path \in files
  /\ \A a, b \in arts : a.type \in Exclusive /\ b.type \in Exclusive /\ a.path = b.path => a = b
OneSource == \A a \in arts : a.type = Source => a = sourceArtifact
NoArchives ==
  stage # 1 /\ "archive" \in cfg.skips =>
    (stage = 6 => todo = {}) /\ \A p \in arts : p.type \notin UploadTypes
FirstOnly == stage = 1 => \A a \in arts : a.type \in BuilderTypes
Separate == FilesApart /\ OneSource /\ NoArchives /\ FirstOnly

(* A task of the sbom pipe has one artifact of what its configuration      *)
(* catalogs, or none, and a bill of materials is that of such a task.      *)
Few(c, B) == B = {} \/ \E a \in catalogued(c) : \A x : x \in B <=> x = a
BillOf(s, i) == \E B : s = sbomArtifact(cfg.sboms[i], B) /\ Few(cfg.sboms[i], B)
Handed ==
  stage = 13 => /\ at \in {0, Number("sbom")}
                /\ \A t \in todo : t.at \in DOMAIN cfg.sboms /\ Few(cfg.sboms[t.at], t.bins)
Bills ==
  \A s \in arts : s.type = "SBOM" => stage >= 13 /\ \E i \in DOMAIN cfg.sboms : BillOf(s, i)

LEMMA PlaceOfSBOMs ==
  /\ Stages[13] = "sbom" /\ \A i \in 1..13 : Stages[i] = "sbom" <=> i = 13
BY DEF Stages

LEMMA IndexedBills ==
  ASSUME Ready, stage # 1
  PROVE  Len(cfg.sboms) \in Nat /\ DOMAIN cfg.sboms = 1..Len(cfg.sboms)
<1>1. PICK c \in Configs : cfg = Defaulted(c)
  BY DEF Ready
<1>2. c \in Config!Packages
  BY PackagingAssumption
<1>3. c.sboms \in Seq(Config!SBOM)
  BY <1>2 DEF Config!Packages
<1>4. cfg.sboms = [i \in DOMAIN c.sboms |-> sbomDefault(c.sboms[i])]
  BY <1>1, <1>2 DEF Defaulted, Config!Packages, Each
<1>5. cfg.sboms = [i \in DOMAIN c.sboms |-> cfg.sboms[i]]
  BY <1>4
<1>. QED
  BY <1>3, <1>5, EachIndexed

LEMMA SeparateInit == ASSUME BuiltApart, Init PROVE Separate
<1>1. arts \in Built /\ stage = 1
  BY DEF Init
<1>2. \A a \in arts : a.type \in BuilderTypes
  BY <1>1 DEF BuiltApart
<1>. QED
  BY <1>1, <1>2 DEF Separate, FilesApart, OneSource, NoArchives, FirstOnly, BuilderTypes, Exclusive, Source

(* Tasks of the archive pipe there are none where it is skipped.           *)
LEMMA NoArchivesKept ==
  ASSUME Control, Ready, Began, NoArchives, FirstOnly, Next PROVE NoArchives'
<1>1. CASE Defaults
  <2>1. todo' = {} /\ arts' = arts /\ stage = 1
    BY <1>1, StageList DEF Defaults, GoOn, Fail, In, Going, Ended, Control
  <2>. QED
    BY <2>1 DEF NoArchives, FirstOnly, BuilderTypes, UploadTypes
<1>2. CASE Start \/ Finish
  <2>1. stage # 1 /\ UNCHANGED <<cfg, arts>> /\ (Begins \/ Aborts \/ Leaves)
    BY <1>2, OwnStep
  <2>2. CASE Aborts \/ Leaves
    BY <2>1, <2>2 DEF Aborts, Leaves, NoArchives
  <2>3. CASE Begins
    <3>1. stage = 6 => at < Number("archive") /\ at \in {0, Number("archive")}
      BY <2>3, StageList DEF Begins, Began
    <3>2. "archive" \in cfg.skips => stage # 6
      BY <3>1, NumberOfArchives
    <3>. QED
      BY <2>1, <2>3, <3>2 DEF Begins, NoArchives
  <2>. QED
    BY <2>1, <2>2, <2>3
<1>3. ASSUME NEW t \in todo, Run(t) PROVE NoArchives'
  <2>1. cfg' = cfg /\ stage' = stage /\ stage # 1
    BY <1>3, RunStep DEF Steady, progress, Control
  <2>2. SUFFICES ASSUME "archive" \in cfg.skips
                 PROVE  (stage = 6 => todo' = {}) /\ \A p \in arts' : p.type \notin UploadTypes
    BY <2>1 DEF NoArchives
  <2>3. stage # 6
    BY <1>3, <2>1, <2>2 DEF NoArchives
  <2>4. \A p \in arts' \ arts : p.type \notin UploadTypes
    BY <1>3, <2>3, UploadsOfArchive
  <2>. QED
    BY <2>1, <2>2, <2>3, <2>4 DEF NoArchives
<1>4. CASE Over
  BY <1>4 DEF Over, vars, progress, NoArchives
<1>. QED
  BY <1>1, <1>2, <1>3, <1>4 DEF Next

LEMMA SeparateKept ==
  ASSUME Control, Ready, Began, Separate, [Next]_vars PROVE Separate'
<1>1. ASSUME files' = files, arts' = arts, stage' = 1 => stage = 1
      PROVE  FilesApart' /\ OneSource' /\ FirstOnly'
  BY <1>1 DEF Separate, FilesApart, OneSource, FirstOnly
<1>2. CASE UNCHANGED vars
  <2>1. NoArchives'
    BY <1>2 DEF vars, progress, Separate, NoArchives
  <2>. QED
    BY <1>1, <1>2, <2>1 DEF vars, dist, progress, Separate
<1>3. CASE Defaults \/ Start \/ Finish \/ Over
  <2>1. files' = files /\ arts' = arts
    BY <1>3, OwnStep DEF Defaults, Over, vars, dist
  <2>2. stage' = 1 => stage = 1
    <3>1. CASE Defaults
      BY <3>1, StageList DEF Defaults, In, Going, Ended, Control
    <3>2. CASE Start \/ Finish
      <4>1. stage' \in {stage, stage + 1} /\ stage # 1 /\ stage \in 1..14
        BY <3>2, OwnStep DEF Begins, Aborts, Leaves, Control
      <4>. QED
        BY <4>1
    <3>3. CASE Over
      BY <3>3 DEF Over, vars, progress
    <3>. QED
      BY <1>3, <3>1, <3>2, <3>3
  <2>3. NoArchives'
    BY <1>3, NoArchivesKept DEF Next, Separate
  <2>. QED
    BY <1>1, <2>1, <2>2, <2>3 DEF Separate
<1>4. ASSUME NEW t \in todo, Run(t) PROVE Separate'
  <2>1. NoArchives' /\ Adds(t) /\ stage' = stage /\ stage # 1
    BY <1>4, NoArchivesKept, RunAdds, RunStep DEF Next, Separate, Steady, progress, Control
  <2>2. FilesApart'
    BY <2>1 DEF Adds, Catalogable, Separate, FilesApart
  <2>3. OneSource' /\ FirstOnly'
    BY <2>1 DEF Adds, Catalogable, Separate, OneSource, FirstOnly
  <2>. QED
    BY <2>1, <2>2, <2>3 DEF Separate
<1>. QED
  BY <1>2, <1>3, <1>4 DEF Next

(* While bills are written the artifacts they are for stay.                *)
LEMMA CataloguedStays ==
  ASSUME arts \subseteq arts', \A a \in arts' \ arts : a.type = "SBOM"
  PROVE  \A c, B : Few(c, B) => Few(c, B)'
<1>1. ASSUME NEW c, NEW a \in catalogued(c) PROVE a \in catalogued(c)'
  <2>1. ASSUME ByBinaryLikeArtifacts(a, arts) PROVE ByBinaryLikeArtifacts(a, arts')
    BY <2>1 DEF ByBinaryLikeArtifacts
  <2>2. CASE c.artifacts = "binary"
    BY <1>1, <2>1, <2>2 DEF catalogued
  <2>3. CASE c.artifacts # "binary"
    BY <1>1, <2>3 DEF catalogued
  <2>. QED
    BY <2>2, <2>3
<1>. QED
  BY <1>1 DEF Few

LEMMA TasksOfBills ==
  ASSUME NEW i, NEW t \in TasksOf("sbom", i) PROVE t.at = i /\ Few(cfg.sboms[i], t.bins)
<1>1. t \in sbomTasks(i) /\ t.at = i
  BY TasksMade DEF TasksOf
<1>2. CASE t = Task("sbom", i, "sbom", {})
  <2>1. t.bins = {}
    BY <1>2, TaskFields
  <2>. QED
    BY <1>1, <2>1 DEF Few
<1>3. CASE t \in ForEach("sbom", i, "sbom", catalogued(cfg.sboms[i]))
  <2>1. PICK a \in catalogued(cfg.sboms[i]) : t = Task("sbom", i, "sbom", {a})
    BY <1>3 DEF ForEach
  <2>2. PICK D : D = {a}
    OBVIOUS
  <2>3. t.bins = D
    BY <2>1, <2>2, TaskFields
  <2>4. \A x : x \in D <=> x = a
    BY <2>2
  <2>. QED
    BY <1>1, <2>3, <2>4 DEF Few
<1>. QED
  BY <1>1, <1>2, <1>3 DEF sbomTasks

LEMMA BillsInit == ASSUME BuiltApart, Init PROVE Handed /\ Bills
<1>1. arts \in Built /\ stage = 1
  BY DEF Init
<1>2. \A a \in arts : a.type \in BuilderTypes
  BY <1>1 DEF BuiltApart
<1>. QED
  BY <1>1, <1>2 DEF Handed, Bills, BuilderTypes

LEMMA BillsSame ==
  ASSUME Bills, arts' = arts, cfg' = cfg, stage' = stage \/ stage' = stage + 1, stage \in Nat PROVE Bills'
<1>1. \A c, B : Few(c, B) => Few(c, B)'
  BY CataloguedStays
<1>2. \A s, i : BillOf(s, i) => BillOf(s, i)'
  BY <1>1 DEF BillOf
<1>. QED
  BY <1>2 DEF Bills

LEMMA BillsKept ==
  ASSUME Control, Control', Ready, FirstOnly, Handed, Bills, [Next]_vars PROVE Handed' /\ Bills'
<1>0. stage \in 1..14 /\ stage \in Nat
  BY DEF Control
<1>1. CASE UNCHANGED vars \/ Over
  <2>1. UNCHANGED <<cfg, arts, stage, at, todo>>
    BY <1>1 DEF vars, Over, progress
  <2>2. \A c, B : Few(c, B) => Few(c, B)'
    BY <2>1, CataloguedStays
  <2>. QED
    BY <1>0, <2>1, <2>2, BillsSame DEF Handed, Number
<1>2. CASE Defaults
  <2>1. arts' = arts /\ stage = 1 /\ stage' \in {1, 2}
    BY <1>0, <1>2, StageList DEF Defaults, GoOn, Fail, In, Going, Ended
  <2>2. \A a \in arts' : a.type # "SBOM"
    BY <2>1 DEF FirstOnly, BuilderTypes
  <2>. QED
    BY <2>1, <2>2 DEF Handed, Bills
<1>3. CASE Start \/ Finish
  <2>1. stage # 1 /\ UNCHANGED <<cfg, arts>> /\ (Begins \/ Aborts \/ Leaves)
    BY <1>3, OwnStep
  <2>2. Bills'
    BY <1>0, <2>1, BillsSame DEF Begins, Aborts, Leaves
  <2>3. \A c, B : Few(c, B) => Few(c, B)'
    BY <2>1, CataloguedStays
  <2>4. CASE Aborts
    BY <2>1, <2>2, <2>3, <2>4 DEF Aborts, Handed, Number
  <2>5. CASE Leaves
    BY <2>2, <2>5 DEF Leaves, Handed
  <2>6. CASE Begins
    <3>. DEFINE n == Number("sbom")
    <3>1. stage = 13 => Stages[stage] = "sbom" /\ Upto("sbom") = n
      BY PlaceOfSBOMs DEF Upto
    <3>2. stage = 13 => at < n /\ at' = n
      BY <2>6, <3>1 DEF Begins
    <3>3. n \in {0, Len(cfg.sboms)} /\ n' = n
      BY <2>1 DEF Number
    <3>4. stage = 13 => at = 0 /\ n = Len(cfg.sboms)
      <4>1. Len(cfg.sboms) \in Nat
        BY <2>1, IndexedBills
      <4>2. stage = 13 => at \in {0, n}
        BY DEF Handed
      <4>. HIDE DEF n
      <4>. QED
        BY <3>2, <3>3, <4>1, <4>2
    <3>5. ASSUME stage = 13, NEW t \in todo'
          PROVE  t.at \in DOMAIN cfg.sboms /\ Few(cfg.sboms[t.at], t.bins)
      <4>1. PICK i \in 1..Len(cfg.sboms) : t \in TasksOf("sbom", i)
        <5>1. todo' = UNION {TasksOf("sbom", i) : i \in at + 1..n}
          BY <2>6, <3>1, <3>5 DEF Begins
        <5>. HIDE DEF n
        <5>2. todo' = UNION {TasksOf("sbom", i) : i \in 1..Len(cfg.sboms)}
          BY <3>4, <3>5, <5>1
        <5>. QED
          BY <3>5, <5>2
      <4>2. t.at = i /\ Few(cfg.sboms[i], t.bins)
        BY <4>1, TasksOfBills
      <4>. QED
        BY <2>1, <4>1, <4>2, IndexedBills
    <3>6. stage' = stage
      BY <2>6 DEF Begins
    <3>. QED
      BY <2>1, <2>2, <2>3, <3>2, <3>3, <3>5, <3>6 DEF Handed
  <2>. QED
    BY <2>1, <2>4, <2>5, <2>6
<1>4. ASSUME NEW t \in todo, Run(t) PROVE Handed' /\ Bills'
  <2>1. cfg' = cfg /\ stage' = stage /\ at' = at /\ stage # 1 /\ stage \in 2..13 /\ t.pipe = Stages[stage]
    BY <1>4, RunStep DEF Steady, progress, Control
  <2>2. \A a \in arts' \ arts : a.type = "SBOM" => t.pipe = "sbom" /\ a = sbomArtifact(cfg.sboms[t.at], t.bins)
    BY <1>4, RunAdds DEF Adds, Catalogable
  <2>3. CASE stage # 13
    <3>1. t.pipe # "sbom"
      BY <2>1, <2>3, PlaceOfSBOMs
    <3>2. \A a \in arts' : a.type # "SBOM"
      BY <2>1, <2>2, <2>3, <3>1 DEF Bills
    <3>. QED
      BY <2>1, <2>3, <3>2 DEF Handed, Bills
  <2>4. CASE stage = 13
    <3>1. t.pipe = "sbom" /\ todo' \subseteq todo /\ arts \subseteq arts'
      BY <1>4, <2>1, <2>4, PlaceOfSBOMs, OtherStep DEF Ends, Breaks, Grows
    <3>2. \A a \in arts' \ arts : a.type = "SBOM"
      <4>1. catalogArtifact(t)
        BY <1>4, <3>1 DEF Run, makeUniversalBinary, addUniversalBinary, replaceSlices, compressOne, signBinary,
           signAndNotarize, createArchive, UploadAsItIs, createPackage, createMakeself, createSnap,
           createFlatpak, sourceArchive, createSRPM
      <4>. DEFINE a == sbomArtifact(cfg.sboms[t.at], t.bins)
      <4>2. a.type = "SBOM"
        BY OtherFields
      <4>3. arts' \subseteq arts \cup {a}
        BY <4>1 DEF catalogArtifact, Writes
      <4>. QED
        BY <4>2, <4>3
    <3>3. \A c, B : Few(c, B) => Few(c, B)'
      BY <3>1, <3>2, CataloguedStays
    <3>4. Handed'
      BY <2>1, <2>4, <3>1, <3>3 DEF Handed, Number
    <3>5. \A s, i : BillOf(s, i) => BillOf(s, i)'
      BY <2>1, <3>3 DEF BillOf
    <3>6. t.at \in DOMAIN cfg.sboms /\ Few(cfg.sboms[t.at], t.bins)
      BY <1>4, <2>4 DEF Handed
    <3>7. \A s \in arts' \ arts : BillOf(s, t.at)
      BY <2>2, <3>2, <3>6 DEF BillOf
    <3>. QED
      BY <2>1, <2>4, <3>4, <3>5, <3>6, <3>7 DEF Bills
  <2>. QED
    BY <2>3, <2>4
<1>. QED
  BY <1>1, <1>2, <1>3, <1>4 DEF Next

(* What is packaged is of the ids of its artifact alone.                   *)
LEMMA StringIDs ==
  ASSUME NEW a, NEW in, a.type \in Packaged, ByIDs(a, in) PROVE in = {} \/ a.id \in in
BY DEF ByIDs, autoOr, OfEveryID, Packaged

LEMMA BillFields ==
  \A c, B : sbomArtifact(c, B).id = c.id /\ sbomArtifact(c, B).of = Paths(B)
BY DEF sbomArtifact, Blank

(* An artifact has a path of its own among those that are catalogued.      *)
LEMMA PlainUpload ==
  ASSUME Sound, Stock, NoArchives, stage >= 13, NEW p \in arts, p.type = "UploadableBinary"
  PROVE  \E i \in DOMAIN cfg.archives, b \in Packs :
           /\ AsIs(cfg.archives[i], b.goos, b.id) /\ p.path = b.path
           /\ \A d : b \in d => p \in skip(cfg.archives[i], d)
<1>1. stage \in 13..14 /\ p.type \in UploadTypes /\ FinitePacks
  BY DEF Sound, Grounds, Control, UploadTypes
<1>2. Accounted
  BY <1>1 DEF NoArchives, Stock, Delivered, Before
<1>3. PICK T \in AllTasks : From(T, p)
  BY <1>1, <1>2 DEF Accounted
<1>4. PICK c, B, i : c = cfg.archives[T.at] /\ B = T.bins /\ i = T.at
  OBVIOUS
<1>5. T.part = "binary" /\ p \in skip(c, B)
  BY <1>3, <1>4 DEF From
<1>6. i \in DOMAIN cfg.archives /\ T \in TasksFor(c, i, Archivable(c))
  BY <1>1, <1>4, TaskOfArchive, ArchiveTasks
<1>7. PICK b \in B : p.path = b.path /\ \A d : b \in d => p \in skip(c, d)
  BY <1>5, SkipFields
<1>. DEFINE Formats(h) == packageFormats(c, (CHOOSE x \in h : TRUE).goos) \ {"none"}
<1>8. CASE c.meta
  <2>1. PICK f : T = Task("archive", i, f, {})
    BY <1>6, <1>8 DEF TasksFor
  <2>2. B = {}
    BY <1>4, <2>1, TaskFields
  <2>. QED
    BY <1>7, <2>2
<1>9. CASE ~c.meta
  <2>1. PICK g \in GroupByPlatform(Archivable(c)) : \E f \in Formats(g) : T = Task("archive", i, f, g)
    BY <1>6, <1>9 DEF TasksFor
  <2>2. B = g /\ "binary" \in Formats(g)
    BY <1>4, <1>5, <2>1, TaskFields
  <2>3. IsFiniteSet(Archivable(c)) /\ Archivable(c) \subseteq Packs
    <3>1. Archivable(c) \subseteq Packs
      BY DEF Archivable
    <3>. QED
      BY <1>1, <3>1, FS_Subset DEF FinitePacks
  <2>4. (CHOOSE x \in g : TRUE).goos = b.goos
    <3>1. (CHOOSE x \in g : TRUE) \in g
      BY <1>7, <2>2
    <3>. QED
      BY <1>7, <2>2, <2>3, <3>1, GroupAlike DEF Alike, Match
  <2>5. b \in Archivable(c)
    BY <1>7, <2>1, <2>2, GroupOf
  <2>6. c.ids = {} \/ b.id \in c.ids
    BY <2>5, StringIDs DEF Archivable, Packs
  <2>7. AsIs(c, b.goos, b.id)
    BY <2>2, <2>4, <2>6 DEF AsIs
  <2>. QED
    BY <1>4, <1>6, <1>7, <2>3, <2>5, <2>7
<1>. QED
  BY <1>8, <1>9

LEMMA OncePerPath ==
  ASSUME UploadedOnce, Sound, Stock, Separate, stage >= 13, NEW c, NEW a \in catalogued(c), NEW b \in catalogued(c),
         a.path = b.path
  PROVE  a = b
<1>1. CASE c.artifacts = "source"
  BY <1>1 DEF catalogued, Separate, OneSource, Source
<1>2. CASE c.artifacts \in {"archive", "package"}
  BY <1>2 DEF catalogued, Separate, FilesApart, Exclusive
<1>3. CASE c.artifacts = "binary"
  <2>1. a \in arts /\ b \in arts /\ ByBinaryLikeArtifacts(a, arts) /\ ByBinaryLikeArtifacts(b, arts)
    BY <1>3 DEF catalogued
  <2>2. a.type \in {"Binary", "UploadableBinary", "UniversalBinary"} /\ b.type \in {"Binary", "UploadableBinary", "UniversalBinary"}
    <3>1. {"Binary", "UploadableBinary", "UniversalBinary"} # {}
      OBVIOUS
    <3>. QED
      BY <2>1, <3>1, OfTypes DEF ByBinaryLikeArtifacts
  <2>3. a.type = "UploadableBinary" <=> b.type = "UploadableBinary"
    BY <2>1 DEF ByBinaryLikeArtifacts
  <2>4. CASE a.type # "UploadableBinary"
    <3>1. a \in Packs /\ b \in Packs
      BY <2>1, <2>2, <2>3, <2>4 DEF Packs, Packaged
    <3>. QED
      BY <3>1 DEF Sound, Apart, PathsApart
  <2>5. CASE a.type = "UploadableBinary"
    <3>0. NoArchives
      BY DEF Separate
    <3>1. PICK i \in DOMAIN cfg.archives, x \in Packs :
            /\ AsIs(cfg.archives[i], x.goos, x.id) /\ a.path = x.path
            /\ \A d : x \in d => a \in skip(cfg.archives[i], d)
      BY <2>1, <2>5, <3>0, PlainUpload
    <3>2. PICK j \in DOMAIN cfg.archives, y \in Packs :
            /\ AsIs(cfg.archives[j], y.goos, y.id) /\ b.path = y.path
            /\ \A d : y \in d => b \in skip(cfg.archives[j], d)
      BY <2>1, <2>3, <2>5, <3>0, PlainUpload
    <3>3. x = y
      BY <3>1, <3>2 DEF Sound, Apart, PathsApart
    <3>4. i = j
      <4>1. stage # 1 /\ Ready
        BY DEF Sound, Grounds
      <4>2. PICK e \in Configs : cfg = Defaulted(e)
        BY <4>1 DEF Ready
      <4>3. e \in Config!Packages
        BY PackagingAssumption
      <4>4. cfg.archives = archivesDefault(e.archives)
        BY <4>2, <4>3 DEF Defaulted, Config!Packages
      <4>5. AsIsOnce(cfg.archives)
        BY <4>4 DEF UploadedOnce
      <4>. QED
        BY <3>1, <3>2, <3>3, <4>5 DEF AsIsOnce
    <3>5. PICK k, D : k = cfg.archives[i] /\ \A z : z \in D <=> z = x
      <4>1. \A z : z \in {x} <=> z = x
        OBVIOUS
      <4>. QED
        BY <4>1
    <3>6. a \in skip(k, D) /\ b \in skip(k, D)
      BY <3>1, <3>2, <3>3, <3>4, <3>5
    <3>7. PICK p : \A q, d : q \in skip(k, d) /\ (\A z \in d : z = x) => q = p
      BY SkipOne
    <3>. QED
      BY <3>5, <3>6, <3>7
  <2>. QED
    BY <2>4, <2>5
<1>. QED
  BY <1>1, <1>2, <1>3 DEF catalogued

(* An artifact has one bill of materials of a configuration: an archive, a *)
(* package, the source archive, and a binary, even where it is uploaded    *)
(* as it is, too; for any configurations none of whose archives upload one *)
(* binary twice, and binaries built into files of their own.               *)
THEOREM CataloguedAtMostOnce == ASSUME BuiltApart, UploadedOnce PROVE Spec => []CataloguedOnce
<1>. DEFINE All == Sound /\ Stock /\ Separate /\ Handed /\ Bills
<1>1. Init => All
  BY SoundInit, StockInit, SeparateInit, BillsInit
<1>2. ASSUME All, [Next]_vars PROVE All'
  <2>1. Sound' /\ Stock'
    BY <1>2, SoundKept, StockKept
  <2>2. Control /\ Control' /\ Ready /\ Began /\ FirstOnly
    BY <1>2, <2>1 DEF Sound, Grounds, Stock, Separate
  <2>3. Separate'
    BY <1>2, <2>2, SeparateKept
  <2>4. Handed' /\ Bills'
    BY <1>2, <2>2, BillsKept
  <2>. QED
    BY <2>1, <2>3, <2>4
<1>3. ASSUME All PROVE CataloguedOnce
  <2>1. SUFFICES ASSUME NEW s \in arts, NEW t \in arts, s.type = "SBOM", t.type = "SBOM", s.id = t.id,
                        NEW path \in s.of \cap t.of
                 PROVE  s = t
    BY DEF CataloguedOnce
  <2>2. PICK i \in DOMAIN cfg.sboms : stage >= 13 /\ BillOf(s, i)
    BY <1>3, <2>1 DEF Bills
  <2>3. PICK j \in DOMAIN cfg.sboms : BillOf(t, j)
    BY <1>3, <2>1 DEF Bills
  <2>4. PICK B : s = sbomArtifact(cfg.sboms[i], B) /\ Few(cfg.sboms[i], B)
    BY <2>2 DEF BillOf
  <2>5. PICK D : t = sbomArtifact(cfg.sboms[j], D) /\ Few(cfg.sboms[j], D)
    BY <2>3 DEF BillOf
  <2>6. s.id = cfg.sboms[i].id /\ s.of = Paths(B) /\ t.id = cfg.sboms[j].id /\ t.of = Paths(D)
    BY <2>4, <2>5, BillFields
  <2>7. i = j
    <3>1. stage # 1
      BY <2>2
    <3>2. UniqueIDs(cfg.sboms)
      BY <1>3, <3>1 DEF Sound, Grounds, Ready, Valid
    <3>. QED
      BY <2>1, <2>6, <3>2 DEF UniqueIDs
  <2>8. path \in Paths(B) /\ path \in Paths(D)
    BY <2>1, <2>6
  <2>9. PICK a \in catalogued(cfg.sboms[i]) : \A x : x \in B <=> x = a
    BY <2>4, <2>8 DEF Few, Paths
  <2>10. PICK b \in catalogued(cfg.sboms[i]) : \A x : x \in D <=> x = b
    BY <2>5, <2>7, <2>8 DEF Few, Paths
  <2>11. a.path = b.path
    BY <2>8, <2>9, <2>10 DEF Paths
  <2>12. a = b
    <3>1. PICK c : c = cfg.sboms[i]
      OBVIOUS
    <3>. QED
      BY <1>3, <2>2, <2>9, <2>10, <2>11, <3>1, OncePerPath
  <2>13. B = D
    BY <2>9, <2>10, <2>12
  <2>. QED
    BY <2>4, <2>5, <2>7, <2>13
<1>. HIDE DEF All
<1>. QED
  BY <1>1, <1>2, <1>3, PTL DEF Spec
=============================================================================
