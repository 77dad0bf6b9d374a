----------------------------- MODULE Packaging -----------------------------
(***************************************************************************)
(* From built binaries to what is released: the packaging pipes run in     *)
(* pipeline order over one list of artifacts and one dist directory.       *)
(*                                                                         *)
(* A pipe turns its configurations into tasks; tasks run in any order, one *)
(* at a time as far as the list and dist tell (groups are TaskGroup's). A  *)
(* failed task leaves the others running and fails the pipe at its end.    *)
(***************************************************************************)
EXTENDS Packagers

CONSTANTS
  Built,        \* the lists of artifacts the build pipe may have left
  Configs,      \* the configurations to consider
  Tools,        \* the sets of tools to consider
  MaxFaults     \* bound: how many tasks fail for a reason outside the model

Config == INSTANCE Configuration
ASSUME PackagingAssumption ==
  /\ MaxFaults \in Nat /\ \A c \in Configs : c \in Config!Packages
  /\ \A list \in Built : IsFiniteSet(list) /\ \A a \in list : a.type \in Types

VARIABLES
  built,     \* what the build pipe left
  files,     \* the files the pipes wrote to dist
  prime,     \* snapcraft's prime directories: which binary is in which
  packed,    \* binaries upx packed, by path
  signed,    \* binaries binary_signs signed, by path
  notarized, \* binaries signed again for macOS and notarized, by path
  stage,     \* the pipe at work, an index of Stages
  at,        \* how many of its configurations it has begun
  todo,      \* tasks under way
  failed,    \* a task of this pipe failed
  faults,    \* failures still to come
  result     \* of the run

settings == <<tools, built>>
progress == <<stage, at, result>>
treatments == <<packed, signed, notarized>>
dist == <<files, prime>>
vars == <<cfg, settings, arts, dist, treatments, progress, todo, failed, faults>>

Stages ==
  <<"defaults", "universalbinary", "upx", "sign.Binary", "notary", "archive",
    "sourcearchive", "nfpm", "srpm", "makeself", "snapcraft", "flatpak", "sbom">>
Ended == stage > Len(Stages)
Going == ~Ended /\ result = "none"
In(s) == Going /\ Stages[stage] = s
Past(s) == \E i \in DOMAIN Stages : Stages[i] = s /\ i < stage

Init ==
  /\ cfg \in Configs /\ tools \in Tools /\ built \in Built
  /\ arts = built /\ files = {} /\ prime = {}
  /\ packed = {} /\ signed = {} /\ notarized = {}
  /\ stage = 1 /\ at = 0 /\ todo = {} /\ failed = FALSE
  /\ faults = MaxFaults /\ result = "none"
-----------------------------------------------------------------------------
Fail == result' = "err" /\ todo' = {} /\ UNCHANGED <<stage, at, failed>>
GoOn ==
  /\ stage' = stage + 1 /\ at' = 0 /\ todo' = {} /\ UNCHANGED failed
  /\ result' = IF stage = Len(Stages) THEN "ok" ELSE "none"

Defaults ==
  /\ In("defaults")
  /\ cfg' = Defaulted(cfg)
  /\ IF Valid(cfg') THEN GoOn ELSE Fail
  /\ UNCHANGED <<settings, arts, dist, treatments, faults>>

(* What --skip and the configuration leave of a pipe.                      *)
SkipKey(s) == CASE s = "sign.Binary" -> "sign" [] s = "notary" -> "notarize" [] OTHER -> s
Unskippable == {"universalbinary", "upx", "sourcearchive"}
Number(s) ==
  IF s \notin Unskippable /\ SkipKey(s) \in cfg.skips THEN 0 ELSE
  CASE s = "universalbinary" -> Len(cfg.unibins) [] s = "upx" -> Len(cfg.upxs)
    [] s = "sign.Binary" -> Len(cfg.binarySigns) [] s = "notary" -> Len(cfg.notary)
    [] s = "archive" -> Len(cfg.archives) [] s = "nfpm" -> Len(cfg.nfpms)
    [] s = "makeself" -> Len(cfg.makeselfs) [] s = "snapcraft" -> Len(cfg.snaps)
    [] s = "flatpak" -> Len(cfg.flatpaks) [] s = "sbom" -> Len(cfg.sboms)
    [] s = "sourcearchive" -> (IF cfg.source THEN 1 ELSE 0)
    [] s = "srpm" -> (IF cfg.srpm THEN 1 ELSE 0)

TasksOf(s, i) ==
  CASE s = "sign.Binary" -> ForEach(s, i, "sign", signedBy(cfg.binarySigns[i]))
    [] s = "upx" -> upxTasks(i) [] s = "notary" -> notaryTasks(i)
    [] s = "archive" -> archiveTasks(i) [] s = "nfpm" -> nfpmTasks(i)
    [] s = "makeself" -> makeselfTasks(i) [] s = "snapcraft" -> snapTasks(i)
    [] s = "flatpak" -> flatpakTasks(i) [] s = "sbom" -> sbomTasks(i)
    [] OTHER -> {Task(s, i, s, {})}

(* nfpm, snapcraft and flatpak finish a configuration before the next; the *)
(* others start the tasks of all of them.                                  *)
Upto(s) == IF s \in {"nfpm", "snapcraft", "flatpak"} THEN at + 1 ELSE Number(s)

(* What ends the pipe before it starts any task of a configuration, and    *)
(* what fails a configuration while the others go on.                      *)
Refuses(s, i) ==
  CASE s = "archive" -> ~validArchive(cfg.archives[i])
    [] s = "nfpm" -> cfg.nfpms[i].formats # {} /\ findArtifacts(cfg.nfpms[i]) = {}
    [] s = "srpm" -> Cardinality(Sources) # 1
    [] s = "snapcraft" -> ~cfg.snaps[i].disable /\ "snapcraft" \notin tools
    [] s = "flatpak" -> ~cfg.flatpaks[i].disable /\ "flatpak-builder" \notin tools
    [] OTHER -> FALSE
Stumbles(s, i) ==
  \/ s = "makeself" /\ ~cfg.makeselfs[i].disable /\ selfExtracting(cfg.makeselfs[i]) = {}
  \/ s = "sbom" /\ ~validSBOM(cfg.sboms[i])

Start ==
  /\ Going /\ ~In("defaults") /\ todo = {} /\ ~failed
  /\ LET s == Stages[stage]
         now == at + 1..Upto(s) IN
     /\ at < Number(s)
     /\ IF \E i \in now : Refuses(s, i)
          THEN Fail
          ELSE /\ todo' = UNION {TasksOf(s, i) : i \in now}
               /\ at' = Upto(s) /\ failed' = (\E i \in now : Stumbles(s, i))
               /\ UNCHANGED <<stage, result>>
  /\ UNCHANGED <<settings, cfg, arts, dist, treatments, faults>>

Finish ==
  /\ Going /\ ~In("defaults") /\ todo = {}
  /\ failed \/ at = Number(Stages[stage])
  /\ IF failed THEN Fail ELSE GoOn
  /\ UNCHANGED <<settings, cfg, arts, dist, treatments, faults>>
-----------------------------------------------------------------------------
(* A task ends well, badly, or goes on to its next step. catalog stops at  *)
(* the first artifact of a configuration it cannot catalog, and signing    *)
(* and notarizing work through the binaries of one the same way.           *)
Succeeds(t) == todo' = todo \ {t} /\ UNCHANGED <<failed, faults>>
OneAfterTheOther == {"sbom", "sign.Binary", "notary"}
Breaks(t) ==
  /\ todo' = {x \in todo : x # t /\ ~(x.pipe \in OneAfterTheOther /\ x.at = t.at)}
  /\ failed' = TRUE
GoesOn(t, part, bins) ==
  /\ todo' = (todo \ {t}) \cup {[t EXCEPT !.part = part, !.bins = bins]}
  /\ UNCHANGED <<failed, faults>>
Unfortunate(t) == faults > 0 /\ faults' = faults - 1 /\ Breaks(t)
Refused(t) == Breaks(t) /\ UNCHANGED faults
Steady == UNCHANGED <<settings, cfg, progress>>

(* A universal binary: reads its slices; is written and added; replaces    *)
(* them, if it should, once its post hooks went well.                      *)
makeUniversalBinary(t) ==
  /\ t.pipe = "universalbinary" /\ t.part = "universalbinary"
  /\ LET bins == slices(cfg.unibins[t.at]) IN
     \/ bins = {} /\ Succeeds(t)
     \/ bins # {} /\ DuplicateSlice(bins) /\ Refused(t)
     \/ bins # {} /\ ~DuplicateSlice(bins) /\ GoesOn(t, "add", bins)
     \/ Unfortunate(t)
  /\ UNCHANGED <<arts, dist, treatments>> /\ Steady

addUniversalBinary(t) ==
  /\ t.pipe = "universalbinary" /\ t.part = "add"
  /\ \E head \in t.bins :
       LET u == Universal(cfg.unibins[t.at], head, t.bins) IN
       arts' = Add(arts, u) /\ files' = files \cup {u.path}
  /\ IF cfg.unibins[t.at].replace THEN GoesOn(t, "replace", t.bins) ELSE Succeeds(t)
  /\ UNCHANGED <<prime, treatments>> /\ Steady

Replaced_OfAnyID(u) == {a \in arts : a.type = "Binary" /\ a.goos = "darwin"}
Replaced_None(u) == {}
Replaced(u) == slices(u)
replaceSlices(t) ==
  /\ t.pipe = "universalbinary" /\ t.part = "replace"
  /\ \/ arts' = arts \ Replaced(cfg.unibins[t.at]) /\ Succeeds(t)
     \/ Unfortunate(t) /\ UNCHANGED arts
  /\ UNCHANGED <<dist, treatments>> /\ Steady

(* upx fails, packs, or leaves the binary as it is for a reason it knows,  *)
(* such as that the binary is packed.                                      *)
compressOne(t) ==
  /\ t.pipe = "upx"
  /\ \/ Succeeds(t) /\ (packed' = packed \cup Paths(t.bins) \/ UNCHANGED packed)
     \/ Unfortunate(t) /\ UNCHANGED packed
  /\ UNCHANGED <<arts, dist, signed, notarized>> /\ Steady

signBinary(t) ==
  /\ t.pipe = "sign.Binary"
  /\ \/ /\ Succeeds(t)
        /\ signed' = signed \cup Paths(t.bins)
        /\ arts' = arts \cup {signatureArtifact(cfg.binarySigns[t.at], b) : b \in t.bins}
     \/ Unfortunate(t) /\ UNCHANGED <<arts, signed>>
  /\ UNCHANGED <<dist, packed, notarized>> /\ Steady

(* The binary is signed for macOS in place, then notarized.                *)
signAndNotarize(t) ==
  /\ t.pipe = "notary"
  /\ notarized' = notarized \cup Paths(t.bins)
  /\ Succeeds(t) \/ Unfortunate(t)
  /\ UNCHANGED <<arts, dist, packed, signed>> /\ Steady
-----------------------------------------------------------------------------
(* A file is written and its artifact added; or the task fails after it    *)
(* wrote, with nothing added.                                              *)
Heads(t) == IF t.bins = {} THEN {Blank} ELSE t.bins
Writes(t, path, added) ==
  /\ files' = files \cup {path}
  /\ \/ Succeeds(t) /\ arts' = arts \cup added
     \/ Unfortunate(t) /\ UNCHANGED arts
Yields(t) == Refused(t) /\ UNCHANGED <<arts, files>>
Keeps == UNCHANGED <<prime, treatments>> /\ Steady

Taken_Never(path) == FALSE
Taken(path) == path \in files

createArchive(t) ==
  /\ t.pipe = "archive" /\ t.part # "binary"
  /\ \E head \in Heads(t) :
       LET a == archiveArtifact(cfg.archives[t.at], t.part, head, t.bins) IN
       IF Taken(a.path) THEN Yields(t) ELSE Writes(t, a.path, {a})
  /\ Keeps

UploadAsItIs(t) ==
  /\ t.pipe = "archive" /\ t.part = "binary"
  /\ \/ Succeeds(t) /\ arts' = arts \cup skip(cfg.archives[t.at], t.bins)
     \/ Unfortunate(t) /\ UNCHANGED arts
  /\ UNCHANGED <<files>> /\ Keeps

createPackage(t) ==
  /\ t.pipe = "nfpm"
  /\ \E head \in t.bins :
       LET a == nfpmArtifact(cfg.nfpms[t.at], t.part, head, t.bins) IN
       IF Taken(a.path) THEN Yields(t) ELSE Writes(t, a.path, {a})
  /\ Keeps

createMakeself(t) ==
  /\ t.pipe = "makeself"
  /\ LET c == cfg.makeselfs[t.at] IN
     IF ~c.script \/ "makeself" \notin tools THEN Yields(t)
     ELSE \E head \in t.bins :
            LET a == makeselfArtifact(c, head, t.bins, makeselfContext(c, Key(head, selfExtracting(c)))) IN
            Writes(t, a.path, {a})
  /\ Keeps

(* A snap is packed from a directory its name decides, with all that was   *)
(* ever copied there.                                                      *)
createSnap(t) ==
  /\ t.pipe = "snapcraft"
  /\ \E head \in t.bins :
       LET dir == snapPath(head)
           contents == {x[2] : x \in {y \in prime' : y[1] = dir}} IN
       /\ prime' = prime \cup {<<dir, b.path>> : b \in t.bins}
       /\ Writes(t, dir, IF cfg.snaps[t.at].publish THEN {snapArtifact(head, contents)} ELSE {})
  /\ UNCHANGED treatments /\ Steady

createFlatpak(t) ==
  /\ t.pipe = "flatpak"
  /\ \E head \in t.bins :
       LET a == flatpakArtifact(cfg.flatpaks[t.at], head, t.bins) IN Writes(t, a.path, {a})
  /\ Keeps

catalogArtifact(t) ==
  /\ t.pipe = "sbom"
  /\ LET a == sbomArtifact(cfg.sboms[t.at], t.bins) IN Writes(t, a.path, {a})
  /\ Keeps

sourceArchive(t) == t.pipe = "sourcearchive" /\ Writes(t, sourceArtifact.path, {sourceArtifact}) /\ Keeps
createSRPM(t) == t.pipe = "srpm" /\ Writes(t, srpmArtifact.path, {srpmArtifact}) /\ Keeps
-----------------------------------------------------------------------------
Run(t) ==
  \/ makeUniversalBinary(t) \/ addUniversalBinary(t) \/ replaceSlices(t)
  \/ compressOne(t) \/ signBinary(t) \/ signAndNotarize(t)
  \/ createArchive(t) \/ UploadAsItIs(t) \/ createPackage(t) \/ createMakeself(t)
  \/ createSnap(t) \/ createFlatpak(t) \/ catalogArtifact(t)
  \/ sourceArchive(t) \/ createSRPM(t)
Over == ~Going /\ UNCHANGED vars
Next == Defaults \/ Start \/ Finish \/ (\E t \in todo : Run(t)) \/ Over
Spec == Init /\ [][Next]_vars
-----------------------------------------------------------------------------
BinaryTypes == {"Binary", "Header", "CArchive", "CShared"}
Packages == {"UploadableArchive", "Makeself", "LinuxPackage", "MSIX", "Flatpak",
             "PublishableSnapcraft", "UploadableBinary"}

(* Universal binaries made side by side read the list others remove from.  *)
(* A darwin binary that left the list is a slice of a universal binary     *)
(* that is in it: none is lost to a task that failed or found too few.     *)
RemovedIsBundled ==
  \A b \in built \ arts : \E u \in arts : u.type = "UniversalBinary" /\ b.path \in u.of

(* replace, across pipes: after universalbinary no package, archive or     *)
(* plain upload holds a binary that a universal one replaces.              *)
ReplacedStayOut ==
  \A u, p \in arts :
    u.type = "UniversalBinary" /\ u.replaces /\ p.type \in Packages => u.of \cap p.of = {}

(* checkArtifacts, overrides, groups and the loop over formats together:   *)
(* when the archive pipe is past, each binary an archive configuration is  *)
(* for is in exactly one upload of each of its formats.                    *)
Uploads(c, f, b) ==
  {p \in arts : /\ p.type \in {"UploadableArchive", "UploadableBinary"}
                /\ p.id = c.id /\ p.format = f /\ b.path \in p.of}
EachBinaryArchivedOnce ==
  Past("archive") /\ "archive" \notin cfg.skips =>
    \A i \in DOMAIN cfg.archives : \A b \in arts :
      LET c == cfg.archives[i] IN
      b.type \in BinaryTypes \cup {"UniversalBinary"} /\ ~c.meta /\ (c.ids = {} \/ b.id \in c.ids) =>
        \A f \in packageFormats(c, b.goos) \ {"none"} : Cardinality(Uploads(c, f, b)) = 1

(* GroupByPlatform: what is packaged together runs on the same machines.   *)
VariantsApart ==
  \A p \in arts : p.type \in Packages =>
    \A a, b \in built : a.path \in p.of /\ b.path \in p.of =>
      /\ a.goos = b.goos /\ a.goarch = b.goarch
      /\ \A f \in VariantFields : a.variant[f] = b.variant[f] \/ NoVariant \in {a.variant[f], b.variant[f]}

(* archive takes its lock between the look and the creation, nfpm creates  *)
(* exclusively: neither writes over what another task has made, whatever   *)
(* the configured names, and every file has one artifact.                  *)
NothingOverwritten ==
  [][\A a \in arts' \ arts : a.type \in {"UploadableArchive", "LinuxPackage", "MSIX"} => a.path \notin files]_vars

(* ByBinaryLikeArtifacts: a binary that is also uploaded as it is gets one *)
(* bill of materials of a configuration, not two.                          *)
CataloguedOnce ==
  \A s, t \in arts : s.type = "SBOM" /\ t.type = "SBOM" /\ s.id = t.id /\ s.of \cap t.of # {} => s = t

(* isValidArch knows arm64: a snap is made of every linux arm64 binary.    *)
EveryArchSnapped ==
  Past("snapcraft") =>
    \A i \in DOMAIN cfg.snaps : \A b \in arts :
      /\ cfg.snaps[i].publish /\ ~cfg.snaps[i].disable
      /\ b \in snapped(cfg.snaps[i]) /\ isValidArch(archToSnap(b.goarch))
      => \E p \in arts : p.type = "PublishableSnapcraft" /\ b.path \in p.of

=============================================================================
