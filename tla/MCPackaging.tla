---------------------------- MODULE MCPackaging ----------------------------
(* Small instances of the packaging pipes.                                 *)
EXTENDS Packaging, TLC

Fields == {"goamd64", "goarm64"}
Levels(x, y) == [f \in Fields |-> IF f = "goamd64" THEN x ELSE y]
Bin(goos, goarch, levels, id) ==
  [Blank EXCEPT !.type = "Binary", !.goos = goos, !.goarch = goarch, !.variant = levels,
                !.id = id, !.name = <<id>>, !.path = <<id, goos, goarch, levels>>]

MacIntel == Bin("darwin", "amd64", Levels("v1", ""), "app")
MacArm == Bin("darwin", "arm64", Levels("", "v8.0"), "app")
Intel == Bin("linux", "amd64", Levels("v1", ""), "app")
Modern == Bin("linux", "amd64", Levels("v3", ""), "app")
Arm == Bin("linux", "arm64", Levels("", "v8.0"), "app")
MacTool == Bin("darwin", "arm64", Levels("", "v8.0"), "tool")
Tool == Bin("linux", "amd64", Levels("v1", ""), "tool")

OneLevel == {MacIntel, MacArm, Intel, Arm}
TwoLevels == {Intel, Modern, Arm}
TwoIDs == {MacIntel, MacArm, MacTool, Intel, Tool}

Empty ==
  [unibins |-> <<>>, upxs |-> <<>>, binarySigns |-> <<>>, notary |-> <<>>,
   archives |-> <<>>, source |-> FALSE, nfpms |-> <<>>, srpm |-> FALSE,
   makeselfs |-> <<>>, snaps |-> <<>>, flatpaks |-> <<>>, sboms |-> <<>>, skips |-> {}]

Uni(id, ids, replace) == [id |-> id, ids |-> ids, replace |-> replace]
Upx(ids) == [enabled |-> TRUE, goos |-> {}, goarch |-> {}, goamd64 |-> {}, ids |-> ids]
Archive(id, ids, formats, template) ==
  [id |-> id, ids |-> ids, formats |-> formats, overrides |-> <<>>, meta |-> FALSE,
   uneven |-> TRUE, template |-> template]
Over1(a, goos, formats) == [a EXCEPT !.overrides = <<[goos |-> goos, formats |-> formats]>>]
Nfpm(id, ids) ==
  [id |-> id, ids |-> ids, formats |-> {"deb", "archlinux"}, goamd64 |-> {"v1"}, meta |-> FALSE,
   template |-> "", keys |-> [deb |-> "key"]]
Makeself(id, goos) == [id |-> id, ids |-> {}, goos |-> goos, goarch |-> {}, disable |-> FALSE, script |-> goos # {}]
Snap(id, ids) ==
  [id |-> id, ids |-> ids, disable |-> FALSE, publish |-> TRUE, described |-> TRUE,
   grade |-> "", channels |-> {}]
Flat(id, ids) == [id |-> id, ids |-> ids, disable |-> FALSE, described |-> TRUE]
Sbom(id, what) == [id |-> id, ids |-> {}, artifacts |-> what, disable |-> FALSE]
Signs(id) == [id |-> id, ids |-> {}, artifacts |-> "binary"]
Notary(ids) == [enabled |-> TRUE, ids |-> ids]

(* Two universal binaries of the same slices; archives, and their bills.   *)
Universals ==
  {[Empty EXCEPT !.unibins = <<Uni("one", {"app"}, TRUE), Uni("two", {"app"}, r)>>,
                 !.archives = <<Archive("a", {"app", "one", "two"}, {"tar.gz"}, "")>>,
                 !.sboms = <<Sbom("", "archive")>>] : r \in BOOLEAN}
  \cup {[Empty EXCEPT !.unibins = <<Uni("", {"app", "tool"}, TRUE)>>]}
  \cup {[Empty EXCEPT !.unibins = <<Uni("", {"app"}, TRUE)>>, !.upxs = <<Upx({"app"}), Upx({})>>,
                      !.archives = <<[Archive("", {}, {}, "") EXCEPT !.uneven = FALSE]>>]}

(* Archives next to plain binaries, with overrides and the same names.     *)
Archives ==
  {[Empty EXCEPT !.archives = <<Over1(Archive("a", {"app"}, {"tar.gz", "binary"}, ""), "darwin", {"zip", "none"}),
                                Archive("b", ids, {"tar.gz"}, t)>>,
                 !.sboms = <<Sbom("bin", "binary"), [Sbom("any", "any") EXCEPT !.disable = (t = "")]>>]
     : ids \in {{}, {"tool"}}, t \in {"", "Binary"}}

(* The packages of a linux machine.                                        *)
Linux ==
  {[Empty EXCEPT !.archives = <<[Archive("m", {}, {"tar.gz"}, "") EXCEPT !.meta = TRUE]>>,
                 !.nfpms = <<Nfpm("", {}), [Nfpm(id, {}) EXCEPT !.formats = {"deb"}, !.template = n]>>]
     : id \in {"", "other"}, n \in {"", "Other"}}
  \cup {[Empty EXCEPT !.source = s, !.srpm = TRUE, !.makeselfs = <<Makeself("", g)>>,
                      !.snaps = <<Snap("x", {"app"})>>, !.flatpaks = <<Flat("x", {"app"})>>,
                      !.sboms = <<Sbom("s", "source"), Sbom("p", "package")>>]
          : s \in BOOLEAN, g \in {{}, {"linux"}, {"plan9"}}}
  \cup {[Empty EXCEPT !.source = TRUE, !.sboms = <<Sbom("s", "source"), Sbom("p", "packages")>>]}

(* Signed, notarized and packed binaries; archives skipped.                *)
Signed ==
  {[Empty EXCEPT !.upxs = <<Upx({})>>, !.binarySigns = <<Signs("s")>>, !.notary = <<Notary({"app"})>>,
                 !.archives = <<Archive("m", {}, {"none"}, "")>>]}
  \cup {[Empty EXCEPT !.unibins = <<Uni("", {}, TRUE)>>, !.skips = {"archive"}, !.flatpaks = <<Flat("x", {})>>]}
Snaps == {[Empty EXCEPT !.snaps = <<Snap("x", {})>>, !.archives = <<Archive("a", {}, {"none"}, "")>>]}

AllConfigs == Universals \cup Archives \cup Linux \cup Signed
AllBuilt == {OneLevel, TwoLevels, TwoIDs}
AllTools == {{}, {"upx", "snapcraft", "flatpak-builder", "makeself"}}
=============================================================================
