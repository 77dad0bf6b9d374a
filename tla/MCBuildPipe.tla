---------------------------- MODULE MCBuildPipe ----------------------------
(* Small projects for the build pipe.                                      *)
EXTENDS BuildPipe

Build(builder, dir, binary, targets) ==
  [builder |-> builder, dir |-> dir, binary |-> binary, targets |-> targets, skip |-> FALSE]

(* Two Rust targets that differ in the glibc version share a directory.    *)
Clean == [t \in {"gnu", "gnu.2.17", "linux"} |-> IF t = "gnu.2.17" THEN "gnu" ELSE t]

(* A Rust build of two such targets, a Zig build, a Go build for one       *)
(* target, and one that is skipped.                                        *)
MixedProject ==
  <<Build(RustBuilder, "cli", "app", <<"gnu", "gnu.2.17">>),
    Build(ZigBuilder, "lib", "tool", <<"linux">>),
    [Build(UvBuilder, "py", "none", <<"linux">>) EXCEPT !.skip = TRUE],
    Build(GoBuilder, ".", "app", <<"linux">>)>>

WholeOrSplit == {"", "linux"}
=============================================================================
