------------------------------ MODULE Builders ------------------------------
(***************************************************************************)
(* internal/builders: what of each builder the build pipe and the other    *)
(* builds can tell apart.                                                  *)
(*   concurrent: AllowConcurrentBuilds; without the method, TRUE           *)
(*   prepares:   the builder has a Prepare, which may fail                 *)
(*   leaves:     where its tool leaves the binary: in "dist", at the path  *)
(*               of the build and target, or below the working directory   *)
(*               of the build, from where Build copies it: in a directory  *)
(*               for the "target", or for the target's "clean" name        *)
(***************************************************************************)

GoBuilder == [concurrent |-> TRUE, prepares |-> FALSE, leaves |-> "dist"]

RustBuilder == [concurrent |-> FALSE, prepares |-> TRUE, leaves |-> "clean"]

ZigBuilder == [concurrent |-> TRUE, prepares |-> FALSE, leaves |-> "target"]

BunBuilder == [concurrent |-> FALSE, prepares |-> FALSE, leaves |-> "dist"]

DenoBuilder == [concurrent |-> TRUE, prepares |-> FALSE, leaves |-> "dist"]

NodeBuilder == [concurrent |-> TRUE, prepares |-> FALSE, leaves |-> "dist"]

PoetryBuilder == [concurrent |-> TRUE, prepares |-> FALSE, leaves |-> "dist"]

UvBuilder == [concurrent |-> TRUE, prepares |-> FALSE, leaves |-> "dist"]

BuilderRecord ==
  [concurrent : BOOLEAN, prepares : BOOLEAN, leaves : {"dist", "target", "clean"}]
=============================================================================
