---------------------------- MODULE ImageExport ----------------------------
(***************************************************************************)
(* internal/runtime/native/rootfs.go: exporter.Prepare, which puts an      *)
(* image's filesystem on disk once, for every instance to mount as its     *)
(* read-only lower layer.  Several starts may want one image; a lock per   *)
(* image lets one of them export while the others wait.  An export that a  *)
(* crash cut off has no done marker and is redone from scratch.            *)
(*                                                                         *)
(* A start is named by the instance it is for.  What the tar holds is left *)
(* out: a filesystem is there in part, in full, or not at all.             *)
(***************************************************************************)
EXTENDS FiniteSets

CONSTANTS
  Instances,  \* the instances there may be; each is started at most once
  Images,     \* image ids
  ImageOf     \* the image an instance is started from

ASSUME ImageOfAssumption == ImageOf \in [Instances -> Images]

VARIABLES
  rootfs,     \* <dataDir>/rootfs/<id>: absent, partial, unpacked (no marker), done
  prep        \* a start's place in Prepare

exportVars == <<rootfs, prep>>

\* Between RemoveAll and the marker the start holds the image's lock.
Exporting(i) == prep[i] \in {"unpacking", "marking"}

Locked(im) == \E i \in Instances : Exporting(i) /\ ImageOf[i] = im

Phase(i, from, to) == prep[i] = from /\ prep' = [prep EXCEPT ![i] = to]

\* Docker knows the image, and what it says of it makes sense, or not.
Inspect(i) ==
  /\ \/ Phase(i, "idle", "waiting")
     \/ Phase(i, "idle", "failed")
  /\ UNCHANGED rootfs

\* Is the export complete?  Mutant: a directory is taken for a whole one.
IsThere(im) == rootfs[im] # "absent"

IsDone(im) == rootfs[im] = "done"

\* The marker is looked at under the lock.  The config may not be readable.
FindExported(i) ==
  /\ ~Locked(ImageOf[i]) /\ IsDone(ImageOf[i])
  /\ \/ Phase(i, "waiting", "ready")
     \/ Phase(i, "waiting", "failed")
  /\ UNCHANGED rootfs

\* export: what an earlier one left is removed first.
BeginExport(i) ==
  /\ ~Locked(ImageOf[i]) /\ ~IsDone(ImageOf[i])
  /\ Phase(i, "waiting", "unpacking")
  /\ rootfs' = [rootfs EXCEPT ![ImageOf[i]] = "partial"]

\* A container is made, never started, and streamed into untar; then the config.
Unpack(i) ==
  /\ Phase(i, "unpacking", "marking")
  /\ rootfs' = [rootfs EXCEPT ![ImageOf[i]] = "unpacked"]

\* The marker is written last.
Mark(i) ==
  /\ Phase(i, "marking", "ready")
  /\ rootfs' = [rootfs EXCEPT ![ImageOf[i]] = "done"]

\* Any step of the export may fail, the start's context being one reason.
ExportFails(i) ==
  /\ Exporting(i)
  /\ prep' = [prep EXCEPT ![i] = "failed"]
  /\ rootfs' = [rootfs EXCEPT ![ImageOf[i]] = "absent"]

Prepare(i) ==
  \/ FindExported(i) \/ BeginExport(i) \/ Unpack(i) \/ Mark(i) \/ ExportFails(i)

\* A crash of the daemon: locks are memory, directories stay.
ExportCutOff ==
  /\ prep' = [i \in Instances |-> IF prep[i] \in {"idle", "ready"} THEN prep[i] ELSE "failed"]
  /\ UNCHANGED rootfs

ExportInit ==
  /\ rootfs = [im \in Images |-> "absent"]
  /\ prep = [i \in Instances |-> "idle"]

ExportTypeOK ==
  /\ rootfs \in [Images -> {"absent", "partial", "unpacked", "done"}]
  /\ prep \in [Instances -> {"idle", "waiting", "unpacking", "marking", "ready", "failed"}]
=============================================================================
