------------------------------ MODULE Snapshots ------------------------------
(***************************************************************************)
(* SnapshotManager (lemma-storage/src/snapshot.rs): snapshots of the       *)
(* database in directories of their own, built in a staging directory and  *)
(* renamed.  A crash, or an error of the file system, may come between any *)
(* two steps and in the middle of one: a directory under removal or a file *)
(* under writing is then left behind in part.  The chain only grows, so    *)
(* heights never decrease; the node may snapshot a height again.           *)
(***************************************************************************)
EXTENDS Integers, FiniteSets

CONSTANTS
    Heights,          \* of snapshots
    max_snapshots,    \* snapshots to keep, 0 for all
    MaxCrashes        \* bound of the model

ASSUME SnapshotAssumption == Heights \in SUBSET Nat /\ IsFiniteSet(Heights) /\ max_snapshots \in Nat

VARIABLES
    final,            \* directories snapshot_<height>: [checkpoint, metadata], by height
    staging,          \* directories snapshot_<height>.tmp
    job,              \* the call under way: [height, step, doomed]
    crashes,
    kept              \* ghost: heights completed, not replaced since and not too old

svars == <<final, staging, job, crashes, kept>>

Absent == [checkpoint |-> "none", metadata |-> "none"]
Idle == [height |-> 0, step |-> "idle", doomed |-> {}]
Exists(dirs) == {h \in Heights : dirs[h] # Absent}

\* What a directory may look like while it is being removed.
Remains(dir) == [checkpoint : {dir.checkpoint, "partial"}, metadata : {dir.metadata, "none"}]

Restorable(h) == final[h] = [checkpoint |-> "whole", metadata |-> "valid"]

SnapshotTypeOK ==
    LET Dir == [checkpoint : {"none", "partial", "whole"}, metadata : {"none", "corrupt", "valid"}]
    IN  /\ final \in [Heights -> Dir] /\ staging \in [Heights -> Dir]
        /\ job.doomed \subseteq Heights
        /\ kept \subseteq Heights

SnapshotInit ==
    /\ final = [h \in Heights |-> Absent] /\ staging = [h \in Heights |-> Absent]
    /\ job = Idle /\ crashes = 0 /\ kept = {}

At(step) == job.step = step
Go(step) == job' = [job EXCEPT !.step = step]

CreateSnapshot(h) ==
    /\ At("idle")
    /\ \A other \in Exists(final) : other <= h
    /\ job' = [height |-> h, step |-> "clean", doomed |-> {}]
    /\ UNCHANGED <<final, staging, crashes, kept>>

\* remove_dir_all of a stale staging directory, if there is one.
CleanStaging ==
    /\ At("clean") /\ Go("checkpoint")
    /\ staging' = [staging EXCEPT ![job.height] = Absent]
    /\ UNCHANGED <<final, crashes, kept>>

Checkpoint ==
    /\ At("checkpoint") /\ Go("metadata")
    /\ staging' = [staging EXCEPT ![job.height] = [checkpoint |-> "whole", metadata |-> "none"]]
    /\ UNCHANGED <<final, crashes, kept>>

WriteMetadata ==
    /\ At("metadata") /\ Go("replace")
    /\ staging' = [staging EXCEPT ![job.height].metadata = "valid"]
    /\ UNCHANGED <<final, crashes, kept>>

RemoveExisting ==
    /\ At("replace") /\ Go("rename")
    /\ final' = [final EXCEPT ![job.height] = Absent]
    /\ kept' = kept \ {job.height}
    /\ UNCHANGED <<staging, crashes>>

\* Mutant: the newest snapshots are pruned.
DoomedNewest(dirs) ==
    IF max_snapshots = 0 THEN {}
    ELSE {h \in dirs : Cardinality({g \in dirs : g < h}) >= max_snapshots}

\* prune: all but the max_snapshots highest, by the names of the directories.
Doomed(dirs) ==
    IF max_snapshots = 0 THEN {}
    ELSE {h \in dirs : Cardinality({g \in dirs : g > h}) >= max_snapshots}

Rename ==
    /\ At("rename")
    /\ final' = [final EXCEPT ![job.height] = staging[job.height]]
    /\ staging' = [staging EXCEPT ![job.height] = Absent]
    /\ kept' = {h \in kept \cup {job.height} :
                 max_snapshots = 0 \/ Cardinality({g \in Exists(final') : g > h}) < max_snapshots}
    /\ job' = [job EXCEPT !.step = "prune", !.doomed = Doomed(Exists(final) \cup {job.height})]
    /\ UNCHANGED crashes

\* The oldest directories go one by one, the higher ones first.
PruneOne ==
    LET h == CHOOSE h \in job.doomed : \A g \in job.doomed : g <= h
    IN  /\ At("prune") /\ job.doomed # {}
        /\ final' = [final EXCEPT ![h] = Absent]
        /\ job' = [job EXCEPT !.doomed = @ \ {h}]
        /\ UNCHANGED <<staging, crashes, kept>>

Finished ==
    /\ At("prune") /\ job.doomed = {}
    /\ job' = Idle
    /\ UNCHANGED <<final, staging, crashes, kept>>

\* A crash or a failed step: the directory the step was working on is in between.
Crash ==
    /\ ~At("idle") /\ crashes < MaxCrashes
    /\ crashes' = crashes + 1
    /\ job' = Idle
    /\ \/ UNCHANGED <<final, staging, kept>>
       \/ /\ At("clean") /\ staging[job.height] # Absent
          /\ \E d \in Remains(staging[job.height]) : staging' = [staging EXCEPT ![job.height] = d]
          /\ UNCHANGED <<final, kept>>
       \/ /\ At("checkpoint")
          /\ staging' = [staging EXCEPT ![job.height].checkpoint = "partial"]
          /\ UNCHANGED <<final, kept>>
       \/ /\ At("metadata")
          /\ staging' = [staging EXCEPT ![job.height].metadata = "corrupt"]
          /\ UNCHANGED <<final, kept>>
       \/ /\ At("replace") /\ final[job.height] # Absent
          /\ \E d \in Remains(final[job.height]) : final' = [final EXCEPT ![job.height] = d]
          /\ kept' = kept \ {job.height}
          /\ UNCHANGED staging
       \/ /\ At("prune")
          /\ \E h \in job.doomed : \E d \in Remains(final[h]) : final' = [final EXCEPT ![h] = d]
          /\ UNCHANGED <<staging, kept>>

SnapshotNext ==
    \/ \E h \in Heights : CreateSnapshot(h)
    \/ CleanStaging \/ Checkpoint \/ WriteMetadata \/ RemoveExisting \/ Rename \/ PruneOne \/ Finished
    \/ Crash

-----------------------------------------------------------------------------

\* Whatever crashed in between, the newest snapshots that were completed, as many
\* as are to be kept, can be restored from their directories, unless a later call
\* for the same height began to replace them.
KeptSnapshotsRestorable == \A h \in kept : Restorable(h)
=============================================================================
