---------------------------- MODULE StagedUpload ----------------------------
(***************************************************************************)
(* rewrite_table on S3: a raw table's new frame is staged as data files of *)
(* fresh names, the files are uploaded, and the commit that adds them and  *)
(* removes the files they replace is uploaded last.  An upload may fail,   *)
(* its answer may be lost, the script may die and be started again.        *)
(*                                                                         *)
(* A commit log is a sequence: object _delta_log/i.json is log[i].         *)
(***************************************************************************)
EXTENDS Naturals, Sequences, FiniteSets

CONSTANTS
    File,         \* the keys data files can get
    Old,          \* the files of the table before the migration
    Size,         \* data files of one staged copy of the new frame
    Attempts,     \* WRITE_ATTEMPTS
    MaxCommits,   \* bound on the commits of the log
    OtherWriter   \* does a pipeline run write the table meanwhile?

ASSUME OldIsFile == Old \subseteq File /\ IsFiniteSet(File)
ASSUME SizesAreNat == /\ Size \in Nat \ {0}
                      /\ Attempts \in Nat \ {0}
                      /\ MaxCommits \in Nat \ {0}
ASSUME OtherWriterIsBoolean == OtherWriter \in BOOLEAN

\* foreign, kept for the properties: the commit is another writer's.
Commit == [add : SUBSET File, remove : SUBSET File, foreign : BOOLEAN]

VARIABLES
    log,       \* the table's commits
    objects,   \* the data files in the bucket
    named,     \* the names given out so far: a UUID is never used twice
    pc,        \* where the script is
    attempt,   \* the attempt of rewrite_table's loop
    version,   \* next_version, read when the script began
    stale,     \* stale_paths, read when the script began
    staged,    \* the data files of this attempt
    pending    \* those not looked at yet

uploadVars == <<log, objects, named, pc, attempt, version, stale, staged, pending>>

\* A file is in the snapshot when some commit added it and no later one removed it.
Live == {f \in File : \E i \in DOMAIN log :
            f \in log[i].add /\ \A j \in DOMAIN log : j > i => f \notin log[j].remove}

UploadInit ==
    /\ log = <<[add |-> Old, remove |-> {}, foreign |-> FALSE]>>
    /\ objects = Old
    /\ named = Old
    /\ pc = "idle"
    /\ attempt = 0
    /\ version = 0
    /\ stale = {}
    /\ staged = {}
    /\ pending = {}

\* Faulty: the script continues from the current version, not from the next one.
BeginCurrentVersion ==
    /\ pc \in {"idle", "raised"}
    /\ Len(log) < MaxCommits
    /\ pc' = "stage"
    /\ attempt' = 1
    /\ version' = Len(log)
    /\ stale' = Live
    /\ UNCHANGED <<log, objects, named, staged, pending>>

\* The caller reads the table it is about to rewrite (migrations are started by hand).
BeginUpload ==
    /\ pc \in {"idle", "raised"}
    /\ Len(log) < MaxCommits
    /\ pc' = "stage"
    /\ attempt' = 1
    /\ version' = Len(log) + 1
    /\ stale' = Live
    /\ UNCHANGED <<log, objects, named, staged, pending>>

\* A local Delta table is written: its data files get new random names.
Stage ==
    /\ pc = "stage"
    /\ \E fresh \in SUBSET (File \ named) :
        /\ Cardinality(fresh) = Size
        /\ staged' = fresh
        /\ pending' = fresh
        /\ named' = named \union fresh
    /\ pc' = "data"
    /\ UNCHANGED <<log, objects, attempt, version, stale>>

\* Faulty: the commit is uploaded in the order of names, before the last data file.
UploadDataEarlyCommit(f) ==
    /\ pc = "data"
    /\ f \in pending
    /\ objects' = objects \union {f}
    /\ pending' = pending \ {f}
    /\ pc' = "commit"
    /\ UNCHANGED <<log, named, attempt, version, stale, staged>>

\* object_exists, then upload_file: either way the object is there afterwards.
UploadData(f) ==
    /\ pc = "data"
    /\ f \in pending
    /\ objects' = objects \union {f}
    /\ pending' = pending \ {f}
    /\ pc' = IF pending' = {} THEN "commit" ELSE "data"
    /\ UNCHANGED <<log, named, attempt, version, stale, staged>>

\* The commit object is there already: "already uploaded, skipping".
SkipCommit ==
    /\ pc = "commit"
    /\ version <= Len(log)
    /\ pc' = "returned"
    /\ UNCHANGED <<log, objects, named, attempt, version, stale, staged, pending>>

CheckCommit ==
    /\ pc = "commit"
    /\ version > Len(log)
    /\ pc' = "put"
    /\ UNCHANGED <<log, objects, named, attempt, version, stale, staged, pending>>

\* Faulty: the staging table's own commit is uploaded, it has no remove actions.
NewCommitAddsOnly == [add |-> staged, remove |-> {}, foreign |-> FALSE]

\* The staging actions plus one remove per stale path.
NewCommit == [add |-> staged, remove |-> stale, foreign |-> FALSE]

\* S3 overwrites: whatever object has the name by now is replaced.
Put == log' = [i \in DOMAIN log \union {version} |->
                    IF i = version THEN NewCommit ELSE log[i]]

PutCommit ==
    /\ pc = "put"
    /\ Put
    /\ pc' = "returned"
    /\ UNCHANGED <<objects, named, attempt, version, stale, staged, pending>>

Working == pc \in {"stage", "data", "commit", "put"}

\* What the loop does with an exception: retry what it catches, or give up.
Caught == attempt < Attempts /\ pc' = "stage" /\ attempt' = attempt + 1
GivesUp == pc' = "raised" /\ UNCHANGED attempt

\* A call fails, possibly the last upload after it took effect.
UploadFails ==
    /\ Working
    /\ Caught \/ GivesUp
    /\ \/ UNCHANGED log
       \/ pc = "put" /\ Put
    /\ UNCHANGED <<objects, named, version, stale, staged, pending>>

\* The script dies; it may be started again by hand.
Dies ==
    /\ Working
    /\ pc' = "raised"
    /\ UNCHANGED <<log, objects, named, attempt, version, stale, staged, pending>>

\* A pipeline run merges onto the table: some files are rewritten into a new one.
OtherCommit ==
    /\ OtherWriter
    /\ Len(log) < MaxCommits
    /\ \E f \in File \ named, gone \in SUBSET Live :
        /\ log' = Append(log, [add |-> {f}, remove |-> gone, foreign |-> TRUE])
        /\ objects' = objects \union {f}
        /\ named' = named \union {f}
    /\ UNCHANGED <<pc, attempt, version, stale, staged, pending>>

\* VACUUM removes what no snapshot holds and the retention (7 days, longer than
\* an attempt) no longer protects.
Vacuum ==
    /\ objects' = objects \ (named \ (Live \union IF Working THEN staged ELSE {}))
    /\ objects' # objects
    /\ UNCHANGED <<log, named, pc, attempt, version, stale, staged, pending>>

UploadNext ==
    \/ BeginUpload \/ Stage \/ (\E f \in File : UploadData(f))
    \/ SkipCommit \/ CheckCommit \/ PutCommit
    \/ UploadFails \/ Dies \/ OtherCommit \/ Vacuum

UploadSpec == UploadInit /\ [][UploadNext]_uploadVars

---------------------------------------------------------------------------
(* Correctness.                                                            *)

\* The type of every variable.
UploadTypeOK ==
    /\ log \in Seq(Commit)
    /\ objects \subseteq named
    /\ named \in SUBSET File
    /\ pc \in {"idle", "stage", "data", "commit", "put", "returned", "raised"}
    /\ attempt \in 0 .. Attempts
    /\ version \in 0 .. Len(log) + 1
    /\ stale \in SUBSET File
    /\ staged \in SUBSET named
    /\ pending \in SUBSET staged

\* A reader never meets a missing file: every file of the current snapshot is in
\* the bucket, wherever the upload stopped ("uploaded LAST").
SnapshotReadable == Live \subseteq objects

\* The last commit of the log is not another writer's.
OwnLast == ~log[Len(log)].foreign

\* Until another writer commits after it, a reader sees the old table or one whole copy
\* of the new frame, never a mix of the two ("observed: row count doubled") and never
\* two copies, whichever of the other writer's commits came before or were overwritten.
OldOrNew ==
    OwnLast => Live = Old \/ (Live \intersect Old = {} /\ Cardinality(Live) = Size)

\* Then a script that returned has replaced the table.
ReturnedReplaced == OwnLast /\ pc = "returned" => Live \intersect Old = {}
============================================================================
