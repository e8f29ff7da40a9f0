------------------------------- MODULE Media --------------------------------
(***************************************************************************)
(* Storage migration beside uploads and transcoding.  An administrator     *)
(* starts a job that copies the files below the upload and media           *)
(* directories, as they are when the job lists them, to the bucket of the  *)
(* stored settings, while uploads and encoding jobs add and remove files.  *)
(* An atomic flag admits one job at a time; cancelling sets a flag in      *)
(* memory and then the job's row; a job may be resumed from one that       *)
(* failed, was cancelled or completed with errors, and skips what that one *)
(* copied.                                                                 *)
(*                                                                         *)
(* The three attempts of upload_storage_migration_file are one step, and   *)
(* the counters of a job are the sets they count.                          *)
(***************************************************************************)
EXTENDS Transcode

CONSTANTS
    Buckets,
    BackendOf,     \* the backend of each bucket
    InitialBucket, \* the stored settings in the initial state, None if local
    Jobs,          \* bound: storage_migration_jobs rows
    AskedScopes    \* bound: the scopes administrators ask for

Scopes == {"uploads", "media"}

ASSUME MediaAssumption ==
    /\ None \notin Buckets
    /\ DOMAIN BackendOf = Buckets
    /\ {InitialBucket, ActiveBucket} \subseteq Buckets \cup {None}
    /\ None \notin Jobs
    /\ AskedScopes \subseteq SUBSET Scopes \ {{}}

VARIABLES
    settings,   \* storage_settings: the bucket, None for the local backend
    lock,       \* STORAGE_MIGRATION_RUNNING
    starting,   \* admin_storage_migrations_start between the lock and the INSERT
    jobs,       \* storage_migration_jobs and the items of each
    task,       \* where each job's task is
    flags,      \* STORAGE_MIGRATION_CANCELLED
    canceller,  \* admin_storage_migration_cancel: where it is, and the job
    leaked,     \* history: a start was dropped while it held the lock
    late        \* history: jobs whose cancellation was written after they had ended

migrationVars == <<settings, lock, starting, jobs, task, flags, canceller, leaked, late>>
vars == <<transcodeVars, migrationVars>>

Unfinished == {"pending", "running", "cancel_requested"}
Resumable == {"failed", "cancelled", "completed_with_errors"}
NoJob == [status |-> "absent", bucket |-> None, scope |-> {}, resume |-> None,
          list |-> {}, keys |-> {}, copied |-> {}, failed |-> {}, skipped |-> {}]
NoStart == [at |-> "idle", scope |-> {}, resume |-> None]
NoCancel == [at |-> "idle", job |-> None]
-----------------------------------------------------------------------------
(* The administrator: settings and starting a job *)

SaveSettings(b) ==
    /\ b # settings
    /\ Event
    /\ settings' = b
    /\ UNCHANGED <<upload, row, files, queue, hand, job, permits, remote,
                   forsaken, lock, starting, jobs, task, flags, canceller, leaked, late>>

\* compare_exchange: one of several starts wins.
StartLock(scope, resume) ==
    /\ starting.at = "idle" /\ ~lock
    /\ Event
    /\ lock' = TRUE
    /\ starting' = [at |-> "locked", scope |-> scope, resume |-> resume]
    /\ UNCHANGED <<upload, row, files, queue, hand, job, permits, remote,
                   forsaken, settings, jobs, task, flags, canceller, leaked, late>>

MayResume(source) ==
    /\ source \in Jobs
    /\ jobs[source].status \in Resumable
    /\ BackendOf[jobs[source].bucket] = BackendOf[settings]

MayStart == settings # None /\ (starting.resume = None \/ MayResume(starting.resume))

\* Load the settings, look at the job to resume from, insert the row and spawn the
\* task; a refusal or an error gives the lock back.
StartJob ==
    /\ starting.at = "locked"
    /\ starting' = NoStart
    /\ \/ /\ MayStart
          /\ LET j == CHOOSE i \in Jobs : jobs[i] = NoJob
             IN  /\ jobs' = [jobs EXCEPT ![j] =
                                 [@ EXCEPT !.status = "pending", !.bucket = settings,
                                           !.scope = starting.scope,
                                           !.resume = starting.resume]]
                 /\ task' = [task EXCEPT ![j] = "collect"]
          /\ UNCHANGED <<lock, used>>
       \/ /\ \/ ~MayStart /\ UNCHANGED used
             \/ MayStart /\ Failed
          /\ lock' = FALSE
          /\ UNCHANGED <<jobs, task>>
    /\ UNCHANGED <<upload, row, files, queue, hand, job, permits, remote,
                   forsaken, settings, flags, canceller, leaked, late>>

\* The administrator disconnects while the handler waits for the database.
StartDrop ==
    /\ starting.at = "locked"
    /\ Event
    /\ starting' = NoStart
    /\ leaked' = TRUE
    /\ UNCHANGED <<upload, row, files, queue, hand, job, permits, remote,
                   forsaken, settings, lock, jobs, task, flags, canceller, late>>
-----------------------------------------------------------------------------
(* run_storage_migration_job *)

\* Temporary encodings are elsewhere; a file still being uploaded is listed too.
Listed(scope) ==
    {f \in files : \/ "uploads" \in scope /\ f[1] \in {"part", "upload"}
                   \/ "media" \in scope /\ f[1] = "hls"}

\* Faulty variant: what the earlier job failed to copy is skipped too.
ResumableWithFailed(j) ==
    IF jobs[j].resume = None THEN {}
    ELSE jobs[jobs[j].resume].copied \cup jobs[jobs[j].resume].failed

\* load_resumable_storage_object_keys
ResumableKeys(j) == IF jobs[j].resume = None THEN {} ELSE jobs[jobs[j].resume].copied

Todo(j) == jobs[j].list \ (jobs[j].copied \cup jobs[j].failed \cup jobs[j].skipped)

\* Media files come after the uploads.
NextFiles(j) ==
    LET uploads == {f \in Todo(j) : f[1] # "hls"}
    IN  IF uploads = {} THEN Todo(j) ELSE uploads

\* The directories are listed and the job's row updated; then the keys to skip are
\* read, none if that fails.
RunCollect(j) ==
    /\ task[j] = "collect"
    /\ \/ /\ \E keys \in {ResumableKeys(j), {}} :
                /\ jobs' = [jobs EXCEPT ![j].status = "running",
                                        ![j].list = Listed(jobs[j].scope),
                                        ![j].keys = keys]
                /\ IF keys = ResumableKeys(j) THEN UNCHANGED used ELSE Failed
          /\ task' = [task EXCEPT ![j] = "copy"]
       \/ /\ Failed
          /\ task' = [task EXCEPT ![j] = "error"]
          /\ UNCHANGED jobs
    /\ UNCHANGED <<upload, row, files, queue, hand, job, permits, remote,
                   forsaken, settings, lock, starting, flags, canceller, leaked, late>>

\* Before each file the flag is looked at; mark_storage_job_cancelled.
RunCancelled(j) ==
    /\ task[j] = "copy" /\ Todo(j) # {} /\ j \in flags
    /\ \/ /\ jobs' = [jobs EXCEPT ![j].status = "cancelled"]
          /\ flags' = flags \ {j}
          /\ task' = [task EXCEPT ![j] = "end"]
          /\ UNCHANGED used
       \/ /\ Failed
          /\ task' = [task EXCEPT ![j] = "error"]
          /\ UNCHANGED <<jobs, flags>>
    /\ UNCHANGED <<upload, row, files, queue, hand, job, permits, remote,
                   forsaken, settings, lock, starting, canceller, leaked, late>>

\* insert_storage_migration_job_item and update_storage_job_progress.
Record(j, outcome, f) == jobs' = [jobs EXCEPT ![j][outcome] = @ \cup {f}]

\* upload_storage_migration_file
PutFile(j, f) == remote' = remote \cup {<<jobs[j].bucket, f>>}

\* One file: skipped when the job resumed from has copied it, else copied in up to
\* three attempts.  A file that is gone cannot be copied.  The item's row may fail to
\* be written, which is ignored: no later job knows that the file was copied.
RunCopy(j) ==
    /\ task[j] = "copy" /\ j \notin flags
    /\ \E f \in NextFiles(j) :
          \/ /\ f \in jobs[j].keys
             /\ Record(j, "skipped", f)
             /\ UNCHANGED <<remote, used>>
          \/ /\ f \in files \ jobs[j].keys
             /\ PutFile(j, f)
             /\ \/ Record(j, "copied", f) /\ UNCHANGED used
                \/ Record(j, "skipped", f) /\ Failed
          \/ /\ f \notin jobs[j].keys
             /\ \/ f \notin files /\ UNCHANGED used
                \/ f \in files /\ Failed
             /\ Record(j, "failed", f)
             /\ UNCHANGED remote
    /\ UNCHANGED <<upload, row, files, queue, hand, job, permits, forsaken,
                   settings, lock, starting, task, flags, canceller, leaked, late>>

RunFinish(j) ==
    /\ task[j] = "copy" /\ Todo(j) = {}
    /\ \/ /\ jobs' = [jobs EXCEPT ![j].status =
                          IF jobs[j].failed = {}
                          THEN "completed" ELSE "completed_with_errors"]
          /\ flags' = flags \ {j}
          /\ task' = [task EXCEPT ![j] = "end"]
          /\ UNCHANGED used
       \/ /\ Failed
          /\ task' = [task EXCEPT ![j] = "error"]
          /\ UNCHANGED <<jobs, flags>>
    /\ UNCHANGED <<upload, row, files, queue, hand, job, permits, remote,
                   forsaken, settings, lock, starting, canceller, leaked, late>>

\* Faulty variant: the job's row is left as it was.
RunErrorUnrecorded(j) ==
    /\ task[j] = "error"
    /\ task' = [task EXCEPT ![j] = "end"]
    /\ UNCHANGED <<transcodeVars, settings, lock, starting, jobs, flags, canceller,
                   leaked, late>>

\* The job returned an error: 'failed', and that statement's own failure is ignored.
RunError(j) ==
    /\ task[j] = "error"
    /\ \/ jobs' = [jobs EXCEPT ![j].status = "failed"] /\ UNCHANGED used
       \/ Failed /\ UNCHANGED jobs
    /\ task' = [task EXCEPT ![j] = "end"]
    /\ UNCHANGED <<upload, row, files, queue, hand, job, permits, remote,
                   forsaken, settings, lock, starting, flags, canceller, leaked, late>>

RunEnd(j) ==
    /\ task[j] = "end"
    /\ task' = [task EXCEPT ![j] = "none"]
    /\ flags' = flags \ {j}
    /\ lock' = FALSE
    /\ UNCHANGED <<transcodeVars, settings, starting, jobs, canceller, leaked, late>>
-----------------------------------------------------------------------------
(* admin_storage_migration_cancel *)

CancelRead(j) ==
    /\ canceller.at = "idle"
    /\ jobs[j].status \in Unfinished
    /\ Event
    /\ canceller' = [at |-> "flag", job |-> j]
    /\ UNCHANGED <<upload, row, files, queue, hand, job, permits, remote,
                   forsaken, settings, lock, starting, jobs, task, flags, leaked, late>>

CancelFlag ==
    /\ canceller.at = "flag"
    /\ flags' = flags \cup {canceller.job}
    /\ canceller' = [canceller EXCEPT !.at = "update"]
    /\ UNCHANGED <<transcodeVars, settings, lock, starting, jobs, task, leaked, late>>

\* The UPDATE does not look at the status again.
CancelUpdate ==
    /\ canceller.at = "update"
    /\ canceller' = NoCancel
    /\ \/ /\ jobs' = [jobs EXCEPT ![canceller.job].status = "cancel_requested"]
          /\ late' = IF task[canceller.job] \in {"none", "end"}
                     THEN late \cup {canceller.job} ELSE late
          /\ UNCHANGED used
       \/ Failed /\ UNCHANGED <<jobs, late>>
    /\ UNCHANGED <<upload, row, files, queue, hand, job, permits, remote,
                   forsaken, settings, lock, starting, task, flags, leaked>>

\* The server stops and starts again: the lock, the flags and the tasks were in memory.
Restart ==
    /\ Stopped
    /\ Crash
    /\ lock' = FALSE
    /\ starting' = NoStart
    /\ task' = [j \in Jobs |-> "none"]
    /\ flags' = {}
    /\ canceller' = NoCancel
    /\ UNCHANGED <<settings, jobs, leaked, late>>
-----------------------------------------------------------------------------
Init ==
    /\ TranscodeInit
    /\ settings = InitialBucket
    /\ lock = FALSE
    /\ starting = NoStart
    /\ jobs = [j \in Jobs |-> NoJob]
    /\ task = [j \in Jobs |-> "none"]
    /\ flags = {}
    /\ canceller = NoCancel
    /\ leaked = FALSE
    /\ late = {}

\* A bound: a start waits for a free row.
FreeJob == \E j \in Jobs : jobs[j] = NoJob

SystemNext ==
    \/ TranscodeSystem /\ UNCHANGED migrationVars
    \/ StartJob
    \/ \E j \in Jobs : RunCollect(j) \/ RunCancelled(j) \/ RunCopy(j) \/ RunFinish(j)
                       \/ RunError(j) \/ RunEnd(j)
    \/ CancelFlag \/ CancelUpdate

Next ==
    \/ SystemNext
    \/ TranscodeClients /\ UNCHANGED migrationVars
    \/ \E b \in Buckets \cup {None} : SaveSettings(b)
    \/ FreeJob /\ \E scope \in AskedScopes, resume \in Jobs \cup {None} :
                      StartLock(scope, resume)
    \/ StartDrop
    \/ \E j \in Jobs : CancelRead(j)
    \/ Restart

Spec == Init /\ [][Next]_vars

\* Tasks and handlers go on.  ffmpeg has no time limit here: that it ends, well or not,
\* is assumed of it.
FairSpec == Spec /\ WF_vars(SystemNext)
-----------------------------------------------------------------------------
(* Properties *)

\* Who holds STORAGE_MIGRATION_RUNNING.
Holders ==
    {j \in Jobs : task[j] # "none"} \cup (IF starting.at = "locked" THEN {None} ELSE {})

\* Types; permits, channel and temporary files as TranscodeTypeOK says; at most one
\* job or start at a time, and never without STORAGE_MIGRATION_RUNNING.
TypeOK ==
    /\ TranscodeTypeOK
    /\ remote \subseteq Buckets \X Files
    /\ settings \in Buckets \cup {None}
    /\ starting \in [at : {"idle", "locked"}, scope : SUBSET Scopes, resume : Jobs \cup {None}]
    /\ \A j \in Jobs :
          /\ jobs[j].status \in Unfinished \cup Resumable \cup {"absent", "completed"}
          /\ jobs[j].copied \cup jobs[j].failed \cup jobs[j].skipped \subseteq jobs[j].list
    /\ task \in [Jobs -> {"none", "collect", "copy", "error", "end"}]
    /\ flags \subseteq Jobs
    /\ canceller \in [at : {"idle", "flag", "update"}, job : Jobs \cup {None}]
    /\ Cardinality(Holders) <= 1
    /\ Holders # {} => lock
    /\ late \subseteq Jobs

\* A job that says 'completed' left every file it listed in its bucket, whatever was
\* uploaded, encoded, removed or cancelled meanwhile and however often it was resumed.
\* It may only be wrong when it was resumed from a job for another bucket of the same
\* backend: the two are not compared, and what the other bucket has is skipped.
CompletedMeansCopied ==
    \A j \in Jobs :
        /\ jobs[j].status = "completed"
        /\ jobs[j].resume # None => jobs[jobs[j].resume].bucket = jobs[j].bucket
        => \A f \in jobs[j].list : <<jobs[j].bucket, f>> \in remote

\* No job waits for nothing: one whose status is not final has a task, and the lock
\* has a holder.  The exceptions are a restart, an error whose 'failed' could not be
\* written, a cancellation that was written after the job had ended (the job is 'cancel_requested'
\* for ever) and an administrator's disconnection (no job starts again until a restart).
MigrationsAreRun ==
    /\ \A j \in Jobs :
          jobs[j].status \in Unfinished =>
              \/ task[j] \in {"collect", "copy", "error"}
              \/ j \in late
              \/ used.stops > 0 \/ used.failures > 1
    /\ lock => Holders # {} \/ leaked
=============================================================================
