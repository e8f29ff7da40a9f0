----------------------------- MODULE Transcode ------------------------------
(***************************************************************************)
(* Uploads and transcoding.  upload_video streams a file to disk under a   *)
(* temporary name, renames it, inserts the video as 'queued' and sends a   *)
(* job to a bounded channel in memory.  One task receives jobs and waits   *)
(* for a permit before it spawns process_job, which remuxes and encodes    *)
(* with ffmpeg and sets the video's state.  Originals and encoded files    *)
(* are pushed to the active storage backend by tasks nobody waits for.     *)
(*                                                                         *)
(* No code reads what such a push did: it is done, or lost, at the step    *)
(* that spawns it.                                                         *)
(* What a file holds is left out; so are the requests that are refused     *)
(* before they touch the disk.  The receiving task never ends, so the      *)
(* channel is never closed and enqueue's error path cannot be taken.       *)
(***************************************************************************)
EXTENDS Naturals, Sequences, FiniteSets

CONSTANTS
    Videos,
    Ready,         \* videos uploaded and encoded before the initial state
    Concurrency,   \* permits of the worker's semaphore
    QueueCap,      \* capacity of its channel
    ActiveBucket,  \* where the backend chosen at start-up keeps files, None if local
    None,
    MaxFaults,     \* bound: statements and calls that fail, restarts
    MaxEvents      \* bound: uploads, disconnections, acts of administrators, faults

ASSUME TranscodeAssumption ==
    /\ Ready \subseteq Videos
    /\ None \notin Videos
    /\ {Concurrency, QueueCap} \subseteq Nat \ {0}
    /\ {MaxFaults, MaxEvents} \subseteq Nat

VARIABLES
    upload,    \* where each video's upload_video is
    row,       \* videos.processing_state, "absent" when there is no row
    files,     \* local files: <<kind, video>>
    queue,     \* the channel
    hand,      \* the job received and waiting for a permit
    job,       \* where each video's process_job is
    permits,   \* free permits
    remote,    \* remote files: <<bucket, file>>
    forsaken,  \* history: videos whose job a disconnection or a restart has lost
    used       \* counters behind the bounds

transcodeVars == <<upload, row, files, queue, hand, job, permits, remote, forsaken,
                   used>>

Part(v) == <<"part", v>>
Original(v) == <<"upload", v>>
Temp(v) == <<"temp", v>>
Hls(v) == <<"hls", v>>
Files == {"part", "upload", "temp", "hls"} \X Videos

Event ==
    /\ used.events < MaxEvents
    /\ used' = [used EXCEPT !.events = @ + 1]
Fault(kind) ==
    /\ used.events < MaxEvents
    /\ used.failures + used.stops < MaxFaults
    /\ used' = [used EXCEPT !.events = @ + 1, ![kind] = @ + 1]
Failed == Fault("failures")
Stopped == Fault("stops")

\* put_file and put_dir of the active backend; an error is only logged.
Push(f) ==
    \/ /\ remote' = IF ActiveBucket = None THEN remote
                    ELSE remote \cup {<<ActiveBucket, f>>}
       /\ UNCHANGED used
    \/ /\ ActiveBucket # None
       /\ Failed
       /\ UNCHANGED remote
-----------------------------------------------------------------------------
(* upload_video *)

UploadBegin(v) ==
    /\ upload[v] = "new"
    /\ Event
    /\ upload' = [upload EXCEPT ![v] = "writing"]
    /\ files' = files \cup {Part(v)}
    /\ UNCHANGED <<row, queue, hand, job, permits, remote, forsaken>>

\* The file is complete and a video: rename.  Too large, empty, of another type, or
\* an error: the temporary file is removed.
UploadFile(v) ==
    /\ upload[v] = "writing"
    /\ \/ /\ upload' = [upload EXCEPT ![v] = "saved"]
          /\ files' = (files \ {Part(v)}) \cup {Original(v)}
       \/ /\ upload' = [upload EXCEPT ![v] = "refused"]
          /\ files' = files \ {Part(v)}
    /\ UNCHANGED <<row, queue, hand, job, permits, remote, forsaken, used>>

\* A second file, or a title or price that is not valid, removes the file; an error
\* in the rest of the form leaves it behind.
UploadRefuse(v) ==
    /\ upload[v] = "saved"
    /\ upload' = [upload EXCEPT ![v] = "refused"]
    /\ files' = files \ {Original(v)} \/ UNCHANGED files
    /\ UNCHANGED <<row, queue, hand, job, permits, remote, forsaken, used>>

UploadInsert(v) ==
    /\ upload[v] = "saved"
    /\ \/ /\ row' = [row EXCEPT ![v] = "queued"]
          /\ upload' = [upload EXCEPT ![v] = "inserted"]
          /\ UNCHANGED <<files, used>>
       \/ /\ Failed
          /\ files' = files \ {Original(v)}
          /\ upload' = [upload EXCEPT ![v] = "refused"]
          /\ UNCHANGED row
    /\ UNCHANGED <<queue, hand, job, permits, remote, forsaken>>

\* Faulty variant: a full channel loses the job instead of making the request wait.
UploadEnqueueLosesJob(v) ==
    /\ upload[v] = "inserted"
    /\ queue' = IF Len(queue) < QueueCap THEN Append(queue, v) ELSE queue
    /\ upload' = [upload EXCEPT ![v] = "accepted"]
    /\ Push(Original(v))
    /\ UNCHANGED <<row, files, hand, job, permits, forsaken>>

\* enqueue waits while the channel is full; then the original is pushed and the
\* request answered with 201.
UploadEnqueue(v) ==
    /\ upload[v] = "inserted"
    /\ Len(queue) < QueueCap
    /\ queue' = Append(queue, v)
    /\ upload' = [upload EXCEPT ![v] = "accepted"]
    /\ Push(Original(v))
    /\ UNCHANGED <<row, files, hand, job, permits, forsaken>>

\* The client disconnects, and the handler is dropped where it waits.
UploadDrop(v) ==
    /\ upload[v] \in {"writing", "saved", "inserted"}
    /\ Event
    /\ upload' = [upload EXCEPT ![v] = "dropped"]
    /\ forsaken' = IF upload[v] = "inserted" THEN forsaken \cup {v} ELSE forsaken
    /\ UNCHANGED <<row, files, queue, hand, job, permits, remote>>
-----------------------------------------------------------------------------
(* The worker *)

Receive ==
    /\ hand = None
    /\ queue # <<>>
    /\ hand' = Head(queue)
    /\ queue' = Tail(queue)
    /\ UNCHANGED <<upload, row, files, job, permits, remote, forsaken, used>>

Dispatch ==
    /\ hand # None /\ permits > 0
    /\ job' = [job EXCEPT ![hand] = "start"]
    /\ hand' = None
    /\ permits' = permits - 1
    /\ UNCHANGED <<upload, row, files, queue, remote, forsaken, used>>

\* Faulty variant: the permit is not given back.
EndJobKeepsPermit(v) ==
    /\ job' = [job EXCEPT ![v] = "none"]
    /\ permits' = permits

\* process_job returns and its permit is dropped.
EndJob(v) ==
    /\ job' = [job EXCEPT ![v] = "none"]
    /\ permits' = permits + 1

\* An UPDATE that fails ends the job and leaves the video 'queued'; one whose
\* temporary directory cannot be made is left in 'processing'.
JobStart(v) ==
    /\ job[v] = "start"
    /\ \/ /\ row' = [row EXCEPT ![v] = "processing"]
          /\ job' = [job EXCEPT ![v] = "faststart"]
          /\ UNCHANGED <<permits, used>>
       \/ /\ Failed
          /\ row' = [row EXCEPT ![v] = "processing"] \/ UNCHANGED row
          /\ EndJob(v)
    /\ UNCHANGED <<upload, files, queue, hand, remote, forsaken>>

\* update_video_error, whose own failure is only logged.
MarkError(v) ==
    \/ row' = [row EXCEPT ![v] = "error"] /\ UNCHANGED used
    \/ Failed /\ UNCHANGED row

\* ffmpeg may refuse the file; the temporary file goes either way.
JobFaststart(v) ==
    /\ job[v] = "faststart"
    /\ \/ /\ job' = [job EXCEPT ![v] = "encode"]
          /\ files' = files \cup {Temp(v), Hls(v)}
          /\ UNCHANGED <<row, permits, used>>
       \/ /\ MarkError(v)
          /\ EndJob(v)
          /\ files' = files \ {Temp(v)}
    /\ UNCHANGED <<upload, queue, hand, remote, forsaken>>

\* Success, success that cannot be recorded, failure: the directory goes only with
\* the last.
JobEncode(v) ==
    /\ job[v] = "encode"
    /\ EndJob(v)
    /\ \/ /\ row' = [row EXCEPT ![v] = "ready"]
          /\ files' = files \ {Temp(v)}
          /\ Push(Hls(v))
       \/ /\ Failed
          /\ files' = files \ {Temp(v)}
          /\ UNCHANGED <<row, remote>>
       \/ /\ MarkError(v)
          /\ files' = files \ {Temp(v), Hls(v)}
          /\ UNCHANGED remote
    /\ UNCHANGED <<upload, queue, hand, forsaken>>

\* What a restart does here: the queue and every task are gone, no row changes.
Crash ==
    /\ upload' = [v \in Videos |-> IF upload[v] \in {"writing", "saved", "inserted"}
                                     THEN "dropped" ELSE upload[v]]
    /\ queue' = <<>>
    /\ hand' = None
    /\ job' = [v \in Videos |-> "none"]
    /\ permits' = Concurrency
    /\ forsaken' = forsaken \cup {v \in Videos : row[v] \in {"queued", "processing"}}
    /\ UNCHANGED <<row, files, remote>>
-----------------------------------------------------------------------------
TranscodeInit ==
    /\ upload = [v \in Videos |-> IF v \in Ready THEN "accepted" ELSE "new"]
    /\ row = [v \in Videos |-> IF v \in Ready THEN "ready" ELSE "absent"]
    /\ files = {Original(v) : v \in Ready} \cup {Hls(v) : v \in Ready}
    /\ queue = <<>>
    /\ hand = None
    /\ job = [v \in Videos |-> "none"]
    /\ permits = Concurrency
    /\ remote = {}
    /\ forsaken = {}
    /\ used = [events |-> 0, failures |-> 0, stops |-> 0]

\* What the server does by itself once it has a request.
TranscodeSystem ==
    \/ \E v \in Videos : UploadInsert(v) \/ UploadEnqueue(v)
    \/ Receive \/ Dispatch
    \/ \E v \in Videos : JobStart(v) \/ JobFaststart(v) \/ JobEncode(v)

\* What the uploading clients do.
TranscodeClients ==
    \E v \in Videos : UploadBegin(v) \/ UploadFile(v) \/ UploadRefuse(v) \/ UploadDrop(v)

\* Every permit is free or in the hands of one process_job, the channel keeps to its
\* capacity, and a temporary file belongs to a running job or was left by a restart.
TranscodeTypeOK ==
    /\ upload \in [Videos -> {"new", "writing", "saved", "inserted", "accepted",
                              "refused", "dropped"}]
    /\ row \in [Videos -> {"absent", "queued", "processing", "ready", "error"}]
    /\ files \subseteq Files
    /\ queue \in Seq(Videos) /\ Len(queue) <= QueueCap
    /\ hand \in Videos \cup {None}
    /\ job \in [Videos -> {"none", "start", "faststart", "encode"}]
    /\ permits + Cardinality({v \in Videos : job[v] # "none"}) = Concurrency
    /\ \A v \in Videos : Temp(v) \in files => job[v] = "encode" \/ v \in forsaken
    /\ forsaken \subseteq Videos

\* A video that was inserted becomes ready or ends with an error, unless its client
\* left before the job was queued, the server restarted, or a statement failed.
UploadsFinish ==
    \A v \in Videos :
        row[v] = "queued" ~>
            (row[v] \in {"ready", "error"} \/ v \in forsaken \/ used.failures > 0)
=============================================================================
