---------------------------- MODULE MediaProofs -----------------------------
(***************************************************************************)
(* Proofs about Media and the Transcode it extends.  The inductive         *)
(* invariant has two halves: of uploads and the worker (WorkerOK: a video  *)
(* is queued once, every permit is accounted for) and of migrations        *)
(* (MigrationOK: one holder of the lock, what a job has copied stays       *)
(* copied, a job that is not finished is worked on).                       *)
(***************************************************************************)
EXTENDS Media, FiniteSetTheorems, TLAPS

-----------------------------------------------------------------------------
(* The inductive invariant. *)

UsedOK == used \in [events : Nat, failures : Nat, stops : Nat]

Running == {v \in Videos : job[v] # "none"}

Waiting(v) == v = hand \/ \E i \in 1 .. Len(queue) : queue[i] = v

WorkerTypes ==
    /\ upload \in [Videos -> {"new", "writing", "saved", "inserted", "accepted",
                              "refused", "dropped"}]
    /\ row \in [Videos -> {"absent", "queued", "processing", "ready", "error"}]
    /\ files \subseteq Files
    /\ queue \in Seq(Videos)
    /\ hand \in Videos \cup {None}
    /\ job \in [Videos -> {"none", "start", "faststart", "encode"}]
    /\ forsaken \subseteq Videos
    /\ UsedOK

PermitsOK == permits \in Nat /\ IsFiniteSet(Running) /\ permits + Cardinality(Running) = Concurrency

\* A video is queued once: it waits in the channel, or in the receiver's hand, or is
\* encoded, and only after its upload was accepted.
QueuedOnce ==
    /\ Len(queue) <= QueueCap
    /\ \A i, k \in 1 .. Len(queue) : queue[i] = queue[k] => i = k
    /\ \A i \in 1 .. Len(queue) : queue[i] # hand
    /\ \A v \in Videos : job[v] # "none" => ~Waiting(v)
    /\ \A v \in Videos : job[v] # "none" \/ Waiting(v) => upload[v] = "accepted"

TempsOK ==
    /\ \A v \in Videos : job[v] \in {"faststart", "encode"} => row[v] = "processing"
    /\ \A v \in Videos : Temp(v) \in files => job[v] = "encode" \/ v \in forsaken

WorkerOK == WorkerTypes /\ PermitsOK /\ QueuedOnce /\ TempsOK

JobRecs == [status : Unfinished \cup Resumable \cup {"absent", "completed"},
            bucket : Buckets \cup {None}, scope : SUBSET Scopes, resume : Jobs \cup {None},
            list : SUBSET Files, keys : SUBSET Files, copied : SUBSET Files,
            failed : SUBSET Files, skipped : SUBSET Files]

\* A job's row and its task: rows come before tasks, files are worked on after they were
\* listed, an error has a cause, and a job that completed has copied or skipped its list.
GoodJob(x, at) ==
    /\ x \in JobRecs
    /\ x.status = "absent" => x = NoJob /\ at = "none"
    /\ x.status # "absent" => x.bucket \in Buckets
    /\ at = "collect" => x.copied = {} /\ x.failed = {} /\ x.skipped = {}
    /\ x.copied \cup x.failed \cup x.skipped \subseteq x.list
    /\ x.status = "completed" =>
          /\ at \in {"end", "none"}
          /\ x.failed = {} /\ x.list \subseteq x.copied \cup x.skipped

JobsOK ==
    /\ jobs \in [Jobs -> JobRecs]
    /\ task \in [Jobs -> {"none", "collect", "copy", "error", "end"}]
    /\ \A j \in Jobs : GoodJob(jobs[j], task[j])

\* What has been copied is in the job's bucket; what is skipped, in the bucket of the job
\* resumed from.
CopiedOK ==
    /\ remote \subseteq Buckets \X Files
    /\ \A j \in Jobs :
          /\ \A f \in jobs[j].copied : <<jobs[j].bucket, f>> \in remote
          /\ \A f \in jobs[j].skipped : f \in jobs[j].keys \/ <<jobs[j].bucket, f>> \in remote
          /\ jobs[j].resume = None => jobs[j].keys = {}
          /\ jobs[j].resume # None => /\ jobs[jobs[j].resume].status # "absent"
                                      /\ jobs[j].keys \subseteq jobs[jobs[j].resume].copied

\* The lock has one holder.
LockOK ==
    /\ \A a, b \in Holders : a = b
    /\ Holders # {} => lock
    /\ lock => Holders # {} \/ leaked
    /\ starting.at = "locked" => FreeJob

\* A job that is not finished is worked on, or has an excuse.
RunOK ==
    \A j \in Jobs :
       /\ task[j] = "error" => used.failures > 0
       /\ jobs[j].status \in Unfinished =>
             \/ task[j] \in {"collect", "copy", "error"}
             \/ j \in late
             \/ used.stops > 0 \/ used.failures > 1

HandlersOK ==
    /\ lock \in BOOLEAN /\ leaked \in BOOLEAN
    /\ settings \in Buckets \cup {None}
    /\ starting \in [at : {"idle", "locked"}, scope : SUBSET Scopes, resume : Jobs \cup {None}]
    /\ flags \subseteq Jobs /\ late \subseteq Jobs
    /\ canceller \in [at : {"idle", "flag", "update"}, job : Jobs \cup {None}]
    /\ canceller.at # "idle" => canceller.job \in Jobs /\ jobs[canceller.job].status # "absent"

MigrationOK == JobsOK /\ CopiedOK /\ LockOK /\ RunOK /\ HandlersOK

MediaInv == WorkerOK /\ MigrationOK
-----------------------------------------------------------------------------
(* The counters. *)

UsedGrows == used'.failures >= used.failures /\ used'.stops >= used.stops

LEMMA EventUsed ==
  ASSUME UsedOK, Event PROVE UsedOK' /\ UsedGrows
<1>1. used' = [used EXCEPT !.events = @ + 1]
  BY DEF Event
<1>2. used' = [events |-> used.events + 1, failures |-> used.failures, stops |-> used.stops]
  BY <1>1 DEF UsedOK
<1> QED BY <1>2 DEF UsedOK, UsedGrows

LEMMA FailedUsed ==
  ASSUME UsedOK, Failed PROVE UsedOK' /\ UsedGrows /\ used'.failures = used.failures + 1
<1>1. used' = [used EXCEPT !.events = @ + 1, !.failures = @ + 1]
  BY DEF Failed, Fault
<1>2. used' = [events |-> used.events + 1, failures |-> used.failures + 1, stops |-> used.stops]
  BY <1>1 DEF UsedOK
<1> QED BY <1>2 DEF UsedOK, UsedGrows

LEMMA StoppedUsed ==
  ASSUME UsedOK, Stopped PROVE UsedOK' /\ UsedGrows /\ used'.stops > 0
<1>1. used' = [used EXCEPT !.events = @ + 1, !.stops = @ + 1]
  BY DEF Stopped, Fault
<1>2. used' = [events |-> used.events + 1, failures |-> used.failures, stops |-> used.stops + 1]
  BY <1>1 DEF UsedOK
<1> QED BY <1>2 DEF UsedOK, UsedGrows

LEMMA UsedSteps ==
  ASSUME UsedOK, UNCHANGED used \/ Event \/ Failed PROVE UsedOK' /\ UsedGrows
<1>1. CASE UNCHANGED used
  BY <1>1 DEF UsedOK, UsedGrows
<1> QED BY <1>1, EventUsed, FailedUsed

\* A push to the active backend.
LEMMA PushSteps ==
  ASSUME UsedOK, NEW f \in Files, Push(f), remote \subseteq Buckets \X Files
  PROVE  UsedOK' /\ UsedGrows /\ remote \subseteq remote' /\ remote' \subseteq Buckets \X Files
<1>1. UsedOK' /\ UsedGrows
  BY UsedSteps DEF Push
<1>2. \/ remote' = remote
      \/ ActiveBucket # None /\ remote' = remote \cup {<<ActiveBucket, f>>}
  BY DEF Push
<1>3. ActiveBucket # None => <<ActiveBucket, f>> \in Buckets \X Files
  BY MediaAssumption
<1> QED BY <1>1, <1>2, <1>3
-----------------------------------------------------------------------------
(* Uploads and the worker. *)

LEMMA WorkerSame ==
  ASSUME WorkerOK, UsedOK', UNCHANGED <<upload, row, files, queue, hand, job, permits, forsaken>>
  PROVE  WorkerOK'
BY DEF WorkerOK, WorkerTypes, PermitsOK, Running, QueuedOnce, Waiting, TempsOK

LEMMA FileNames ==
  /\ \A v \in Videos : {Part(v), Original(v), Temp(v), Hls(v)} \subseteq Files
  /\ \A v, w \in Videos : /\ Temp(v) \notin {Part(w), Original(w), Hls(w)}
                          /\ Temp(v) = Temp(w) => v = w
BY DEF Files, Part, Original, Temp, Hls

\* An upload moves on: it was not accepted, so its video has no job.
LEMMA UploadMoves ==
  ASSUME WorkerOK, NEW v \in Videos, upload[v] # "accepted",
         NEW at \in {"writing", "saved", "inserted", "refused", "dropped"},
         upload' = [upload EXCEPT ![v] = at],
         row' \in [Videos -> {"absent", "queued", "processing", "ready", "error"}],
         \A w \in Videos : w # v => row'[w] = row[w],
         files' \subseteq Files, \A w \in Videos : Temp(w) \in files' => Temp(w) \in files,
         forsaken \subseteq forsaken', forsaken' \subseteq Videos, UsedOK',
         UNCHANGED <<queue, hand, job, permits>>
  PROVE  WorkerOK'
<1>1. /\ upload' \in [Videos -> {"new", "writing", "saved", "inserted", "accepted",
                                 "refused", "dropped"}]
      /\ \A w \in Videos : w # v => upload'[w] = upload[w]
  BY DEF WorkerOK, WorkerTypes
<1>2. job[v] = "none" /\ ~Waiting(v)
  BY DEF WorkerOK, QueuedOnce
<1>3. WorkerTypes'
  BY <1>1 DEF WorkerOK, WorkerTypes
<1>4. PermitsOK'
  BY DEF WorkerOK, PermitsOK, Running
<1>5. QueuedOnce'
  BY <1>1, <1>2 DEF WorkerOK, QueuedOnce, Waiting
<1>6. TempsOK'
  BY <1>2 DEF WorkerOK, TempsOK
<1> QED BY <1>3, <1>4, <1>5, <1>6 DEF WorkerOK

LEMMA UploadSteps ==
  ASSUME WorkerOK, NEW v \in Videos,
         UploadBegin(v) \/ UploadFile(v) \/ UploadRefuse(v) \/ UploadInsert(v) \/ UploadDrop(v)
  PROVE  WorkerOK' /\ UsedGrows /\ UNCHANGED remote
<1>1. UsedOK' /\ UsedGrows /\ UNCHANGED <<queue, hand, job, permits, remote>>
  BY UsedSteps DEF WorkerOK, WorkerTypes, UploadBegin, UploadFile, UploadRefuse, UploadInsert,
                   UploadDrop
<1>2. /\ files \subseteq Files /\ forsaken \subseteq Videos
      /\ row \in [Videos -> {"absent", "queued", "processing", "ready", "error"}]
  BY DEF WorkerOK, WorkerTypes
<1>3. upload[v] # "accepted"
  BY DEF UploadBegin, UploadFile, UploadRefuse, UploadInsert, UploadDrop
<1>4. \E at \in {"writing", "saved", "inserted", "refused", "dropped"} :
         upload' = [upload EXCEPT ![v] = at]
  BY DEF UploadBegin, UploadFile, UploadRefuse, UploadInsert, UploadDrop
<1>5. /\ row' \in [Videos -> {"absent", "queued", "processing", "ready", "error"}]
      /\ \A w \in Videos : w # v => row'[w] = row[w]
  BY <1>2 DEF UploadBegin, UploadFile, UploadRefuse, UploadInsert, UploadDrop
<1>6. \E add \in {{}, {Part(v)}, {Original(v)}} : files' \subseteq files \cup add
  BY DEF UploadBegin, UploadFile, UploadRefuse, UploadInsert, UploadDrop
<1>7. files' \subseteq Files /\ \A w \in Videos : Temp(w) \in files' => Temp(w) \in files
  BY <1>2, <1>6, FileNames
<1>8. forsaken \subseteq forsaken' /\ forsaken' \subseteq Videos
  BY <1>2 DEF UploadBegin, UploadFile, UploadRefuse, UploadInsert, UploadDrop
<1> QED BY <1>1, <1>3, <1>4, <1>5, <1>7, <1>8, UploadMoves

LEMMA UploadEnqueueStep ==
  ASSUME WorkerOK, remote \subseteq Buckets \X Files, NEW v \in Videos, UploadEnqueue(v)
  PROVE  WorkerOK' /\ UsedGrows /\ remote \subseteq remote' /\ remote' \subseteq Buckets \X Files
<1>1. /\ upload[v] = "inserted" /\ Len(queue) < QueueCap /\ queue' = Append(queue, v)
      /\ upload' = [upload EXCEPT ![v] = "accepted"] /\ Push(Original(v))
      /\ UNCHANGED <<row, files, hand, job, permits, forsaken>>
  BY DEF UploadEnqueue
<1>2. /\ UsedOK' /\ UsedGrows /\ remote \subseteq remote' /\ remote' \subseteq Buckets \X Files
  BY <1>1, PushSteps, FileNames DEF WorkerOK, WorkerTypes
<1>3. job[v] = "none" /\ ~Waiting(v) /\ queue \in Seq(Videos)
  BY <1>1 DEF WorkerOK, QueuedOnce, WorkerTypes
<1>4. /\ queue' \in Seq(Videos) /\ Len(queue') = Len(queue) + 1 /\ Len(queue) \in Nat
      /\ queue'[Len(queue) + 1] = v
      /\ \A i \in 1 .. Len(queue) : queue'[i] = queue[i]
  BY <1>1, <1>3
<1>5. WorkerTypes'
  BY <1>1, <1>2, <1>4 DEF WorkerOK, WorkerTypes
<1>6. PermitsOK' /\ TempsOK'
  BY <1>1 DEF WorkerOK, PermitsOK, Running, TempsOK
<1>7. \A w : Waiting(w)' => Waiting(w) \/ w = v
  BY <1>1, <1>4 DEF Waiting
<1>8. QueuedOnce'
  <2>1. Len(queue') <= QueueCap
    BY <1>1, <1>4, TranscodeAssumption
  <2>2. \A i, k \in 1 .. Len(queue') : queue'[i] = queue'[k] => i = k
    <3> SUFFICES ASSUME NEW i \in 1 .. Len(queue'), NEW k \in 1 .. Len(queue'),
                        queue'[i] = queue'[k]
                 PROVE  i = k
      OBVIOUS
    <3>1. \A m \in 1 .. Len(queue') : m \in 1 .. Len(queue) \/ m = Len(queue) + 1
      BY <1>4
    <3>2. \A m \in 1 .. Len(queue) : queue'[m] # v
      BY <1>3, <1>4 DEF Waiting
    <3> QED BY <1>4, <3>1, <3>2 DEF WorkerOK, QueuedOnce
  <2>3. \A i \in 1 .. Len(queue') : queue'[i] # hand'
    <3>1. v # hand
      BY <1>3 DEF Waiting
    <3>2. \A i \in 1 .. Len(queue') : i \in 1 .. Len(queue) \/ queue'[i] = v
      BY <1>4
    <3> QED BY <1>1, <1>4, <3>1, <3>2 DEF WorkerOK, QueuedOnce
  <2>4. \A w \in Videos : job'[w] # "none" => ~Waiting(w)'
    BY <1>1, <1>3, <1>7 DEF WorkerOK, QueuedOnce
  <2>5. \A w \in Videos : job'[w] # "none" \/ Waiting(w)' => upload'[w] = "accepted"
    BY <1>1, <1>3, <1>7 DEF WorkerOK, QueuedOnce, WorkerTypes
  <2> QED BY <2>1, <2>2, <2>3, <2>4, <2>5 DEF QueuedOnce
<1> QED BY <1>2, <1>5, <1>6, <1>8 DEF WorkerOK

LEMMA ReceiveStep ==
  ASSUME WorkerOK, Receive PROVE WorkerOK' /\ UsedGrows /\ UNCHANGED remote
<1>1. /\ hand = None /\ queue # <<>> /\ hand' = Head(queue) /\ queue' = Tail(queue)
      /\ UNCHANGED <<upload, row, files, job, permits, remote, forsaken, used>>
      /\ queue \in Seq(Videos)
  BY DEF Receive, WorkerOK, WorkerTypes
<1>2. UsedOK' /\ UsedGrows
  BY <1>1, UsedSteps DEF WorkerOK, WorkerTypes
<1>3. /\ queue' \in Seq(Videos) /\ Len(queue) \in Nat \ {0} /\ Len(queue') = Len(queue) - 1
      /\ hand' = queue[1] /\ hand' \in Videos
      /\ \A i \in 1 .. Len(queue') : i + 1 \in 1 .. Len(queue) /\ queue'[i] = queue[i + 1]
  BY <1>1
<1>4. \A w \in Videos : Waiting(w)' => Waiting(w)
  BY <1>3 DEF Waiting
<1>5. WorkerTypes' /\ PermitsOK' /\ TempsOK'
  BY <1>1, <1>2, <1>3 DEF WorkerOK, WorkerTypes, PermitsOK, Running, TempsOK
<1>6. QueuedOnce'
  <2>1. Len(queue') <= QueueCap
    BY <1>3, TranscodeAssumption DEF WorkerOK, QueuedOnce
  <2>2. \A i, k \in 1 .. Len(queue') : queue'[i] = queue'[k] => i = k
    BY SMTT(30), <1>3 DEF WorkerOK, QueuedOnce
  <2>3. \A i \in 1 .. Len(queue') : queue'[i] # hand'
    BY <1>3 DEF WorkerOK, QueuedOnce
  <2>4. \A w \in Videos : /\ job'[w] # "none" => ~Waiting(w)'
                          /\ job'[w] # "none" \/ Waiting(w)' => upload'[w] = "accepted"
    BY <1>1, <1>4 DEF WorkerOK, QueuedOnce
  <2> QED BY <2>1, <2>2, <2>3, <2>4 DEF QueuedOnce
<1> QED BY <1>1, <1>2, <1>5, <1>6 DEF WorkerOK

LEMMA DispatchStep ==
  ASSUME WorkerOK, Dispatch PROVE WorkerOK' /\ UsedGrows /\ UNCHANGED remote
<1>1. /\ hand # None /\ permits > 0 /\ hand' = None /\ permits' = permits - 1
      /\ job' = [job EXCEPT ![hand] = "start"]
      /\ UNCHANGED <<upload, row, files, queue, remote, forsaken, used>>
      /\ hand \in Videos
  BY DEF Dispatch, WorkerOK, WorkerTypes
<1>2. UsedOK' /\ UsedGrows
  BY <1>1, UsedSteps DEF WorkerOK, WorkerTypes
<1>3. /\ job' \in [Videos -> {"none", "start", "faststart", "encode"}]
      /\ job'[hand] = "start" /\ (\A w \in Videos : w # hand => job'[w] = job[w])
  BY <1>1 DEF WorkerOK, WorkerTypes
<1>4. job[hand] = "none" /\ upload[hand] = "accepted"
  BY <1>1 DEF WorkerOK, QueuedOnce, Waiting
<1>5. WorkerTypes'
  BY <1>1, <1>2, <1>3 DEF WorkerOK, WorkerTypes
<1>6. PermitsOK'
  <2>1. Running' = Running \cup {hand} /\ hand \notin Running
    BY <1>1, <1>3, <1>4 DEF Running
  <2>2. IsFiniteSet(Running') /\ Cardinality(Running') = Cardinality(Running) + 1
    BY <2>1, FS_AddElement DEF WorkerOK, PermitsOK
  <2>3. Cardinality(Running) \in Nat
    BY FS_CardinalityType DEF WorkerOK, PermitsOK
  <2> QED BY <1>1, <2>2, <2>3, TranscodeAssumption DEF WorkerOK, PermitsOK
<1>7. TempsOK'
  BY <1>1, <1>3, <1>4 DEF WorkerOK, TempsOK
<1>8. QueuedOnce'
  <2>1. \A i \in 1 .. Len(queue) : queue[i] \in Videos
    BY DEF WorkerOK, WorkerTypes
  <2>2. \A i \in 1 .. Len(queue') : queue'[i] # hand'
    BY <1>1, <2>1, TranscodeAssumption
  <2>3. \A w \in Videos : Waiting(w)' => Waiting(w) /\ w # hand
    BY <1>1, TranscodeAssumption DEF Waiting, WorkerOK, QueuedOnce
  <2>4. \A w \in Videos : /\ job'[w] # "none" => ~Waiting(w)'
                          /\ job'[w] # "none" \/ Waiting(w)' => upload'[w] = "accepted"
    BY <1>1, <1>3, <1>4, <2>3 DEF WorkerOK, QueuedOnce
  <2> QED BY <1>1, <2>2, <2>4 DEF WorkerOK, QueuedOnce
<1> QED BY <1>1, <1>2, <1>5, <1>6, <1>7, <1>8 DEF WorkerOK
\* process_job ends, well or not: the permit is given back.
LEMMA JobEnds ==
  ASSUME WorkerOK, NEW v \in Videos, job[v] # "none", EndJob(v), NEW gone \in SUBSET {Temp(v), Hls(v)},
         row' \in [Videos -> {"absent", "queued", "processing", "ready", "error"}],
         \A w \in Videos : w # v => row'[w] = row[w],
         job[v] = "encode" => Temp(v) \in gone,
         files' = files \ gone, UsedOK', UNCHANGED <<upload, queue, hand, forsaken>>
  PROVE  WorkerOK'
<1>1. /\ job' \in [Videos -> {"none", "start", "faststart", "encode"}]
      /\ job'[v] = "none" /\ (\A w \in Videos : w # v => job'[w] = job[w])
      /\ permits' = permits + 1
  BY DEF EndJob, WorkerOK, WorkerTypes
<1>2. WorkerTypes'
  BY <1>1 DEF WorkerOK, WorkerTypes
<1>3. PermitsOK'
  <2>1. Running' = Running \ {v} /\ v \in Running
    BY <1>1 DEF Running
  <2>2. IsFiniteSet(Running') /\ Cardinality(Running') = Cardinality(Running) - 1
    BY <2>1, FS_RemoveElement DEF WorkerOK, PermitsOK
  <2>3. Cardinality(Running) \in Nat
    BY FS_CardinalityType DEF WorkerOK, PermitsOK
  <2> QED BY <1>1, <2>2, <2>3, TranscodeAssumption DEF WorkerOK, PermitsOK
<1>4. TempsOK'
  BY <1>1 DEF WorkerOK, TempsOK
<1>5. QueuedOnce'
  BY <1>1 DEF WorkerOK, QueuedOnce, Waiting
<1> QED BY <1>2, <1>3, <1>4, <1>5 DEF WorkerOK

\* process_job goes on.
LEMMA JobGoesOn ==
  ASSUME WorkerOK, NEW v \in Videos, job[v] # "none", NEW at \in {"faststart", "encode"},
         job' = [job EXCEPT ![v] = at], row' = [row EXCEPT ![v] = "processing"],
         files' \subseteq Files,
         \A w \in Videos : Temp(w) \in files' => Temp(w) \in files \/ (w = v /\ at = "encode"),
         at = "faststart" => job[v] # "encode",
         UNCHANGED <<upload, queue, hand, permits, forsaken>>, UsedOK'
  PROVE  WorkerOK'
<1>1. /\ job' \in [Videos -> {"none", "start", "faststart", "encode"}]
      /\ job'[v] = at /\ (\A w \in Videos : w # v => job'[w] = job[w])
      /\ row' \in [Videos -> {"absent", "queued", "processing", "ready", "error"}]
      /\ row'[v] = "processing" /\ (\A w \in Videos : w # v => row'[w] = row[w])
  BY DEF WorkerOK, WorkerTypes
<1>2. WorkerTypes'
  BY <1>1 DEF WorkerOK, WorkerTypes
<1>3. PermitsOK'
  <2>1. Running' = Running
    BY <1>1 DEF Running
  <2> QED BY <2>1 DEF WorkerOK, PermitsOK
<1>4. TempsOK'
  BY <1>1 DEF WorkerOK, TempsOK
<1>5. QueuedOnce'
  BY <1>1 DEF WorkerOK, QueuedOnce, Waiting
<1> QED BY <1>2, <1>3, <1>4, <1>5 DEF WorkerOK

LEMMA JobStartStep ==
  ASSUME WorkerOK, NEW v \in Videos, JobStart(v) PROVE WorkerOK' /\ UsedGrows /\ UNCHANGED remote
<1>1. job[v] = "start" /\ UNCHANGED <<upload, files, queue, hand, remote, forsaken>>
  BY DEF JobStart
<1>2. UsedOK' /\ UsedGrows
  BY UsedSteps DEF JobStart, WorkerOK, WorkerTypes
<1>3. row \in [Videos -> {"absent", "queued", "processing", "ready", "error"}] /\ files \subseteq Files
  BY DEF WorkerOK, WorkerTypes
<1>4. CASE row' = [row EXCEPT ![v] = "processing"] /\ job' = [job EXCEPT ![v] = "faststart"]
           /\ UNCHANGED <<permits, used>>
  BY <1>1, <1>2, <1>3, <1>4, JobGoesOn
<1>5. CASE EndJob(v) /\ (row' = [row EXCEPT ![v] = "processing"] \/ UNCHANGED row)
  <2>1. /\ row' \in [Videos -> {"absent", "queued", "processing", "ready", "error"}]
        /\ \A w \in Videos : w # v => row'[w] = row[w]
    BY <1>3, <1>5
  <2>2. files' = files \ {} /\ {} \in SUBSET {Temp(v), Hls(v)}
    BY <1>1
  <2> QED BY <1>1, <1>2, <1>5, <2>1, <2>2, JobEnds
<1> QED BY <1>1, <1>2, <1>4, <1>5 DEF JobStart

\* What update_video_error does to the row.
LEMMA MarkErrorRow ==
  ASSUME WorkerOK, NEW v \in Videos, MarkError(v)
  PROVE  /\ row' \in [Videos -> {"absent", "queued", "processing", "ready", "error"}]
         /\ \A w \in Videos : w # v => row'[w] = row[w]
         /\ UNCHANGED used \/ Failed
BY DEF MarkError, WorkerOK, WorkerTypes

LEMMA JobFaststartStep ==
  ASSUME WorkerOK, NEW v \in Videos, JobFaststart(v)
  PROVE  WorkerOK' /\ UsedGrows /\ UNCHANGED remote
<1>1. job[v] = "faststart" /\ UNCHANGED <<upload, queue, hand, remote, forsaken>>
  BY DEF JobFaststart
<1>2. UsedOK' /\ UsedGrows
  BY UsedSteps, MarkErrorRow DEF JobFaststart, WorkerOK, WorkerTypes
<1>3. /\ row \in [Videos -> {"absent", "queued", "processing", "ready", "error"}]
      /\ files \subseteq Files /\ row[v] = "processing"
  BY <1>1 DEF WorkerOK, WorkerTypes, TempsOK
<1>4. CASE job' = [job EXCEPT ![v] = "encode"] /\ files' = files \cup {Temp(v), Hls(v)}
           /\ UNCHANGED <<row, permits, used>>
  <2>1. row' = [row EXCEPT ![v] = "processing"]
    BY <1>3, <1>4
  <2>2. /\ files' \subseteq Files
        /\ \A w \in Videos : Temp(w) \in files' => Temp(w) \in files \/ w = v
    BY <1>3, <1>4, FileNames
  <2> QED BY <1>1, <1>2, <1>4, <2>1, <2>2, JobGoesOn
<1>5. CASE MarkError(v) /\ EndJob(v) /\ files' = files \ {Temp(v)}
  <2>1. {Temp(v)} \in SUBSET {Temp(v), Hls(v)}
    OBVIOUS
  <2> QED BY <1>1, <1>2, <1>5, <2>1, MarkErrorRow, JobEnds
<1> QED BY <1>1, <1>2, <1>4, <1>5 DEF JobFaststart

LEMMA JobEncodeStep ==
  ASSUME WorkerOK, remote \subseteq Buckets \X Files, NEW v \in Videos, JobEncode(v)
  PROVE  WorkerOK' /\ UsedGrows /\ remote \subseteq remote' /\ remote' \subseteq Buckets \X Files
<1>1. job[v] = "encode" /\ EndJob(v) /\ UNCHANGED <<upload, queue, hand, forsaken>> /\ UsedOK
  BY DEF JobEncode, WorkerOK, WorkerTypes
<1>2. row \in [Videos -> {"absent", "queued", "processing", "ready", "error"}]
  BY DEF WorkerOK, WorkerTypes
<1>3. CASE row' = [row EXCEPT ![v] = "ready"] /\ files' = files \ {Temp(v)} /\ Push(Hls(v))
  <2>1. UsedOK' /\ UsedGrows /\ remote \subseteq remote' /\ remote' \subseteq Buckets \X Files
    BY <1>1, <1>3, PushSteps, FileNames
  <2>2. /\ row' \in [Videos -> {"absent", "queued", "processing", "ready", "error"}]
        /\ \A w \in Videos : w # v => row'[w] = row[w]
    BY <1>2, <1>3
  <2>3. {Temp(v)} \in SUBSET {Temp(v), Hls(v)}
    OBVIOUS
  <2>4. WorkerOK'
    BY <1>1, <1>3, <2>1, <2>2, <2>3, JobEnds
  <2> QED BY <2>1, <2>4
<1>4. CASE Failed /\ files' = files \ {Temp(v)} /\ UNCHANGED <<row, remote>>
  <2>1. UsedOK' /\ UsedGrows
    BY <1>1, <1>4, UsedSteps
  <2>2. /\ row' \in [Videos -> {"absent", "queued", "processing", "ready", "error"}]
        /\ \A w \in Videos : w # v => row'[w] = row[w]
    BY <1>2, <1>4
  <2>3. {Temp(v)} \in SUBSET {Temp(v), Hls(v)}
    OBVIOUS
  <2>4. WorkerOK'
    BY <1>1, <1>4, <2>1, <2>2, <2>3, JobEnds
  <2> QED BY <1>4, <2>1, <2>4
<1>5. CASE MarkError(v) /\ files' = files \ {Temp(v), Hls(v)} /\ UNCHANGED remote
  <2>1. UsedOK' /\ UsedGrows
    BY <1>1, <1>5, UsedSteps, MarkErrorRow
  <2>2. {Temp(v), Hls(v)} \in SUBSET {Temp(v), Hls(v)}
    OBVIOUS
  <2>3. WorkerOK'
    BY <1>1, <1>5, <2>1, <2>2, MarkErrorRow, JobEnds
  <2> QED BY <1>5, <2>1, <2>3
<1> QED BY <1>3, <1>4, <1>5 DEF JobEncode

LEMMA TranscodeSteps ==
  ASSUME WorkerOK, remote \subseteq Buckets \X Files, TranscodeSystem \/ TranscodeClients
  PROVE  WorkerOK' /\ UsedGrows /\ remote \subseteq remote' /\ remote' \subseteq Buckets \X Files
<1>1. ASSUME NEW v \in Videos,
             UploadBegin(v) \/ UploadFile(v) \/ UploadRefuse(v) \/ UploadInsert(v) \/ UploadDrop(v)
      PROVE  WorkerOK' /\ UsedGrows /\ UNCHANGED remote
  BY <1>1, UploadSteps
<1>2. ASSUME Receive \/ Dispatch PROVE WorkerOK' /\ UsedGrows /\ UNCHANGED remote
  BY <1>2, ReceiveStep, DispatchStep
<1>3. ASSUME NEW v \in Videos, JobStart(v) \/ JobFaststart(v)
      PROVE  WorkerOK' /\ UsedGrows /\ UNCHANGED remote
  BY <1>3, JobStartStep, JobFaststartStep
<1>4. ASSUME NEW v \in Videos, UploadEnqueue(v) \/ JobEncode(v)
      PROVE  /\ WorkerOK' /\ UsedGrows
             /\ remote \subseteq remote' /\ remote' \subseteq Buckets \X Files
  BY <1>4, UploadEnqueueStep, JobEncodeStep
<1> QED BY <1>1, <1>2, <1>3, <1>4 DEF TranscodeSystem, TranscodeClients

\* A restart: nothing waits and nothing runs; what ffmpeg had written stays.
LEMMA CrashStep ==
  ASSUME WorkerOK, UsedOK', Crash PROVE WorkerOK'
<1>1. /\ upload' \in [Videos -> {"new", "writing", "saved", "inserted", "accepted",
                                 "refused", "dropped"}]
      /\ job' = [v \in Videos |-> "none"] /\ queue' = <<>> /\ hand' = None
      /\ permits' = Concurrency
      /\ forsaken' = forsaken \cup {v \in Videos : row[v] \in {"queued", "processing"}}
      /\ UNCHANGED <<row, files>>
  BY DEF Crash, WorkerOK, WorkerTypes
<1>2. WorkerTypes'
  BY <1>1 DEF WorkerOK, WorkerTypes
<1>3. PermitsOK'
  <2>1. Running' = {}
    BY <1>1 DEF Running
  <2> QED BY <1>1, <2>1, FS_EmptySet, TranscodeAssumption DEF PermitsOK
<1>4. TempsOK'
  BY <1>1 DEF WorkerOK, TempsOK
<1>5. QueuedOnce'
  <2>1. Len(queue') = 0 /\ \A v \in Videos : job'[v] = "none" /\ ~Waiting(v)'
    BY <1>1, TranscodeAssumption DEF Waiting
  <2> QED BY <2>1, TranscodeAssumption DEF QueuedOnce
<1> QED BY <1>2, <1>3, <1>4, <1>5 DEF WorkerOK

LEMMA WorkerInit ==
  ASSUME TranscodeInit PROVE WorkerOK
<1>1. /\ job = [v \in Videos |-> "none"] /\ queue = <<>> /\ hand = None
      /\ permits = Concurrency /\ forsaken = {}
      /\ files = {Original(v) : v \in Ready} \cup {Hls(v) : v \in Ready}
  BY DEF TranscodeInit
<1>2. files \subseteq Files /\ \A w \in Videos : Temp(w) \notin files
  BY <1>1, FileNames, TranscodeAssumption
<1>3. WorkerTypes
  BY <1>1, <1>2 DEF TranscodeInit, WorkerTypes, UsedOK
<1>4. PermitsOK
  <2>1. Running = {}
    BY <1>1 DEF Running
  <2> QED BY <1>1, <2>1, FS_EmptySet, TranscodeAssumption DEF PermitsOK
<1>5. TempsOK
  BY <1>1, <1>2 DEF TempsOK
<1>6. QueuedOnce
  <2>1. Len(queue) = 0 /\ \A v \in Videos : job[v] = "none" /\ ~Waiting(v)
    BY <1>1, TranscodeAssumption DEF Waiting
  <2> QED BY <2>1, TranscodeAssumption DEF QueuedOnce
<1> QED BY <1>3, <1>4, <1>5, <1>6 DEF WorkerOK
-----------------------------------------------------------------------------
(* Migration jobs. *)

LEMMA NoJobFields ==
  /\ NoJob.status = "absent" /\ NoJob.bucket = None /\ NoJob.resume = None /\ NoJob.scope = {}
  /\ NoJob.list = {} /\ NoJob.keys = {} /\ NoJob.copied = {} /\ NoJob.failed = {}
  /\ NoJob.skipped = {} /\ NoJob \in JobRecs
BY DEF NoJob, JobRecs

\* A step that leaves the jobs and their tasks alone.
LEMMA JobsSame ==
  ASSUME MigrationOK, UsedOK, UsedOK', UsedGrows, UNCHANGED <<jobs, task>>,
         remote \subseteq remote', remote' \subseteq Buckets \X Files, late \subseteq late',
         LockOK', HandlersOK'
  PROVE  MigrationOK'
<1>1. JobsOK'
  BY DEF MigrationOK, JobsOK
<1>2. CopiedOK'
  BY DEF MigrationOK, CopiedOK
<1>3. RunOK'
  BY DEF MigrationOK, RunOK, UsedOK, UsedGrows
<1> QED BY <1>1, <1>2, <1>3 DEF MigrationOK

LEMMA MigrationLasts ==
  ASSUME MigrationOK, UsedOK, UsedOK', UsedGrows, UNCHANGED migrationVars,
         remote \subseteq remote', remote' \subseteq Buckets \X Files
  PROVE  MigrationOK'
<1>1. UNCHANGED <<settings, lock, starting, jobs, task, flags, canceller, leaked, late>>
  BY DEF migrationVars
<1>2. LockOK' /\ HandlersOK'
  BY <1>1 DEF MigrationOK, LockOK, HandlersOK, Holders, FreeJob
<1> QED BY <1>1, <1>2, JobsSame

\* A job's task, or a cancellation, writes the job's row.  The bucket and the job
\* resumed from stay, and what was copied is not forgotten.
Continues(x, y) ==
    /\ x.status # "absent" /\ y.status # "absent"
    /\ y.bucket = x.bucket /\ y.resume = x.resume /\ x.copied \subseteq y.copied

LEMMA OneJob ==
  ASSUME MigrationOK, UsedOK, UsedOK', UsedGrows, NEW j \in Jobs, NEW y,
         NEW at \in {"none", "collect", "copy", "error", "end"},
         jobs' = [jobs EXCEPT ![j] = y], task' = [task EXCEPT ![j] = at],
         GoodJob(y, at), Continues(jobs[j], y), at = "none" <=> task[j] = "none",
         remote \subseteq remote', remote' \subseteq Buckets \X Files,
         \A f \in y.copied : <<y.bucket, f>> \in remote',
         \A f \in y.skipped : f \in y.keys \/ <<y.bucket, f>> \in remote',
         y.resume = None => y.keys = {},
         y.resume # None => y.keys \subseteq jobs[y.resume].copied,
         at = "error" => used'.failures > 0,
         y.status \in Unfinished => \/ at \in {"collect", "copy", "error"}
                                    \/ j \in late'
                                    \/ used'.stops > 0 \/ used'.failures > 1,
         late \subseteq late', late' \subseteq Jobs, flags' \subseteq Jobs,
         canceller' \in {canceller, NoCancel}, UNCHANGED <<settings, lock, starting, leaked>>
  PROVE  MigrationOK'
<1>1. /\ jobs'[j] = y /\ task'[j] = at
      /\ \A i \in Jobs : i # j => jobs'[i] = jobs[i] /\ task'[i] = task[i]
  BY DEF MigrationOK, JobsOK
<1>2. JobsOK'
  <2>1. jobs' \in [Jobs -> JobRecs]
    BY DEF MigrationOK, JobsOK, GoodJob
  <2>2. task' \in [Jobs -> {"none", "collect", "copy", "error", "end"}]
    BY DEF MigrationOK, JobsOK
  <2>3. \A i \in Jobs : GoodJob(jobs'[i], task'[i])
    BY <1>1 DEF MigrationOK, JobsOK
  <2> QED BY <2>1, <2>2, <2>3 DEF JobsOK
<1>3. \A i \in Jobs : jobs[i].status # "absent" => /\ jobs'[i].status # "absent"
                                                   /\ jobs[i].copied \subseteq jobs'[i].copied
  BY <1>1 DEF Continues
<1>4. CopiedOK'
  <2> SUFFICES ASSUME NEW i \in Jobs
      PROVE  /\ \A f \in jobs'[i].copied : <<jobs'[i].bucket, f>> \in remote'
             /\ \A f \in jobs'[i].skipped : f \in jobs'[i].keys \/ <<jobs'[i].bucket, f>> \in remote'
             /\ jobs'[i].resume = None => jobs'[i].keys = {}
             /\ jobs'[i].resume # None => /\ jobs'[jobs'[i].resume].status # "absent"
                                          /\ jobs'[i].keys \subseteq jobs'[jobs'[i].resume].copied
    BY DEF CopiedOK
  <2>1. jobs[i].resume \in Jobs \cup {None} /\ jobs[j].resume \in Jobs \cup {None}
    BY DEF MigrationOK, JobsOK, JobRecs
  <2>2. CASE i = j
    <3>1. y.resume # None => /\ jobs'[y.resume].status # "absent"
                             /\ y.keys \subseteq jobs'[y.resume].copied
      BY <1>3, <2>1 DEF Continues, MigrationOK, CopiedOK
    <3> QED BY <1>1, <2>2, <3>1
  <2>3. CASE i # j
    <3>1. jobs'[i] = jobs[i]
      BY <1>1, <2>3
    <3>2. /\ \A f \in jobs[i].copied : <<jobs[i].bucket, f>> \in remote'
          /\ \A f \in jobs[i].skipped : f \in jobs[i].keys \/ <<jobs[i].bucket, f>> \in remote'
          /\ jobs[i].resume = None => jobs[i].keys = {}
      BY DEF MigrationOK, CopiedOK
    <3>3. jobs[i].resume # None => /\ jobs'[jobs[i].resume].status # "absent"
                                   /\ jobs[i].keys \subseteq jobs'[jobs[i].resume].copied
      BY <1>3, <2>1 DEF MigrationOK, CopiedOK
    <3> QED BY <3>1, <3>2, <3>3
  <2> QED BY <2>2, <2>3
<1>5. LockOK'
  <2>1. Holders' = Holders
    BY <1>1 DEF Holders
  <2>2. FreeJob => FreeJob'
    BY <1>1, NoJobFields DEF FreeJob, Continues
  <2> QED BY <2>1, <2>2 DEF MigrationOK, LockOK
<1>6. RunOK'
  <2> SUFFICES ASSUME NEW i \in Jobs
      PROVE  /\ task'[i] = "error" => used'.failures > 0
             /\ jobs'[i].status \in Unfinished =>
                   \/ task'[i] \in {"collect", "copy", "error"}
                   \/ i \in late' \/ used'.stops > 0 \/ used'.failures > 1
    BY DEF RunOK
  <2>1. CASE i = j
    BY <1>1, <2>1
  <2>2. CASE i # j
    BY <1>1, <2>2 DEF MigrationOK, RunOK, UsedOK, UsedGrows
  <2> QED BY <2>1, <2>2
<1>7. HandlersOK'
  <2>1. /\ canceller' \in [at : {"idle", "flag", "update"}, job : Jobs \cup {None}]
        /\ canceller'.at # "idle" => canceller' = canceller
    BY DEF MigrationOK, HandlersOK, NoCancel
  <2>2. canceller'.at # "idle" => /\ canceller'.job \in Jobs
                                  /\ jobs'[canceller'.job].status # "absent"
    BY <1>3, <2>1 DEF MigrationOK, HandlersOK
  <2> QED BY <2>1, <2>2 DEF MigrationOK, HandlersOK
<1> QED BY <1>2, <1>4, <1>5, <1>6, <1>7 DEF MigrationOK

\* What a running job looks like.
LEMMA JobFacts ==
  ASSUME MigrationOK, NEW j \in Jobs
  PROVE  /\ jobs[j] \in JobRecs /\ GoodJob(jobs[j], task[j])
         /\ task[j] \in {"none", "collect", "copy", "error", "end"}
         /\ task[j] # "none" => jobs[j].status # "absent"
         /\ \A f \in jobs[j].copied : <<jobs[j].bucket, f>> \in remote
         /\ \A f \in jobs[j].skipped : f \in jobs[j].keys \/ <<jobs[j].bucket, f>> \in remote
         /\ jobs[j].resume \in Jobs \cup {None}
         /\ jobs[j].resume = None => jobs[j].keys = {}
         /\ jobs[j].resume # None => jobs[j].keys \subseteq jobs[jobs[j].resume].copied
         /\ remote \subseteq Buckets \X Files /\ flags \subseteq Jobs /\ late \subseteq Jobs
         /\ jobs \in [Jobs -> JobRecs]
         /\ task \in [Jobs -> {"none", "collect", "copy", "error", "end"}]
<1>1. /\ jobs[j] \in JobRecs /\ GoodJob(jobs[j], task[j])
      /\ task[j] \in {"none", "collect", "copy", "error", "end"}
      /\ jobs \in [Jobs -> JobRecs]
      /\ task \in [Jobs -> {"none", "collect", "copy", "error", "end"}]
  BY DEF MigrationOK, JobsOK
<1>2. /\ jobs[j].resume \in Jobs \cup {None} /\ (task[j] # "none" => jobs[j].status # "absent")
  BY <1>1 DEF JobRecs, GoodJob
<1> QED BY <1>1, <1>2 DEF MigrationOK, CopiedOK, HandlersOK
\* The status of a job is written, and its task moves on.
LEMMA StatusWritten ==
  ASSUME MigrationOK, UsedOK, UsedOK', UsedGrows, NEW j \in Jobs,
         NEW status \in Unfinished \cup Resumable \cup {"completed"},
         NEW at \in {"none", "collect", "copy", "error", "end"},
         jobs' = [jobs EXCEPT ![j].status = status], task' = [task EXCEPT ![j] = at],
         jobs[j].status # "absent", at = "none" <=> task[j] = "none",
         at = "collect" => task[j] = "collect",
         status = "completed" => /\ at = "end" /\ jobs[j].failed = {}
                                 /\ jobs[j].list \subseteq jobs[j].copied \cup jobs[j].skipped,
         at = "error" => used'.failures > 0,
         status \in Unfinished => \/ at \in {"collect", "copy", "error"}
                                  \/ j \in late'
                                  \/ used'.stops > 0 \/ used'.failures > 1,
         late \subseteq late', late' \subseteq Jobs, flags' \subseteq Jobs,
         canceller' \in {canceller, NoCancel}, UNCHANGED <<settings, lock, starting, leaked, remote>>
  PROVE  MigrationOK'
<1> DEFINE x == jobs[j]
           y == [x EXCEPT !.status = status]
<1>1. /\ x \in JobRecs /\ GoodJob(x, task[j])
      /\ \A f \in x.copied : <<x.bucket, f>> \in remote
      /\ \A f \in x.skipped : f \in x.keys \/ <<x.bucket, f>> \in remote
      /\ x.resume = None => x.keys = {}
      /\ x.resume # None => x.keys \subseteq jobs[x.resume].copied
      /\ remote \subseteq Buckets \X Files /\ jobs \in [Jobs -> JobRecs]
  BY JobFacts
<1>2. jobs' = [jobs EXCEPT ![j] = y]
  BY <1>1
<1>3. /\ y \in JobRecs /\ y.status = status /\ y.bucket = x.bucket /\ y.resume = x.resume
      /\ y.list = x.list /\ y.keys = x.keys /\ y.copied = x.copied /\ y.failed = x.failed
      /\ y.skipped = x.skipped
  BY <1>1 DEF JobRecs
<1>4. status # "absent"
  BY DEF Unfinished, Resumable
<1> HIDE DEF x, y
<1>5. GoodJob(y, at)
  BY <1>1, <1>3, <1>4 DEF GoodJob, x
<1>6. Continues(x, y)
  BY <1>3, <1>4 DEF Continues, x
<1>7. /\ \A f \in y.copied : <<y.bucket, f>> \in remote'
      /\ \A f \in y.skipped : f \in y.keys \/ <<y.bucket, f>> \in remote'
      /\ y.resume = None => y.keys = {}
      /\ y.resume # None => y.keys \subseteq jobs[y.resume].copied
      /\ remote \subseteq remote' /\ remote' \subseteq Buckets \X Files
  BY <1>1, <1>3
<1> QED BY ZenonT(30), <1>2, <1>3, <1>5, <1>6, <1>7, OneJob DEF x

\* Only the task moves on.
LEMMA TaskMoves ==
  ASSUME MigrationOK, UsedOK, UsedOK', UsedGrows, NEW j \in Jobs,
         NEW at \in {"copy", "error", "end"}, task[j] # "none",
         UNCHANGED jobs, task' = [task EXCEPT ![j] = at],
         jobs[j].status = "completed" => at = "end",
         at = "error" => used'.failures > 0,
         jobs[j].status \in Unfinished => at # "end" \/ used'.failures > 1,
         flags' \subseteq Jobs, canceller' \in {canceller, NoCancel},
         UNCHANGED <<settings, lock, starting, leaked, late, remote>>
  PROVE  MigrationOK'
<1> DEFINE x == jobs[j]
<1>1. /\ x \in JobRecs /\ GoodJob(x, task[j]) /\ x.status # "absent"
      /\ \A f \in x.copied : <<x.bucket, f>> \in remote
      /\ \A f \in x.skipped : f \in x.keys \/ <<x.bucket, f>> \in remote
      /\ x.resume = None => x.keys = {}
      /\ x.resume # None => x.keys \subseteq jobs[x.resume].copied
      /\ remote \subseteq Buckets \X Files /\ jobs \in [Jobs -> JobRecs] /\ late \subseteq Jobs
  BY JobFacts
<1>2. jobs' = [jobs EXCEPT ![j] = x]
  BY <1>1
<1> HIDE DEF x
<1>3. GoodJob(x, at) /\ Continues(x, x)
  BY <1>1 DEF GoodJob, Continues, x
<1> QED BY <1>1, <1>2, <1>3, OneJob DEF x

LEMMA RunCollectStep ==
  ASSUME MediaInv, NEW j \in Jobs, RunCollect(j) PROVE MediaInv'
<1>1. /\ task[j] = "collect" /\ MigrationOK /\ WorkerOK /\ UsedOK
      /\ UNCHANGED <<upload, row, files, queue, hand, job, permits, remote, forsaken>>
      /\ UNCHANGED <<settings, lock, starting, flags, canceller, leaked, late>>
  BY DEF RunCollect, MediaInv, WorkerOK, WorkerTypes
<1>2. UsedOK' /\ UsedGrows
  BY <1>1, UsedSteps DEF RunCollect
<1>3. WorkerOK'
  BY <1>1, <1>2, WorkerSame
<1> DEFINE x == jobs[j]
<1>4. /\ x \in JobRecs /\ GoodJob(x, "collect") /\ x.status # "absent"
      /\ x.resume \in Jobs \cup {None}
      /\ remote \subseteq Buckets \X Files /\ jobs \in [Jobs -> JobRecs]
      /\ flags \subseteq Jobs /\ late \subseteq Jobs
  BY <1>1, JobFacts
<1>5. ASSUME NEW keys, keys \in {ResumableKeys(j), {}}, task' = [task EXCEPT ![j] = "copy"],
             jobs' = [jobs EXCEPT ![j].status = "running", ![j].list = Listed(x.scope),
                                  ![j].keys = keys]
      PROVE  MigrationOK'
  <2> DEFINE list == Listed(x.scope)
             y == [x EXCEPT !.status = "running", !.list = list, !.keys = keys]
  <2>1. list \subseteq Files
    BY <1>1 DEF Listed, WorkerOK, WorkerTypes
  <2>2. /\ keys \subseteq Files /\ (x.resume = None => keys = {})
        /\ x.resume # None => keys \subseteq jobs[x.resume].copied
    BY <1>4, <1>5 DEF ResumableKeys, JobRecs
  <2>3. jobs' = [jobs EXCEPT ![j] = y]
    BY <1>4, <1>5
  <2>4. "running" \in Unfinished
    BY DEF Unfinished
  <2> HIDE DEF list
  <2>5. /\ y \in JobRecs /\ y.status = "running" /\ y.bucket = x.bucket /\ y.resume = x.resume
        /\ y.list = list /\ y.keys = keys /\ y.copied = x.copied /\ y.failed = x.failed
        /\ y.skipped = x.skipped
    BY <1>4, <2>1, <2>2, <2>4 DEF JobRecs
  <2> HIDE DEF x, y
  <2>6. /\ GoodJob(y, "copy") /\ Continues(x, y)
        /\ y.copied = {} /\ y.skipped = {}
    BY <1>4, <2>5 DEF GoodJob, Continues
  <2> QED BY <1>1, <1>2, <1>4, <1>5, <2>2, <2>3, <2>5, <2>6, OneJob DEF x
<1>6. ASSUME Failed, task' = [task EXCEPT ![j] = "error"], UNCHANGED jobs
      PROVE  MigrationOK'
  <2>1. used'.failures > 0 /\ x.status # "completed"
    BY <1>1, <1>4, <1>6, FailedUsed DEF UsedOK, GoodJob
  <2> HIDE DEF x
  <2> QED BY <1>1, <1>2, <1>4, <1>6, <2>1, TaskMoves DEF x
<1> HIDE DEF x
<1>7. MigrationOK'
  BY <1>5, <1>6 DEF RunCollect, x
<1> QED BY <1>3, <1>7 DEF MediaInv

LEMMA RunCancelledStep ==
  ASSUME MediaInv, NEW j \in Jobs, RunCancelled(j) PROVE MediaInv'
<1>1. /\ task[j] = "copy" /\ MigrationOK /\ WorkerOK /\ UsedOK
      /\ UNCHANGED <<upload, row, files, queue, hand, job, permits, remote, forsaken>>
      /\ UNCHANGED <<settings, lock, starting, canceller, leaked, late>>
  BY DEF RunCancelled, MediaInv, WorkerOK, WorkerTypes
<1>2. UsedOK' /\ UsedGrows
  BY <1>1, UsedSteps DEF RunCancelled
<1>3. WorkerOK'
  BY <1>1, <1>2, WorkerSame
<1>4. /\ GoodJob(jobs[j], "copy") /\ jobs[j].status # "absent"
      /\ flags \subseteq Jobs /\ late \subseteq Jobs
  BY <1>1, JobFacts
<1>5. ASSUME jobs' = [jobs EXCEPT ![j].status = "cancelled"], flags' = flags \ {j},
             task' = [task EXCEPT ![j] = "end"]
      PROVE  MigrationOK'
  <2>1. "cancelled" \in Resumable /\ "cancelled" \notin Unfinished \cup {"completed"}
    BY DEF Resumable, Unfinished
  <2>2. flags' \subseteq Jobs
    BY <1>4, <1>5
  <2> QED BY <1>1, <1>2, <1>4, <1>5, <2>1, <2>2, StatusWritten
<1>6. ASSUME Failed, task' = [task EXCEPT ![j] = "error"], UNCHANGED <<jobs, flags>>
      PROVE  MigrationOK'
  <2>1. used'.failures > 0 /\ jobs[j].status # "completed"
    BY <1>1, <1>4, <1>6, FailedUsed DEF UsedOK, GoodJob
  <2> QED BY <1>1, <1>2, <1>4, <1>6, <2>1, TaskMoves
<1>7. MigrationOK'
  BY <1>5, <1>6 DEF RunCancelled
<1> QED BY <1>3, <1>7 DEF MediaInv

LEMMA RunFinishStep ==
  ASSUME MediaInv, NEW j \in Jobs, RunFinish(j) PROVE MediaInv'
<1>1. /\ task[j] = "copy" /\ Todo(j) = {} /\ MigrationOK /\ WorkerOK /\ UsedOK
      /\ UNCHANGED <<upload, row, files, queue, hand, job, permits, remote, forsaken>>
      /\ UNCHANGED <<settings, lock, starting, canceller, leaked, late>>
  BY DEF RunFinish, MediaInv, WorkerOK, WorkerTypes
<1>2. UsedOK' /\ UsedGrows
  BY <1>1, UsedSteps DEF RunFinish
<1>3. WorkerOK'
  BY <1>1, <1>2, WorkerSame
<1>4. /\ GoodJob(jobs[j], "copy") /\ jobs[j].status # "absent"
      /\ flags \subseteq Jobs /\ late \subseteq Jobs
  BY <1>1, JobFacts
<1> DEFINE status == IF jobs[j].failed = {} THEN "completed" ELSE "completed_with_errors"
<1>5. ASSUME jobs' = [jobs EXCEPT ![j].status = status], flags' = flags \ {j},
             task' = [task EXCEPT ![j] = "end"]
      PROVE  MigrationOK'
  <2>1. status \in Resumable \cup {"completed"} /\ status \notin Unfinished
    BY DEF Resumable, Unfinished
  <2>2. flags' \subseteq Jobs
    BY <1>4, <1>5
  <2>3. status = "completed" => /\ jobs[j].failed = {}
                                /\ jobs[j].list \subseteq jobs[j].copied \cup jobs[j].skipped
    BY <1>1 DEF Todo
  <2> HIDE DEF status
  <2> QED BY <1>1, <1>2, <1>4, <1>5, <2>1, <2>2, <2>3, StatusWritten
<1>6. ASSUME Failed, task' = [task EXCEPT ![j] = "error"], UNCHANGED <<jobs, flags>>
      PROVE  MigrationOK'
  <2>1. used'.failures > 0 /\ jobs[j].status # "completed"
    BY <1>1, <1>4, <1>6, FailedUsed DEF UsedOK, GoodJob
  <2> QED BY <1>1, <1>2, <1>4, <1>6, <2>1, TaskMoves
<1>7. MigrationOK'
  BY <1>5, <1>6 DEF RunFinish
<1> QED BY <1>3, <1>7 DEF MediaInv

LEMMA RunErrorStep ==
  ASSUME MediaInv, NEW j \in Jobs, RunError(j) PROVE MediaInv'
<1>1. /\ task[j] = "error" /\ MigrationOK /\ WorkerOK /\ UsedOK
      /\ UNCHANGED <<upload, row, files, queue, hand, job, permits, remote, forsaken>>
      /\ UNCHANGED <<settings, lock, starting, flags, canceller, leaked, late>>
      /\ task' = [task EXCEPT ![j] = "end"]
  BY DEF RunError, MediaInv, WorkerOK, WorkerTypes
<1>2. UsedOK' /\ UsedGrows
  BY <1>1, UsedSteps DEF RunError
<1>3. WorkerOK'
  BY <1>1, <1>2, WorkerSame
<1>4. /\ GoodJob(jobs[j], "error") /\ jobs[j].status # "absent"
      /\ flags \subseteq Jobs /\ late \subseteq Jobs /\ used.failures > 0
  BY <1>1, JobFacts DEF MigrationOK, RunOK
<1>5. ASSUME jobs' = [jobs EXCEPT ![j].status = "failed"] PROVE MigrationOK'
  <2>1. "failed" \in Resumable /\ "failed" \notin Unfinished \cup {"completed"}
    BY DEF Resumable, Unfinished
  <2> QED BY <1>1, <1>2, <1>4, <1>5, <2>1, StatusWritten
<1>6. ASSUME Failed, UNCHANGED jobs PROVE MigrationOK'
  <2>1. used'.failures > 1 /\ jobs[j].status # "completed"
    BY <1>1, <1>4, <1>6, FailedUsed DEF UsedOK, GoodJob
  <2> QED BY <1>1, <1>2, <1>4, <1>6, <2>1, TaskMoves
<1>7. MigrationOK'
  BY <1>5, <1>6 DEF RunError
<1> QED BY <1>3, <1>7 DEF MediaInv
\* One file is copied, skipped or given up.
LEMMA FileRecorded ==
  ASSUME MigrationOK, UsedOK, UsedOK', UsedGrows, NEW j \in Jobs, task[j] = "copy", NEW y,
         NEW f \in jobs[j].list, jobs' = [jobs EXCEPT ![j] = y], y \in JobRecs,
         y.status = jobs[j].status, y.bucket = jobs[j].bucket, y.resume = jobs[j].resume,
         y.list = jobs[j].list, y.keys = jobs[j].keys,
         jobs[j].copied \subseteq y.copied, y.copied \subseteq jobs[j].copied \cup {f},
         y.failed \subseteq jobs[j].failed \cup {f}, y.skipped \subseteq jobs[j].skipped \cup {f},
         f \in y.copied => f \in jobs[j].copied \/ <<y.bucket, f>> \in remote',
         f \in y.skipped => f \in jobs[j].skipped \cup y.keys \/ <<y.bucket, f>> \in remote',
         remote \subseteq remote', remote' \subseteq Buckets \X Files,
         UNCHANGED <<settings, lock, starting, task, flags, canceller, leaked, late>>
  PROVE  MigrationOK'
<1> DEFINE x == jobs[j]
<1>1. /\ x \in JobRecs /\ GoodJob(x, "copy") /\ x.status # "absent"
      /\ \A g \in x.copied : <<x.bucket, g>> \in remote
      /\ \A g \in x.skipped : g \in x.keys \/ <<x.bucket, g>> \in remote
      /\ x.resume = None => x.keys = {}
      /\ x.resume # None => x.keys \subseteq jobs[x.resume].copied
      /\ flags \subseteq Jobs /\ late \subseteq Jobs
      /\ task \in [Jobs -> {"none", "collect", "copy", "error", "end"}]
  BY JobFacts
<1>2. task' = [task EXCEPT ![j] = "copy"]
  BY <1>1
<1>3. GoodJob(y, "copy")
  BY <1>1 DEF GoodJob
<1>4. Continues(x, y)
  BY <1>1 DEF Continues
<1>5. /\ \A g \in y.copied : <<y.bucket, g>> \in remote'
      /\ \A g \in y.skipped : g \in y.keys \/ <<y.bucket, g>> \in remote'
  BY <1>1
<1>6. /\ y.resume = None => y.keys = {}
      /\ y.resume # None => y.keys \subseteq jobs[y.resume].copied
  BY <1>1
<1> HIDE DEF x
<1> QED BY <1>1, <1>2, <1>3, <1>4, <1>5, <1>6, OneJob DEF x

LEMMA RunCopyStep ==
  ASSUME MediaInv, NEW j \in Jobs, RunCopy(j) PROVE MediaInv'
<1> DEFINE x == jobs[j]
<1>1. /\ task[j] = "copy" /\ MigrationOK /\ WorkerOK /\ UsedOK
      /\ UNCHANGED <<upload, row, files, queue, hand, job, permits, forsaken>>
      /\ UNCHANGED <<settings, lock, starting, task, flags, canceller, leaked, late>>
  BY DEF RunCopy, MediaInv, WorkerOK, WorkerTypes
<1>2. UsedOK' /\ UsedGrows
  BY <1>1, UsedSteps DEF RunCopy
<1>3. WorkerOK'
  BY <1>1, <1>2, WorkerSame
<1>4. /\ x \in JobRecs /\ x.bucket \in Buckets /\ remote \subseteq Buckets \X Files
      /\ jobs \in [Jobs -> JobRecs]
  BY <1>1, JobFacts DEF GoodJob
<1>5. PICK f \in NextFiles(j) :
          \/ /\ f \in x.keys
             /\ Record(j, "skipped", f)
             /\ UNCHANGED <<remote, used>>
          \/ /\ f \in files \ x.keys
             /\ PutFile(j, f)
             /\ \/ Record(j, "copied", f) /\ UNCHANGED used
                \/ Record(j, "skipped", f) /\ Failed
          \/ /\ f \notin x.keys
             /\ \/ f \notin files /\ UNCHANGED used
                \/ f \in files /\ Failed
             /\ Record(j, "failed", f)
             /\ UNCHANGED remote
  BY DEF RunCopy
<1>6. f \in x.list /\ f \in Files
  BY <1>4, <1>5 DEF NextFiles, Todo, JobRecs
<1>7. /\ remote \subseteq remote' /\ remote' \subseteq Buckets \X Files
      /\ PutFile(j, f) => <<x.bucket, f>> \in remote'
  <2>1. UNCHANGED remote \/ PutFile(j, f)
    BY <1>5
  <2> QED BY <1>4, <1>6, <2>1 DEF PutFile
<1>8. ASSUME Record(j, "copied", f), PutFile(j, f) PROVE MigrationOK'
  <2> DEFINE set == x.copied \cup {f}
             y == [x EXCEPT !.copied = set]
  <2>1. jobs' = [jobs EXCEPT ![j] = y]
    BY <1>4, <1>8 DEF Record
  <2>2. set \subseteq Files
    BY <1>4, <1>6 DEF JobRecs
  <2> HIDE DEF set
  <2>3. /\ y \in JobRecs /\ y.status = x.status /\ y.bucket = x.bucket /\ y.resume = x.resume
        /\ y.list = x.list /\ y.keys = x.keys /\ y.copied = set /\ y.failed = x.failed
        /\ y.skipped = x.skipped
    BY <1>4, <2>2 DEF JobRecs
  <2> HIDE DEF x, y
  <2> QED BY <1>1, <1>2, <1>6, <1>7, <1>8, <2>1, <2>3, FileRecorded DEF x, set
<1>9. ASSUME Record(j, "skipped", f), f \in x.keys \/ PutFile(j, f) PROVE MigrationOK'
  <2> DEFINE set == x.skipped \cup {f}
             y == [x EXCEPT !.skipped = set]
  <2>1. jobs' = [jobs EXCEPT ![j] = y]
    BY <1>4, <1>9 DEF Record
  <2>2. set \subseteq Files
    BY <1>4, <1>6 DEF JobRecs
  <2> HIDE DEF set
  <2>3. /\ y \in JobRecs /\ y.status = x.status /\ y.bucket = x.bucket /\ y.resume = x.resume
        /\ y.list = x.list /\ y.keys = x.keys /\ y.copied = x.copied /\ y.failed = x.failed
        /\ y.skipped = set
    BY <1>4, <2>2 DEF JobRecs
  <2> HIDE DEF x, y
  <2> QED BY <1>1, <1>2, <1>6, <1>7, <1>9, <2>1, <2>3, FileRecorded DEF x, set
<1>10. ASSUME Record(j, "failed", f) PROVE MigrationOK'
  <2> DEFINE set == x.failed \cup {f}
             y == [x EXCEPT !.failed = set]
  <2>1. jobs' = [jobs EXCEPT ![j] = y]
    BY <1>4, <1>10 DEF Record
  <2>2. set \subseteq Files
    BY <1>4, <1>6 DEF JobRecs
  <2> HIDE DEF set
  <2>3. /\ y \in JobRecs /\ y.status = x.status /\ y.bucket = x.bucket /\ y.resume = x.resume
        /\ y.list = x.list /\ y.keys = x.keys /\ y.copied = x.copied /\ y.failed = set
        /\ y.skipped = x.skipped
    BY <1>4, <2>2 DEF JobRecs
  <2> HIDE DEF x, y
  <2> QED BY <1>1, <1>2, <1>6, <1>7, <1>10, <2>1, <2>3, FileRecorded DEF x, set
<1> HIDE DEF x
<1>11. MigrationOK'
  BY <1>5, <1>8, <1>9, <1>10
<1> QED BY <1>3, <1>11 DEF MediaInv
-----------------------------------------------------------------------------
(* The lock. *)

LEMMA RunEndStep ==
  ASSUME MediaInv, NEW j \in Jobs, RunEnd(j) PROVE MediaInv'
<1>1. /\ task[j] = "end" /\ MigrationOK /\ WorkerOK /\ UsedOK /\ JobsOK
      /\ task' = [task EXCEPT ![j] = "none"] /\ flags' = flags \ {j} /\ lock' = FALSE
      /\ UNCHANGED <<upload, row, files, queue, hand, job, permits, remote, forsaken, used>>
      /\ UNCHANGED <<settings, starting, jobs, canceller, leaked, late>>
  BY DEF RunEnd, transcodeVars, MediaInv, MigrationOK, WorkerOK, WorkerTypes
<1>2. UsedOK' /\ UsedGrows
  BY <1>1, UsedSteps
<1>3. WorkerOK'
  BY <1>1, <1>2, WorkerSame
<1>4. /\ task' \in [Jobs -> {"none", "collect", "copy", "error", "end"}] /\ task'[j] = "none"
      /\ \A i \in Jobs : i # j => task'[i] = task[i]
  BY <1>1 DEF JobsOK
<1>5. JobsOK'
  <2>1. GoodJob(jobs[j], "none")
    BY <1>1 DEF JobsOK, GoodJob
  <2> QED BY <1>1, <1>4, <2>1 DEF JobsOK
<1>6. CopiedOK'
  BY <1>1 DEF MigrationOK, CopiedOK
<1>7. Holders' = {} /\ starting.at # "locked"
  <2>1. j \in Holders /\ \A a \in Holders : a = j
    BY <1>1 DEF Holders, MigrationOK, LockOK
  <2>2. starting.at # "locked"
    BY <2>1, MediaAssumption DEF Holders
  <2>3. \A i \in Jobs : task'[i] = "none"
    BY <1>4, <2>1 DEF Holders
  <2> QED BY <1>1, <2>2, <2>3 DEF Holders
<1>8. LockOK'
  BY <1>1, <1>7 DEF LockOK
<1>9. RunOK'
  <2>1. jobs[j].status \in Unfinished => j \in late \/ used.stops > 0 \/ used.failures > 1
    BY <1>1 DEF MigrationOK, RunOK
  <2> QED BY <1>1, <1>4, <2>1 DEF MigrationOK, RunOK
<1>10. HandlersOK'
  BY <1>1 DEF MigrationOK, HandlersOK
<1> QED BY <1>3, <1>5, <1>6, <1>8, <1>9, <1>10 DEF MediaInv, MigrationOK

\* Handlers that write no job.
LEMMA HandlerSteps ==
  ASSUME MediaInv, MigrationOK => LockOK' /\ HandlersOK',
         UNCHANGED used \/ Event \/ Failed, UNCHANGED <<jobs, task, late>>,
         UNCHANGED <<upload, row, files, queue, hand, job, permits, remote, forsaken>>
  PROVE  MediaInv'
<1>1. MigrationOK /\ WorkerOK /\ UsedOK /\ remote \subseteq Buckets \X Files
  BY DEF MediaInv, MigrationOK, CopiedOK, WorkerOK, WorkerTypes
<1>2. UsedOK' /\ UsedGrows
  BY <1>1, UsedSteps
<1>3. WorkerOK'
  BY <1>1, <1>2, WorkerSame
<1>4. MigrationOK'
  BY <1>1, <1>2, JobsSame
<1> QED BY <1>3, <1>4 DEF MediaInv

LEMMA SaveSettingsStep ==
  ASSUME MediaInv, NEW b \in Buckets \cup {None}, SaveSettings(b) PROVE MediaInv'
<1>1. /\ settings' = b /\ Event
      /\ UNCHANGED <<upload, row, files, queue, hand, job, permits, remote, forsaken>>
      /\ UNCHANGED <<lock, starting, jobs, task, flags, canceller, leaked, late>>
  BY DEF SaveSettings
<1>2. MigrationOK => LockOK' /\ HandlersOK'
  BY <1>1 DEF MigrationOK, LockOK, HandlersOK, Holders, FreeJob
<1> QED BY <1>1, <1>2, HandlerSteps

LEMMA StartLockStep ==
  ASSUME MediaInv, FreeJob, NEW scope \in AskedScopes, NEW resume \in Jobs \cup {None},
         StartLock(scope, resume)
  PROVE  MediaInv'
<1>1. /\ starting.at = "idle" /\ ~lock /\ Event /\ lock' = TRUE
      /\ starting' = [at |-> "locked", scope |-> scope, resume |-> resume]
      /\ UNCHANGED <<upload, row, files, queue, hand, job, permits, remote, forsaken>>
      /\ UNCHANGED <<settings, jobs, task, flags, canceller, leaked, late>>
  BY DEF StartLock
<1>2. scope \in SUBSET Scopes
  BY MediaAssumption
<1>3. ASSUME MigrationOK PROVE LockOK' /\ HandlersOK'
  <2>1. Holders = {}
    BY <1>1, <1>3 DEF MigrationOK, LockOK
  <2>2. Holders' = {None}
    BY <1>1, <2>1 DEF Holders
  <2>3. LockOK'
    BY <1>1, <2>2 DEF LockOK, FreeJob
  <2>4. HandlersOK'
    BY <1>1, <1>2, <1>3 DEF MigrationOK, HandlersOK
  <2> QED BY <2>3, <2>4
<1> QED BY <1>1, <1>3, HandlerSteps

LEMMA StartDropStep ==
  ASSUME MediaInv, StartDrop PROVE MediaInv'
<1>1. /\ starting.at = "locked" /\ Event /\ starting' = NoStart /\ leaked' = TRUE
      /\ UNCHANGED <<upload, row, files, queue, hand, job, permits, remote, forsaken>>
      /\ UNCHANGED <<settings, lock, jobs, task, flags, canceller, late>>
  BY DEF StartDrop
<1>2. ASSUME MigrationOK PROVE LockOK' /\ HandlersOK'
  <2>1. Holders' \subseteq Holders
    BY <1>1 DEF Holders, NoStart
  <2>2. LockOK'
    BY <1>1, <1>2, <2>1 DEF MigrationOK, LockOK, NoStart
  <2>3. HandlersOK'
    BY <1>1, <1>2 DEF MigrationOK, HandlersOK, NoStart
  <2> QED BY <2>2, <2>3
<1> QED BY <1>1, <1>2, HandlerSteps
\* The start holds the lock alone.
LEMMA StartHolds ==
  ASSUME MigrationOK, starting.at = "locked"
  PROVE  FreeJob /\ lock /\ \A i \in Jobs : task[i] = "none"
<1>1. None \in Holders
  BY DEF Holders
<1>2. \A i \in Jobs : i \notin Holders
  BY <1>1, MediaAssumption DEF MigrationOK, LockOK
<1> QED BY <1>1, <1>2 DEF MigrationOK, LockOK, Holders

\* A new row that nothing was copied for yet.
LEMMA CopiedLasts ==
  ASSUME JobsOK, CopiedOK, NEW j \in Jobs, NEW y, jobs'[j] = y,
         \A i \in Jobs : i # j => jobs'[i] = jobs[i] /\ task'[i] = task[i],
         jobs[j].status = "absent", y.copied = {}, y.skipped = {}, y.keys = {},
         y.resume # None => y.resume \in Jobs /\ jobs[y.resume].status # "absent",
         UNCHANGED remote
  PROVE  CopiedOK'
<1>1. \A i \in Jobs : jobs[i].status # "absent" => jobs'[i] = jobs[i]
  OBVIOUS
<1> SUFFICES ASSUME NEW i \in Jobs
    PROVE  /\ \A f \in jobs'[i].copied : <<jobs'[i].bucket, f>> \in remote
           /\ \A f \in jobs'[i].skipped : f \in jobs'[i].keys \/ <<jobs'[i].bucket, f>> \in remote
           /\ jobs'[i].resume = None => jobs'[i].keys = {}
           /\ jobs'[i].resume # None => /\ jobs'[jobs'[i].resume].status # "absent"
                                        /\ jobs'[i].keys \subseteq jobs'[jobs'[i].resume].copied
  BY DEF CopiedOK
<1>2. CASE i = j
  BY <1>1, <1>2
<1>3. CASE i # j
  <2>1. jobs'[i] = jobs[i] /\ jobs[i].resume \in Jobs \cup {None}
    BY <1>3 DEF JobsOK, JobRecs
  <2>2. jobs[i].resume # None => jobs'[jobs[i].resume] = jobs[jobs[i].resume]
    BY <1>1, <2>1 DEF CopiedOK
  <2> QED BY <2>1, <2>2 DEF CopiedOK
<1> QED BY <1>2, <1>3

LEMMA JobInserted ==
  ASSUME MediaInv, StartJob, MayStart, NEW j \in Jobs, jobs[j] = NoJob,
         jobs' = [jobs EXCEPT ![j] = [@ EXCEPT !.status = "pending", !.bucket = settings,
                                               !.scope = starting.scope,
                                               !.resume = starting.resume]],
         task' = [task EXCEPT ![j] = "collect"], UNCHANGED <<lock, used>>
  PROVE  MigrationOK'
<1> DEFINE y == [NoJob EXCEPT !.status = "pending", !.bucket = settings, !.scope = starting.scope,
                              !.resume = starting.resume]
<1>1. /\ starting.at = "locked" /\ starting' = NoStart /\ MigrationOK /\ JobsOK /\ HandlersOK
      /\ UNCHANGED <<remote, settings, flags, canceller, leaked, late>>
  BY DEF StartJob, MediaInv, MigrationOK
<1>2. /\ settings \in Buckets /\ starting.scope \in SUBSET Scopes
      /\ starting.resume \in Jobs \cup {None}
      /\ starting.resume # None => starting.resume \in Jobs
                                   /\ jobs[starting.resume].status \in Resumable
  BY <1>1 DEF MayStart, MayResume, HandlersOK
<1>3. jobs' = [jobs EXCEPT ![j] = y]
  OBVIOUS
<1>4. /\ y \in JobRecs /\ y.status = "pending" /\ y.bucket = settings
      /\ y.resume = starting.resume /\ y.list = {} /\ y.keys = {} /\ y.copied = {}
      /\ y.failed = {} /\ y.skipped = {}
  <2>1. "pending" \in Unfinished
    BY DEF Unfinished
  <2> DEFINE x == [NoJob EXCEPT !.status = "pending", !.bucket = settings]
  <2>2. /\ x \in JobRecs /\ x.status = "pending" /\ x.bucket = settings
        /\ x.list = {} /\ x.keys = {} /\ x.copied = {} /\ x.failed = {} /\ x.skipped = {}
    <3> HIDE DEF y
    <3> QED BY <1>2, <2>1, NoJobFields DEF JobRecs
  <2>3. y = [x EXCEPT !.scope = starting.scope, !.resume = starting.resume]
    OBVIOUS
  <2> HIDE DEF x, y
  <2>4. /\ y \in JobRecs /\ y.status = x.status /\ y.bucket = x.bucket
        /\ y.resume = starting.resume /\ y.list = x.list /\ y.keys = x.keys
        /\ y.copied = x.copied /\ y.failed = x.failed /\ y.skipped = x.skipped
    BY <1>2, <2>2, <2>3 DEF JobRecs
  <2> QED BY <2>2, <2>4
<1> HIDE DEF y
<1>5. /\ jobs'[j] = y /\ task'[j] = "collect"
      /\ \A i \in Jobs : i # j => jobs'[i] = jobs[i] /\ task'[i] = task[i]
  BY <1>1, <1>3 DEF JobsOK
<1>6. JobsOK'
  <2>1. GoodJob(y, "collect")
    BY <1>2, <1>4 DEF GoodJob
  <2>2. jobs' \in [Jobs -> JobRecs] /\ task' \in [Jobs -> {"none", "collect", "copy", "error", "end"}]
    BY <1>1, <1>3, <1>4 DEF JobsOK
  <2> QED BY <1>1, <1>5, <2>1, <2>2 DEF JobsOK
<1>7. jobs[j].status = "absent" /\ jobs[j].copied = {}
  BY NoJobFields
<1>8. \A i \in Jobs : jobs[i].status # "absent" => jobs'[i] = jobs[i]
  BY <1>5, <1>7
<1>9. "absent" \notin Resumable
  BY DEF Resumable
<1>10. CopiedOK'
  <2>1. y.resume # None => y.resume \in Jobs /\ jobs[y.resume].status # "absent"
    BY <1>2, <1>4, <1>9
  <2>2. CopiedOK
    BY <1>1 DEF MigrationOK
  <2> QED BY <1>1, <1>4, <1>5, <1>7, <2>1, <2>2, CopiedLasts
<1>11. LockOK'
  <2>1. lock /\ \A i \in Jobs : task[i] = "none"
    BY <1>1, StartHolds
  <2>2. Holders' = {j}
    BY <1>1, <1>5, <2>1 DEF Holders, NoStart
  <2> QED BY <1>1, <2>1, <2>2 DEF LockOK, NoStart
<1>12. RunOK'
  BY <1>1, <1>4, <1>5 DEF MigrationOK, RunOK
<1>13. HandlersOK'
  <2>1. canceller.at # "idle" => jobs'[canceller.job].status # "absent"
    BY <1>1, <1>8 DEF HandlersOK
  <2> QED BY <1>1, <2>1 DEF HandlersOK, NoStart
<1> QED BY <1>6, <1>10, <1>11, <1>12, <1>13 DEF MigrationOK

LEMMA StartJobStep ==
  ASSUME MediaInv, StartJob PROVE MediaInv'
<1>1. /\ starting.at = "locked" /\ starting' = NoStart /\ MigrationOK /\ WorkerOK /\ UsedOK
      /\ UNCHANGED <<upload, row, files, queue, hand, job, permits, remote, forsaken>>
      /\ UNCHANGED <<settings, flags, canceller, leaked, late>>
  BY DEF StartJob, MediaInv, WorkerOK, WorkerTypes
<1>2. FreeJob /\ \A i \in Jobs : task[i] = "none"
  BY <1>1, StartHolds
<1> DEFINE j == CHOOSE i \in Jobs : jobs[i] = NoJob
<1>3. j \in Jobs /\ jobs[j] = NoJob
  BY <1>2 DEF FreeJob
<1>4. CASE /\ MayStart
           /\ jobs' = [jobs EXCEPT ![j] = [@ EXCEPT !.status = "pending", !.bucket = settings,
                                                    !.scope = starting.scope,
                                                    !.resume = starting.resume]]
           /\ task' = [task EXCEPT ![j] = "collect"]
           /\ UNCHANGED <<lock, used>>
  <2> HIDE DEF j
  <2>1. MigrationOK'
    BY <1>3, <1>4, JobInserted
  <2>2. WorkerOK'
    BY <1>1, <1>4, UsedSteps, WorkerSame
  <2> QED BY <2>1, <2>2 DEF MediaInv
<1>5. CASE (UNCHANGED used \/ Failed) /\ lock' = FALSE /\ UNCHANGED <<jobs, task>>
  <2>1. Holders' = {}
    BY <1>1, <1>2, <1>5 DEF Holders, NoStart
  <2>2. LockOK'
    BY <1>1, <1>5, <2>1 DEF LockOK, NoStart
  <2>3. HandlersOK'
    BY <1>1, <1>5 DEF MigrationOK, HandlersOK, NoStart
  <2> QED BY <1>1, <1>5, <2>2, <2>3, HandlerSteps
<1> QED BY <1>4, <1>5 DEF StartJob
-----------------------------------------------------------------------------
(* Cancelling. *)

LEMMA CancelReadStep ==
  ASSUME MediaInv, NEW j \in Jobs, CancelRead(j) PROVE MediaInv'
<1>1. /\ jobs[j].status \in Unfinished /\ Event /\ canceller' = [at |-> "flag", job |-> j]
      /\ UNCHANGED <<upload, row, files, queue, hand, job, permits, remote, forsaken>>
      /\ UNCHANGED <<settings, lock, starting, jobs, task, flags, leaked, late>>
  BY DEF CancelRead
<1>2. MigrationOK => LockOK' /\ HandlersOK'
  BY <1>1 DEF MigrationOK, LockOK, HandlersOK, Holders, FreeJob, Unfinished
<1> QED BY <1>1, <1>2, HandlerSteps

LEMMA CancelFlagStep ==
  ASSUME MediaInv, CancelFlag PROVE MediaInv'
<1>1. /\ canceller.at = "flag" /\ flags' = flags \cup {canceller.job}
      /\ canceller' = [canceller EXCEPT !.at = "update"]
      /\ UNCHANGED <<upload, row, files, queue, hand, job, permits, remote, forsaken, used>>
      /\ UNCHANGED <<settings, lock, starting, jobs, task, leaked, late>>
  BY DEF CancelFlag, transcodeVars
<1>2. ASSUME MigrationOK PROVE LockOK' /\ HandlersOK'
  <2>1. /\ canceller \in [at : {"idle", "flag", "update"}, job : Jobs \cup {None}]
        /\ canceller.job \in Jobs /\ jobs[canceller.job].status # "absent"
    BY <1>1, <1>2 DEF MigrationOK, HandlersOK
  <2>2. canceller' = [at |-> "update", job |-> canceller.job]
    BY <1>1, <2>1
  <2> QED BY <1>1, <1>2, <2>1, <2>2 DEF MigrationOK, LockOK, HandlersOK, Holders, FreeJob
<1> QED BY <1>1, <1>2, HandlerSteps

LEMMA CancelUpdateStep ==
  ASSUME MediaInv, CancelUpdate PROVE MediaInv'
<1> DEFINE j == canceller.job
<1>1. /\ canceller.at = "update" /\ canceller' = NoCancel /\ MigrationOK /\ WorkerOK /\ UsedOK
      /\ UNCHANGED <<upload, row, files, queue, hand, job, permits, remote, forsaken>>
      /\ UNCHANGED <<settings, lock, starting, task, flags, leaked>>
      /\ UNCHANGED used \/ Failed
  BY DEF CancelUpdate, MediaInv, WorkerOK, WorkerTypes
<1>2. j \in Jobs /\ jobs[j].status # "absent"
  BY <1>1 DEF MigrationOK, HandlersOK
<1>3. UsedOK' /\ UsedGrows
  BY <1>1, UsedSteps
<1>4. WorkerOK'
  BY <1>1, <1>3, WorkerSame
<1>5. CASE /\ jobs' = [jobs EXCEPT ![j].status = "cancel_requested"]
           /\ late' = IF task[j] \in {"none", "end"} THEN late \cup {j} ELSE late
  <2> HIDE DEF j
  <2>1. /\ task[j] \in {"none", "collect", "copy", "error", "end"} /\ flags \subseteq Jobs
        /\ late \subseteq Jobs /\ GoodJob(jobs[j], task[j])
        /\ task \in [Jobs -> {"none", "collect", "copy", "error", "end"}]
    BY <1>1, <1>2, JobFacts
  <2>2. /\ task' = [task EXCEPT ![j] = task[j]]
        /\ late \subseteq late' /\ late' \subseteq Jobs
        /\ task[j] \in {"collect", "copy", "error"} \/ j \in late'
    BY <1>1, <1>2, <1>5, <2>1
  <2>3. task[j] = "error" => used'.failures > 0
    BY <1>1, <1>2, <1>3 DEF MigrationOK, RunOK, UsedOK, UsedGrows
  <2>4. "cancel_requested" \in Unfinished
    BY DEF Unfinished
  <2>5. MigrationOK'
    BY <1>1, <1>2, <1>3, <1>5, <2>1, <2>2, <2>3, <2>4, StatusWritten
  <2> QED BY <1>4, <2>5 DEF MediaInv
<1>6. CASE UNCHANGED <<jobs, late>>
  <2>1. MigrationOK => LockOK' /\ HandlersOK'
    BY <1>1, <1>6 DEF MigrationOK, LockOK, HandlersOK, Holders, FreeJob, NoCancel
  <2> QED BY <1>1, <1>6, <2>1, HandlerSteps
<1> QED BY <1>5, <1>6 DEF CancelUpdate
-----------------------------------------------------------------------------
(* Restarts, the initial state, and the theorems. *)

LEMMA RestartStep ==
  ASSUME MediaInv, Restart PROVE MediaInv'
<1>1. /\ MigrationOK /\ WorkerOK /\ UsedOK /\ JobsOK /\ Stopped /\ Crash
      /\ lock' = FALSE /\ starting' = NoStart /\ task' = [j \in Jobs |-> "none"]
      /\ flags' = {} /\ canceller' = NoCancel
      /\ UNCHANGED <<settings, jobs, leaked, late>>
  BY DEF Restart, MediaInv, MigrationOK, WorkerOK, WorkerTypes
<1>2. UsedOK' /\ UsedGrows /\ used'.stops > 0
  BY <1>1, StoppedUsed
<1>3. WorkerOK'
  BY <1>1, <1>2, CrashStep
<1>4. UNCHANGED remote
  BY <1>1 DEF Crash
<1>5. JobsOK'
  <2>1. \A j \in Jobs : task'[j] = "none" /\ GoodJob(jobs[j], "none")
    BY <1>1 DEF JobsOK, GoodJob
  <2> QED BY <1>1, <2>1 DEF JobsOK
<1>6. CopiedOK'
  BY <1>1, <1>4 DEF MigrationOK, CopiedOK
<1>7. LockOK'
  <2>1. Holders' = {}
    BY <1>1 DEF Holders, NoStart
  <2> QED BY <1>1, <2>1 DEF LockOK, NoStart
<1>8. RunOK'
  BY <1>1, <1>2 DEF RunOK
<1>9. HandlersOK'
  BY <1>1 DEF MigrationOK, HandlersOK, NoStart, NoCancel
<1> QED BY <1>3, <1>5, <1>6, <1>7, <1>8, <1>9 DEF MediaInv, MigrationOK

LEMMA MediaInvInit ==
  ASSUME Init PROVE MediaInv
<1>1. WorkerOK
  BY WorkerInit DEF Init
<1>2. /\ jobs = [j \in Jobs |-> NoJob] /\ task = [j \in Jobs |-> "none"] /\ remote = {}
      /\ settings = InitialBucket /\ lock = FALSE /\ starting = NoStart /\ flags = {}
      /\ canceller = NoCancel /\ leaked = FALSE /\ late = {}
  BY DEF Init, TranscodeInit
<1>3. JobsOK
  <2>1. GoodJob(NoJob, "none")
    BY NoJobFields DEF GoodJob
  <2> QED BY <1>2, <2>1, NoJobFields DEF JobsOK
<1>4. CopiedOK
  BY <1>2, NoJobFields DEF CopiedOK
<1>5. LockOK
  <2>1. Holders = {}
    BY <1>2 DEF Holders, NoStart
  <2> QED BY <1>2, <2>1 DEF LockOK, NoStart
<1>6. RunOK
  BY <1>2, NoJobFields DEF RunOK, Unfinished
<1>7. HandlersOK
  BY <1>2, MediaAssumption DEF HandlersOK, NoStart, NoCancel
<1> QED BY <1>1, <1>3, <1>4, <1>5, <1>6, <1>7 DEF MediaInv, MigrationOK

LEMMA MediaInvNext ==
  ASSUME MediaInv, [Next]_vars PROVE MediaInv'
<1>1. CASE UNCHANGED vars
  <2>1. /\ UNCHANGED <<upload, row, files, queue, hand, job, permits, remote, forsaken, used>>
        /\ UNCHANGED <<settings, lock, starting, jobs, task, flags, canceller, leaked, late>>
    BY <1>1 DEF vars, transcodeVars, migrationVars
  <2>2. MigrationOK => LockOK' /\ HandlersOK'
    BY <2>1 DEF MigrationOK, LockOK, HandlersOK, Holders, FreeJob
  <2> QED BY <2>1, <2>2, HandlerSteps
<1>2. CASE (TranscodeSystem \/ TranscodeClients) /\ UNCHANGED migrationVars
  <2>1. MigrationOK /\ WorkerOK /\ UsedOK /\ remote \subseteq Buckets \X Files
    BY DEF MediaInv, MigrationOK, CopiedOK, WorkerOK, WorkerTypes
  <2>2. WorkerOK' /\ UsedGrows /\ remote \subseteq remote' /\ remote' \subseteq Buckets \X Files
    BY <1>2, <2>1, TranscodeSteps
  <2>3. UsedOK'
    BY <2>2 DEF WorkerOK, WorkerTypes
  <2>4. MigrationOK'
    BY <1>2, <2>1, <2>2, <2>3, MigrationLasts
  <2> QED BY <2>2, <2>4 DEF MediaInv
<1>3. CASE StartJob \/ CancelFlag \/ CancelUpdate
  BY <1>3, StartJobStep, CancelFlagStep, CancelUpdateStep
<1>4. ASSUME NEW j \in Jobs, \/ RunCollect(j) \/ RunCancelled(j) \/ RunCopy(j) \/ RunFinish(j)
                             \/ RunError(j) \/ RunEnd(j) \/ CancelRead(j)
      PROVE  MediaInv'
  BY <1>4, RunCollectStep, RunCancelledStep, RunCopyStep, RunFinishStep, RunErrorStep, RunEndStep,
     CancelReadStep
<1>5. ASSUME \E b \in Buckets \cup {None} : SaveSettings(b) PROVE MediaInv'
  BY <1>5, SaveSettingsStep
<1>6. ASSUME FreeJob, NEW scope \in AskedScopes, NEW resume \in Jobs \cup {None},
             StartLock(scope, resume)
      PROVE  MediaInv'
  BY <1>6, StartLockStep
<1>7. CASE StartDrop \/ Restart
  BY <1>7, StartDropStep, RestartStep
<1> QED BY <1>1, <1>2, <1>3, <1>4, <1>5, <1>6, <1>7 DEF Next, SystemNext

\* The inductive invariant holds in every state: of uploads, the worker's channel and its
\* permits, and of migration jobs, their tasks, the lock and the cancellations.
THEOREM MediaInvariant == Spec => []MediaInv
<1>1. Init => MediaInv
  BY MediaInvInit
<1>2. MediaInv /\ [Next]_vars => MediaInv'
  BY MediaInvNext
<1> QED BY <1>1, <1>2, PTL DEF Spec

\* The variables keep their types; the permits of the worker's semaphore that are free and
\* those in the hands of process_job add up to the configured concurrency, the channel keeps
\* to its capacity, and at most one migration holds STORAGE_MIGRATION_RUNNING.
THEOREM MediaType == Spec => []TypeOK
<1>1. MediaInv => TypeOK
  <2> SUFFICES ASSUME MediaInv PROVE TypeOK
    OBVIOUS
  <2>1. TranscodeTypeOK
    BY DEF MediaInv, WorkerOK, WorkerTypes, PermitsOK, Running, QueuedOnce, TempsOK,
           TranscodeTypeOK
  <2>2. Cardinality(Holders) <= 1 /\ (Holders # {} => lock)
    <3>1. Holders = {} \/ \E a : Holders = {a}
      BY DEF MediaInv, MigrationOK, LockOK
    <3>2. Holders = {} => Cardinality(Holders) = 0
      BY FS_EmptySet
    <3>3. \A a : Cardinality({a}) = 1
      BY FS_Singleton
    <3> QED BY <3>1, <3>2, <3>3 DEF MediaInv, MigrationOK, LockOK
  <2>3. \A j \in Jobs :
           /\ jobs[j].status \in Unfinished \cup Resumable \cup {"absent", "completed"}
           /\ jobs[j].copied \cup jobs[j].failed \cup jobs[j].skipped \subseteq jobs[j].list
    BY DEF MediaInv, MigrationOK, JobsOK, GoodJob, JobRecs
  <2> QED BY <2>1, <2>2, <2>3 DEF TypeOK, MediaInv, MigrationOK, JobsOK, CopiedOK, HandlersOK
<1> QED BY <1>1, MediaInvariant, PTL

\* A migration that says 'completed' has every file it listed in its bucket, provided that
\* the job it was resumed from was for the same bucket: for any number of jobs, buckets,
\* videos, failures and restarts.
THEOREM MediaCompletedMeansCopied == Spec => []CompletedMeansCopied
<1>1. MediaInv => CompletedMeansCopied
  <2> SUFFICES ASSUME MediaInv, NEW j \in Jobs, jobs[j].status = "completed",
                      jobs[j].resume # None => jobs[jobs[j].resume].bucket = jobs[j].bucket,
                      NEW f \in jobs[j].list
               PROVE  <<jobs[j].bucket, f>> \in remote
    BY DEF CompletedMeansCopied
  <2>1. f \in jobs[j].copied \/ f \in jobs[j].skipped
    BY DEF MediaInv, MigrationOK, JobsOK, GoodJob
  <2>2. f \in jobs[j].copied => <<jobs[j].bucket, f>> \in remote
    BY DEF MediaInv, MigrationOK, CopiedOK
  <2>3. ASSUME f \in jobs[j].keys PROVE <<jobs[j].bucket, f>> \in remote
    <3>1. /\ jobs[j].resume # None /\ jobs[j].resume \in Jobs
          /\ f \in jobs[jobs[j].resume].copied
      BY <2>3 DEF MediaInv, MigrationOK, CopiedOK, JobsOK, JobRecs
    <3> QED BY <3>1 DEF MediaInv, MigrationOK, CopiedOK
  <2> QED BY <2>1, <2>2, <2>3 DEF MediaInv, MigrationOK, CopiedOK
<1> QED BY <1>1, MediaInvariant, PTL

\* A job whose status is not final has a task at work on it, and the lock has a holder,
\* up to the restart, the second failure, the late cancellation and the disconnection
\* that the property names.
THEOREM MediaMigrationsAreRun == Spec => []MigrationsAreRun
<1>1. MediaInv => MigrationsAreRun
  BY DEF MediaInv, MigrationOK, LockOK, RunOK, MigrationsAreRun
<1> QED BY <1>1, MediaInvariant, PTL
=============================================================================
