----------------------------- MODULE Federation -----------------------------
(***************************************************************************)
(* ActivityPub federation.  A creator of the instance Origin edits one     *)
(* video; each edit spawns a task that broadcasts a Create, an Update or a *)
(* Delete to the followers' inboxes, through a table of delivery jobs that *)
(* workers poll.  Every instance runs the same inbox: it looks at its      *)
(* domain rules, drops an activity whose URI it has, stores the others and *)
(* spawns a task that applies them to its follows or its catalogue.        *)
(*                                                                         *)
(* Activities are named by the order they are built in; activity_uri is    *)
(* unique in each instance's federation_activities.  Every statement       *)
(* commits by itself; statements that follow each other with nothing in    *)
(* between that another task could tell apart are one step, and a failure  *)
(* between them is an alternative of that step.  Backoff is left out: a    *)
(* queued job may be due at any time.  Digests and signatures are taken to *)
(* be right, except for a refusal that counts as a fault.  The peers' own  *)
(* outgoing queues are reduced to posting each activity once or more, and  *)
(* a peer speaks for its own actor only: nobody else publishes the video.  *)
(***************************************************************************)
EXTENDS Naturals, Sequences, FiniteSets, SequencesExt

CONSTANTS
    Origin,        \* the instance whose creator publishes
    Peers,         \* the other instances, one follower and one inbox each
    Followers,     \* peers that follow the creator in the initial state
    InitialVis,    \* visibility of the video, known to the followers if public
    Editors,       \* requests that serve update_video
    Workers,       \* delivery loops on the origin's database
    Slots,         \* bound: POSTs in flight
    MaxActs,       \* bound: activities
    MaxAttempts,   \* federation_delivery_jobs.max_attempts
    BatchSize,     \* BATCH_SIZE
    MaxFaults,     \* bound: statements that fail, timeouts, refusals, restarts
    MaxEvents,     \* bound: what users, peers, administrators and faults do, in all
    None

Servers == {Origin} \cup Peers
Acts == 1 .. MaxActs
JobIds == Acts \X Peers

ASSUME FederationAssumption ==
    /\ Origin \notin Peers
    /\ IsFiniteSet(Peers)
    /\ Followers \subseteq Peers
    /\ InitialVis \in {"public", "local_only"}
    /\ None \notin Servers \cup Workers \cup [id : JobIds, tries : Nat]
    /\ {MaxActs, MaxAttempts, BatchSize} \subseteq Nat \ {0}
    /\ {MaxFaults, MaxEvents} \subseteq Nat

VARIABLES
    video,      \* videos: federation_visibility, the edits it has had, object_uri set
    edit,       \* where each update_video, and the task it spawned, is
    issued,     \* the activities that exist
    table,      \* federation_activities.processing_status of each instance
    handler,    \* where the task that handles each stored activity is
    jobs,       \* federation_delivery_jobs of the origin
    worker,     \* where each delivery loop is, its batch and its job
    request,    \* POSTs being served by process_inbox
    follows,    \* federation_follows of the origin: status and activity_uri
    catalog,    \* remote_video_catalog of each peer
    rules,      \* federation_domain_rules: <<instance, domain>> blocked or suspended
    history,    \* what happened, for the properties
    used        \* counters behind the bounds

vars == <<video, edit, issued, table, handler, jobs, worker, request, follows,
          catalog, rules, history, used>>

\* Every event from outside: an edit, a Follow or Undo, an act of moderation, a fault.
Event(kind) ==
    /\ used.events < MaxEvents
    /\ used' = [used EXCEPT !.events = @ + 1, ![kind] = @ + 1]
Failed == used.failures + used.stops < MaxFaults /\ Event("failures")
Stopped == used.failures + used.stops < MaxFaults /\ Event("stops")

\* A new activity: its URI is the next number.
CanIssue == Len(issued) < MaxActs
NewAct == Len(issued) + 1
Issue(type, by, obj) ==
    /\ CanIssue
    /\ issued' = Append(issued, [type |-> type, by |-> by, obj |-> obj])

\* A POST of activity a to srv's inbox, on behalf of one of the workers or of a peer.
FreeSlot == [at |-> "free", srv |-> None, act |-> 0, by |-> None]
Post(srv, a, by) ==
    /\ \E s \in Slots : request[s].at = "free"
    /\ request' = [request EXCEPT ![CHOOSE s \in Slots : request[s].at = "free"] =
                      [at |-> "check", srv |-> srv, act |-> a, by |-> by]]

IsVideoAct(a) == issued[a].type \in {"Create", "Update", "Delete"}
-----------------------------------------------------------------------------
(* queue_outbound_activity *)

\* The INSERTs of the activity, whose URI must be new, and of its job.
QueueOutbound(a, p) ==
    /\ table[Origin][a] = "absent"
    /\ table' = [table EXCEPT ![Origin][a] = "pending"]
    /\ jobs' = [jobs EXCEPT ![<<a, p>>] = [st |-> "queued", tries |-> 0]]

\* It fails because the URI is taken, or because one of the INSERTs does.
QueueOutboundFails(a) ==
    /\ \/ /\ table[Origin][a] # "absent"
          /\ UNCHANGED <<table, used>>
       \/ /\ table[Origin][a] = "absent"
          /\ Failed
          /\ \/ UNCHANGED table
             \/ table' = [table EXCEPT ![Origin][a] = "pending"]
    /\ UNCHANGED jobs
-----------------------------------------------------------------------------
(* update_video and the publication task *)

IdleEdit == [at |-> "new", prev |-> None, new |-> None, act |-> 0, todo |-> <<>>]
DoneEdit == [IdleEdit EXCEPT !.at = "done"]

\* Some other edit is between reading the visibility and queueing its last job.
Overlaps(e) == \E f \in Editors \ {e} : edit[f].at \notin {"new", "done"}

\* The visibility is read before the update, and "local_only" when that fails;
\* new = None leaves it as it is.
EditRead(e) ==
    /\ edit[e].at = "new"
    /\ \E new \in {"public", "local_only", None}, prev \in {video.vis, "local_only"} :
          /\ edit' = [edit EXCEPT ![e].at = "update", ![e].prev = prev, ![e].new = new]
          /\ IF prev = video.vis THEN Event("requests") ELSE Failed
    /\ history' = [history EXCEPT !.tangled = @ \/ Overlaps(e)]
    /\ UNCHANGED <<video, issued, table, handler, jobs, worker, request, follows,
                   catalog, rules>>

\* Faulty variant: hiding a video is published as an update.
PublicationHidesAsUpdate(was, now) ==
    CASE ~was /\ now -> "Create"
      [] was         -> "Update"
      [] OTHER       -> "done"

\* Which activity follows from the visibility before and after.
Publication(was, now) ==
    CASE ~was /\ now  -> "Create"
      [] was /\ now   -> "Update"
      [] was /\ ~now  -> "Delete"
      [] OTHER        -> "done"

\* The UPDATE, whose failure ends the request.  An edit that nothing will follow
\* although the video was or is public is lost on the peers.
EditUpdate(e) ==
    /\ edit[e].at = "update"
    /\ LET new == IF edit[e].new = None THEN video.vis ELSE edit[e].new
           eff == IF edit[e].new = None THEN edit[e].prev ELSE edit[e].new
           next == Publication(edit[e].prev = "public", eff = "public")
       IN  \/ /\ video' = [video EXCEPT !.vis = new, !.ver = @ + 1]
              /\ edit' = [edit EXCEPT ![e] = [IdleEdit EXCEPT !.at = next]]
              /\ history' = [history EXCEPT !.lost =
                    @ \/ (next = "done" /\ "public" \in {video.vis, new})]
              /\ UNCHANGED used
           \/ /\ Failed
              /\ edit' = [edit EXCEPT ![e] = DoneEdit]
              /\ UNCHANGED <<video, history>>
    /\ UNCHANGED <<issued, table, handler, jobs, worker, request, follows,
                   catalog, rules>>

\* build_video_object reads the video again and gives nothing unless it is public;
\* publish_delete needs only the object_uri.
HasObject(type) == IF type = "Delete" THEN video.uri ELSE video.vis = "public"

\* publish_create gives the video its object_uri.  follower_delivery_inboxes lists
\* the accepted followers in no particular order.  A Delete of a video that never
\* got its object_uri goes to nobody, although an Update may have published it.
Publish(e) ==
    /\ edit[e].at \in {"Create", "Update", "Delete"}
    /\ video' = [video EXCEPT !.uri = @ \/ edit[e].at = "Create"]
    /\ IF HasObject(edit[e].at)
         THEN /\ Issue(edit[e].at, Origin, video.ver)
              /\ \E todo \in SetToSeqs({p \in Peers : follows[p].st = "accepted"}) :
                    edit' = [edit EXCEPT ![e] =
                                IF todo = <<>> THEN DoneEdit
                                ELSE [IdleEdit EXCEPT !.at = "queue", !.act = NewAct,
                                                      !.todo = todo]]
              /\ history' = [history EXCEPT !.lost = FALSE]
         ELSE /\ edit' = [edit EXCEPT ![e] = DoneEdit]
              /\ history' = [history EXCEPT !.lost =
                    \E a \in 1 .. Len(issued) : IsVideoAct(a)]
              /\ UNCHANGED issued
    /\ UNCHANGED <<table, handler, jobs, worker, request, follows, catalog, rules,
                   used>>

\* A statement that fails before the first job is queued ends the task, which logs it.
PublishFails(e) ==
    /\ edit[e].at \in {"Create", "Update", "Delete"}
    /\ Failed
    /\ \E named \in {FALSE, edit[e].at = "Create"} :
          video' = [video EXCEPT !.uri = @ \/ named]
    /\ edit' = [edit EXCEPT ![e] = DoneEdit]
    /\ history' = [history EXCEPT !.lost = TRUE]
    /\ UNCHANGED <<issued, table, handler, jobs, worker, request, follows, catalog,
                   rules>>

\* broadcast_to_followers queues the one activity for every inbox; the second time
\* its URI is taken, and the error ends the task.
Broadcast(e) ==
    /\ edit[e].at = "queue"
    /\ \/ /\ QueueOutbound(edit[e].act, Head(edit[e].todo))
          /\ edit' = [edit EXCEPT ![e] = IF Len(@.todo) = 1 THEN DoneEdit
                                         ELSE [edit[e] EXCEPT !.todo = Tail(@)]]
          /\ UNCHANGED used
       \/ /\ QueueOutboundFails(edit[e].act)
          /\ edit' = [edit EXCEPT ![e] = DoneEdit]
    /\ UNCHANGED <<video, issued, handler, worker, request, follows, catalog,
                   rules, history>>
-----------------------------------------------------------------------------
(* The delivery loop *)

IdleWorker == [at |-> "idle", batch |-> {}, job |-> None]

\* Jobs a worker has in its batch or in hand, with the attempts it read.
Held(w) == {j.id : j \in worker[w].batch \cup
                         (IF worker[w].job = None THEN {} ELSE {worker[w].job})}

\* The SELECT's row locks end with it: the jobs stay queued, and visible to others.
\* A round begun during another worker's round counts as an event.
SelectDueJobs(w) ==
    /\ worker[w].at = "idle"
    /\ \E ids \in SUBSET {k \in JobIds : jobs[k].st = "queued"} :
          /\ ids # {} /\ Cardinality(ids) <= BatchSize
          /\ worker' = [worker EXCEPT ![w] =
                          [at |-> "next", job |-> None,
                           batch |-> {[id |-> k, tries |-> jobs[k].tries] : k \in ids}]]
          /\ history' = [history EXCEPT !.raced =
                            @ \cup {k \in ids : \E x \in Workers \ {w} : k \in Held(x)}]
    /\ IF \A x \in Workers : worker[x].at = "idle" THEN UNCHANGED used
                                                   ELSE Event("requests")
    /\ UNCHANGED <<video, edit, issued, table, handler, jobs, request, follows,
                   catalog, rules>>

\* The next job of the batch; the loop ends its round when there is none.
Rest(wk) == IF wk.batch = {} THEN IdleWorker
                             ELSE [wk EXCEPT !.at = "next", !.job = None]

\* A job for a blocked domain fails at once; its activity stays pending.
SkipBlocked(w) ==
    /\ worker[w].at = "next"
    /\ \E j \in worker[w].batch :
          /\ <<Origin, j.id[2]>> \in rules
          /\ \/ /\ jobs' = [jobs EXCEPT ![j.id].st = "failed"]
                /\ worker' = [worker EXCEPT ![w] =
                                Rest([worker[w] EXCEPT !.batch = @ \ {j}])]
                /\ UNCHANGED used
             \/ Failed /\ worker' = [worker EXCEPT ![w] = IdleWorker] /\ UNCHANGED jobs
    /\ UNCHANGED <<video, edit, issued, table, handler, request, follows,
                   catalog, rules, history>>

\* Otherwise, or when the look-up of the rule fails, the job is claimed, whatever its
\* status is by now, and deliver_job loads the activity and the key, signs the POST
\* and sends it.
DeliverJob(w) ==
    /\ worker[w].at = "next"
    /\ \E j \in worker[w].batch :
          LET claimed(at) ==
                  /\ jobs' = [jobs EXCEPT ![j.id].st = "processing"]
                  /\ worker' = [worker EXCEPT ![w] =
                                  [at |-> at, job |-> j, batch |-> @.batch \ {j}]]
                  /\ history' = [history EXCEPT !.orphaned = @ \ {j.id}]
          IN  \/ /\ claimed("wait") /\ Post(j.id[2], j.id[1], w)
                 /\ IF <<Origin, j.id[2]>> \in rules THEN Failed ELSE UNCHANGED used
              \/ claimed("err") /\ Failed /\ UNCHANGED request
              \/ /\ Failed
                 /\ worker' = [worker EXCEPT ![w] = IdleWorker]
                 /\ UNCHANGED <<jobs, request, history>>
    /\ UNCHANGED <<video, edit, issued, table, handler, follows, catalog, rules>>

\* The 15 s timeout: the peer may still be serving the request.
TimeOut(w) ==
    /\ worker[w].at = "wait"
    /\ Failed
    /\ worker' = [worker EXCEPT ![w].at = "err"]
    /\ request' = [s \in Slots |-> IF request[s].by = w THEN [request[s] EXCEPT !.by = None]
                                                        ELSE request[s]]
    /\ UNCHANGED <<video, edit, issued, table, handler, jobs, follows,
                   catalog, rules, history>>

\* Faulty variant: a delivered job is put back in the queue.
MarkDeliveredRequeues(w) ==
    /\ worker[w].at = "ok"
    /\ jobs' = [jobs EXCEPT ![worker[w].job.id].st = "queued"]
    /\ worker' = [worker EXCEPT ![w] = Rest(@)]
    /\ UNCHANGED <<video, edit, issued, table, handler, request, follows, catalog,
                   rules, history, used>>

\* The UPDATE of the job in hand fails: it keeps the status it has.
JobUnmarked(w) ==
    /\ history' = [history EXCEPT !.orphaned = @ \cup {worker[w].job.id}]
    /\ UNCHANGED jobs

\* The job, then the activity; an error ends the round where it is.
MarkDelivered(w) ==
    /\ worker[w].at = "ok"
    /\ LET k == worker[w].job.id
           delivered == jobs' = [jobs EXCEPT ![k].st = "delivered"] /\ UNCHANGED history
       IN  \/ /\ delivered
              /\ table' = [table EXCEPT ![Origin][k[1]] = "processed"]
              /\ worker' = [worker EXCEPT ![w] = Rest(@)]
              /\ UNCHANGED used
           \/ /\ Failed
              /\ delivered \/ JobUnmarked(w)
              /\ worker' = [worker EXCEPT ![w] = IdleWorker]
              /\ UNCHANGED table
    /\ UNCHANGED <<video, edit, issued, handler, request, follows, catalog, rules>>

\* Faulty variant: the failed job stays 'processing'.
MarkAttemptStuck(w) ==
    /\ worker[w].at = "err"
    /\ jobs' = [jobs EXCEPT ![worker[w].job.id].tries = worker[w].job.tries + 1]
    /\ worker' = [worker EXCEPT ![w] = Rest(@)]
    /\ UNCHANGED <<video, edit, issued, table, handler, request, follows, catalog,
                   rules, history, used>>

\* Faulty variant: one attempt more.
ExhaustedLate(tries) == tries > MaxAttempts

Exhausted(tries) == tries >= MaxAttempts

\* The count is the one the SELECT read, plus one; the activity fails with the last.
MarkAttempt(w) ==
    /\ worker[w].at = "err"
    /\ LET k == worker[w].job.id
           tries == worker[w].job.tries + 1
           exhausted == Exhausted(tries)
           counted == /\ jobs' = [jobs EXCEPT ![k] =
                                     [st |-> IF exhausted THEN "failed" ELSE "queued",
                                      tries |-> tries]]
                      /\ UNCHANGED history
       IN  \/ /\ counted
              /\ table' = IF exhausted THEN [table EXCEPT ![Origin][k[1]] = "failed"]
                                       ELSE table
              /\ worker' = [worker EXCEPT ![w] = Rest(@)]
              /\ UNCHANGED used
           \/ /\ Failed
              /\ (exhausted /\ counted) \/ JobUnmarked(w)
              /\ worker' = [worker EXCEPT ![w] = IdleWorker]
              /\ UNCHANGED table
    /\ UNCHANGED <<video, edit, issued, handler, request, follows, catalog, rules>>
-----------------------------------------------------------------------------
(* process_inbox *)

\* The answer frees the slot and reaches the worker that still waits for it.
Answer(s, good) ==
    /\ request' = [request EXCEPT ![s] = FreeSlot]
    /\ IF request[s].by \in Workers
         THEN /\ worker' = [worker EXCEPT ![request[s].by].at = IF good THEN "ok" ELSE "err"]
              /\ history' = [history EXCEPT !.acked =
                                IF good THEN @ \cup {<<request[s].act, request[s].srv>>}
                                        ELSE @]
         ELSE UNCHANGED <<worker, history>>

\* Faulty variant: the rules are not consulted.
RefusesNobody(s) == FALSE

\* is_domain_blocked finds a rule for the actor's domain.
Refuses(s) == <<request[s].srv, issued[request[s].act].by>> \in rules

\* It finds none, also when the look-up fails.
LetsIn(s) == IF Refuses(s) THEN Failed ELSE UNCHANGED used

\* An activity that goes on to be stored, past a rule perhaps.
Admit(s) ==
    /\ request' = [request EXCEPT ![s].at = "store"]
    /\ history' = IF Refuses(s) /\ request[s].srv \in Peers
                    THEN [history EXCEPT !.admitted[request[s].srv] =
                              @ \cup {request[s].act}]
                    ELSE history
    /\ UNCHANGED worker

\* Domain rules, digest and signature; then an activity URI that is in the table is
\* acknowledged and nothing more.  A look-up of the URI that fails finds none.
InboxCheck(s) ==
    LET known == table[request[s].srv][request[s].act] # "absent" IN
    /\ request[s].at = "check"
    /\ \/ ~known /\ LetsIn(s) /\ Admit(s)
       \/ known /\ LetsIn(s) /\ Answer(s, TRUE)
       \/ known /\ ~Refuses(s) /\ Failed /\ Admit(s)
       \/ (IF Refuses(s) THEN UNCHANGED used ELSE Failed) /\ Answer(s, FALSE)
    /\ UNCHANGED <<video, edit, issued, table, handler, jobs, follows, catalog,
                   rules>>

\* Faulty variant (of the table's UNIQUE): a second copy is stored and handled.
InboxStoreAgain(s) ==
    /\ request[s].at = "store"
    /\ table' = [table EXCEPT ![request[s].srv][request[s].act] = "pending"]
    /\ handler' = [handler EXCEPT ![request[s].srv][request[s].act] = "apply"]
    /\ Answer(s, TRUE)
    /\ UNCHANGED <<video, edit, issued, jobs, follows, catalog, rules,
                   used>>

\* The activity is stored, the task that handles it spawned, and 202 answered; a
\* URI stored since the SELECT makes the INSERT fail.
InboxStore(s) ==
    /\ request[s].at = "store"
    /\ LET srv == request[s].srv
           act == request[s].act
       IN  \/ /\ table[srv][act] = "absent"
              /\ table' = [table EXCEPT ![srv][act] = "pending"]
              /\ handler' = [handler EXCEPT ![srv][act] = "apply"]
              /\ Answer(s, TRUE)
              /\ UNCHANGED used
           \/ /\ IF table[srv][act] = "absent" THEN Failed ELSE UNCHANGED used
              /\ Answer(s, FALSE)
              /\ UNCHANGED <<table, handler>>
    /\ UNCHANGED <<video, edit, issued, jobs, follows, catalog, rules>>
-----------------------------------------------------------------------------
(* handle_inbound_activity *)

\* upsert_remote_video: the last activity to be handled wins.
UpsertVideo(p, a) ==
    catalog' = [catalog EXCEPT ![p] = [st |-> "available", ver |-> issued[a].obj, act |-> a]]

DeleteVideo(p) ==
    catalog' = [catalog EXCEPT ![p].st = IF @ = "none" THEN "none" ELSE "deleted"]

\* handle_follow: the follow is accepted at once, under the new activity's URI.
AcceptFollow(p, a) == follows' = [follows EXCEPT ![p] = [st |-> "accepted", uri |-> a]]

\* handle_undo: the row with this follower and this Follow, if there is one.
CancelFollow(p, a) ==
    follows' = [follows EXCEPT ![p].st = IF follows[p].uri = issued[a].obj THEN "cancelled"
                                                                           ELSE @]

\* Activities of the same kind by the same actor, handled before although built later.
Overtakes(s, a) ==
    \E b \in 1 .. Len(issued) :
        /\ b > a /\ issued[b].by = issued[a].by /\ IsVideoAct(a) = IsVideoAct(b)
        /\ history.applied[s][b] > 0

\* Faulty variant: the activity is not marked.
MarkNothing(s, a, status) == table' = table

\* mark_activity
MarkActivity(s, a, status) == table' = [table EXCEPT ![s][a] = status]

\* Any error marks the activity failed, unless what went wrong prevents that too; h
\* is the history up to then.
HandleError(s, a, h) ==
    /\ Failed
    /\ handler' = [handler EXCEPT ![s][a] = "none"]
    /\ \/ MarkActivity(s, a, "failed") /\ history' = h
       \/ UNCHANGED table /\ history' = [h EXCEPT !.unmarked = @ \cup {<<s, a>>}]

\* handle_accept and handle_reject change only rows that follow a local actor, and the
\* sender of a Follow has none.
FollowAnswered == UNCHANGED <<catalog, follows>>

\* The activity's one UPDATE or upsert.
Effect(s, a) ==
    LET act == issued[a]
    IN  CASE act.type \in {"Create", "Update"} -> UpsertVideo(s, a) /\ UNCHANGED follows
          [] act.type = "Delete" -> DeleteVideo(s) /\ UNCHANGED follows
          [] act.type = "Follow" -> AcceptFollow(act.by, a) /\ UNCHANGED catalog
          [] act.type = "Undo" -> CancelFollow(act.by, a) /\ UNCHANGED catalog
          [] OTHER -> FollowAnswered

\* The effect, then the mark; a Follow goes on to queue its Accept.  An error may
\* come before the effect or after it.
HandleActivity(s, a) ==
    LET applied == [history EXCEPT !.applied[s][a] = @ + 1,
                                   !.overtaken = IF Overtakes(s, a) THEN @ \cup {s} ELSE @]
    IN
    /\ handler[s][a] = "apply"
    /\ \/ /\ Effect(s, a)
          /\ \/ /\ MarkActivity(s, a, "processed")
                /\ handler' = [handler EXCEPT ![s][a] =
                                  IF issued[a].type = "Follow" THEN "accept" ELSE "none"]
                /\ history' = applied
                /\ UNCHANGED used
             \/ HandleError(s, a, applied)
       \/ HandleError(s, a, history) /\ UNCHANGED <<catalog, follows>>
    /\ UNCHANGED <<video, edit, issued, jobs, worker, request, rules>>

\* An Accept{Follow} that cannot be queued marks the Follow failed, which it is not,
\* unless that fails as well.
QueueAccept(a) ==
    /\ handler[Origin][a] = "accept"
    /\ Issue("Accept", Origin, a)
    /\ \/ /\ QueueOutbound(NewAct, issued[a].by)
          /\ handler' = [handler EXCEPT ![Origin][a] = "none"]
          /\ UNCHANGED used
       \/ /\ Failed
          /\ \E stored \in {"absent", "pending"}, mark \in {"failed", "processed"} :
                table' = [table EXCEPT ![Origin][a] = mark, ![Origin][NewAct] = stored]
          /\ handler' = [handler EXCEPT ![Origin][a] = "none"]
          /\ UNCHANGED jobs
    /\ UNCHANGED <<video, edit, worker, request, follows, catalog, rules, history>>
-----------------------------------------------------------------------------
(* The peers' side: their actors follow and unfollow the creator *)

\* A Follow, or the Undo of the last Follow the peer sent.
PeerSend(p) ==
    /\ Event("requests")
    /\ LET mine == {a \in 1 .. Len(issued) : issued[a].by = p}
           last == IF mine = {} THEN 0 ELSE CHOOSE a \in mine : \A b \in mine : b <= a
       IN  \/ Issue("Follow", p, 0)
           \/ /\ IF last = 0 THEN p \in Followers ELSE issued[last].type = "Follow"
              /\ Issue("Undo", p, last)
    /\ Post(Origin, NewAct, None)
    /\ UNCHANGED <<video, edit, table, handler, jobs, worker, follows, catalog, rules,
                   history>>

\* Its delivery loop posts an activity once more.
PeerRepost(a) ==
    /\ Event("requests")
    /\ a <= Len(issued) /\ issued[a].by \in Peers
    /\ Post(Origin, a, None)
    /\ UNCHANGED <<video, edit, issued, table, handler, jobs, worker, follows, catalog,
                   rules, history>>
-----------------------------------------------------------------------------
(* Moderation *)

\* Activities of domain d that have passed srv's check and are not applied yet.
Admitted(srv, d) ==
    {a \in 1 .. Len(issued) :
        /\ issued[a].by = d
        /\ \/ handler[srv][a] = "apply"
           \/ \E s \in Slots : /\ request[s].srv = srv /\ request[s].act = a
                               /\ request[s].at = "store"}

SetDomainRule(srv, d) ==
    /\ Event("requests")
    /\ <<srv, d>> \notin rules
    /\ rules' = rules \cup {<<srv, d>>}
    /\ history' = IF srv \in Peers
                    THEN [history EXCEPT !.admitted[srv] = Admitted(srv, d)]
                    ELSE history
    /\ UNCHANGED <<video, edit, issued, table, handler, jobs, worker, request,
                   follows, catalog>>

DeleteDomainRule(srv, d) ==
    /\ Event("requests")
    /\ <<srv, d>> \in rules
    /\ rules' = rules \ {<<srv, d>>}
    /\ history' = IF srv \in Peers /\ history.purged[srv] = "ruled"
                    THEN [history EXCEPT !.purged[srv] = "free"]
                    ELSE history
    /\ UNCHANGED <<video, edit, issued, table, handler, jobs, worker, request,
                   follows, catalog>>

PurgeRemoteVideos(p) ==
    /\ Event("requests")
    /\ catalog[p].st = "available"
    /\ catalog' = [catalog EXCEPT ![p].st = "deleted"]
    /\ history' = [history EXCEPT !.purged[p] =
                      IF <<p, Origin>> \in rules THEN "ruled" ELSE "free"]
    /\ UNCHANGED <<video, edit, issued, table, handler, jobs, worker, request,
                   follows, rules>>

RetryDeliveryJob(k) ==
    /\ Event("requests")
    /\ jobs[k].st = "failed"
    /\ jobs' = [jobs EXCEPT ![k] = [st |-> "queued", tries |-> 0]]
    /\ UNCHANGED <<video, edit, issued, table, handler, worker, request, follows,
                   catalog, rules, history>>

\* send_reject: the follow is rejected, then the activity queued.
RejectFollow(p) ==
    /\ follows[p].st # "none"
    /\ follows' = [follows EXCEPT ![p].st = "rejected"]
    /\ Issue("Reject", Origin, follows[p].uri)
    /\ \/ QueueOutbound(NewAct, p) /\ Event("requests")
       \/ QueueOutboundFails(NewAct)
    /\ UNCHANGED <<video, edit, handler, worker, request, catalog, rules, history>>
-----------------------------------------------------------------------------
(* A restart ends every request and task of the instance *)

\* The activities a stop of srv keeps from being applied.
Unfinished(srv) == {srv} \X {a \in Acts : handler[srv][a] = "apply"}

RestartOrigin ==
    /\ Stopped
    /\ edit' = [e \in Editors |-> IF edit[e].at = "new" THEN edit[e] ELSE DoneEdit]
    /\ handler' = [handler EXCEPT ![Origin] = [a \in Acts |-> "none"]]
    /\ worker' = [w \in Workers |-> IdleWorker]
    /\ request' = [s \in Slots |-> IF request[s].srv = Origin THEN FreeSlot
                                   ELSE [request[s] EXCEPT !.by = None]]
    /\ history' = [history EXCEPT
                      !.unmarked = @ \cup Unfinished(Origin),
                      !.orphaned = @ \cup {worker[w].job.id :
                                              w \in {x \in Workers : worker[x].job # None}},
                      !.tangled = @ \/ \E e \in Editors : edit[e].at \notin {"new", "done"}]
    /\ UNCHANGED <<video, issued, table, jobs, follows, catalog, rules>>

RestartPeer(p) ==
    /\ Stopped
    /\ handler' = [handler EXCEPT ![p] = [a \in Acts |-> "none"]]
    /\ request' = [s \in Slots |-> IF request[s].srv = p THEN FreeSlot ELSE request[s]]
    /\ worker' = [w \in Workers |->
                    IF \E s \in Slots : request[s].srv = p /\ request[s].by = w
                      THEN [worker[w] EXCEPT !.at = "err"] ELSE worker[w]]
    /\ history' = [history EXCEPT !.unmarked = @ \cup Unfinished(p)]
    /\ UNCHANGED <<video, edit, issued, table, jobs, follows, catalog,
                   rules>>
-----------------------------------------------------------------------------
Init ==
    /\ video = [vis |-> InitialVis, ver |-> 0, uri |-> InitialVis = "public"]
    /\ edit = [e \in Editors |-> IdleEdit]
    /\ issued = <<>>
    /\ table = [s \in Servers |-> [a \in Acts |-> "absent"]]
    /\ handler = [s \in Servers |-> [a \in Acts |-> "none"]]
    /\ jobs = [k \in JobIds |-> [st |-> "absent", tries |-> 0]]
    /\ worker = [w \in Workers |-> IdleWorker]
    /\ request = [s \in Slots |-> FreeSlot]
    /\ follows = [p \in Peers |->
                    [st |-> IF p \in Followers THEN "accepted" ELSE "none", uri |-> 0]]
    /\ catalog = [p \in Peers |->
                    [st |-> IF p \in Followers /\ video.uri THEN "available" ELSE "none",
                     ver |-> 0, act |-> 0]]
    /\ rules = {}
    /\ history = [tangled |-> FALSE, lost |-> FALSE, raced |-> {}, acked |-> {},
                  orphaned |-> {}, unmarked |-> {}, overtaken |-> {},
                  applied |-> [s \in Servers |-> [a \in Acts |-> 0]],
                  purged |-> [p \in Peers |-> "never"],
                  admitted |-> [p \in Peers |-> {}]]
    /\ used = [events |-> 0, requests |-> 0, failures |-> 0, stops |-> 0]

EditorStep(e) == EditUpdate(e) \/ Publish(e) \/ PublishFails(e) \/ Broadcast(e)

WorkerStep(w) ==
    SelectDueJobs(w) \/ SkipBlocked(w) \/ DeliverJob(w) \/ MarkDelivered(w)
        \/ MarkAttempt(w)

InboxStep(s) == InboxCheck(s) \/ InboxStore(s)

\* What the instances do by themselves.
SystemNext ==
    \/ \E e \in Editors : EditorStep(e)
    \/ \E w \in Workers : WorkerStep(w)
    \/ \E s \in Slots : InboxStep(s)
    \/ \E s \in Servers, a \in Acts : HandleActivity(s, a)
    \/ \E a \in Acts : QueueAccept(a)

\* What users, administrators, peers and faults do to them.
Environment ==
    \/ \E e \in Editors : EditRead(e)
    \/ \E w \in Workers : TimeOut(w)
    \/ \E p \in Peers : PeerSend(p) \/ RejectFollow(p) \/ PurgeRemoteVideos(p)
    \/ \E a \in Acts : PeerRepost(a)
    \/ \E p \in Peers : SetDomainRule(Origin, p) \/ SetDomainRule(p, Origin)
    \/ \E p \in Peers : DeleteDomainRule(Origin, p) \/ DeleteDomainRule(p, Origin)
    \/ \E k \in JobIds : RetryDeliveryJob(k)
    \/ RestartOrigin
    \/ \E p \in Peers : RestartPeer(p)

Next == SystemNext \/ Environment

Spec == Init /\ [][Next]_vars

-----------------------------------------------------------------------------
(* Properties *)

\* The states the code's enumerations and the tables' CHECK constraints allow.
TypeOK ==
    /\ video \in [vis : {"public", "local_only"}, ver : Nat, uri : BOOLEAN]
    /\ \A e \in Editors :
          /\ edit[e].at \in {"new", "update", "Create", "Update", "Delete", "queue", "done"}
          /\ edit[e].act \in 0 .. MaxActs
          /\ edit[e].todo \in Seq(Peers)
    /\ issued \in Seq([type : {"Create", "Update", "Delete", "Follow", "Undo", "Accept",
                               "Reject"}, by : Servers, obj : Nat])
    /\ table \in [Servers -> [Acts -> {"absent", "pending", "processed", "failed"}]]
    /\ handler \in [Servers -> [Acts -> {"none", "apply", "accept"}]]
    /\ jobs \in [JobIds -> [st : {"absent", "queued", "processing", "delivered", "failed"},
                            tries : 0 .. MaxAttempts]]
    /\ \A w \in Workers :
          /\ worker[w].at \in {"idle", "next", "wait", "ok", "err"}
          /\ worker[w].at \in {"idle", "next"} <=> worker[w].job = None
          /\ Cardinality(worker[w].batch) <= BatchSize
          /\ \A j \in worker[w].batch : j.id \in JobIds /\ j.tries \in 0 .. MaxAttempts
    /\ request \in [Slots -> [at : {"free", "check", "store"},
                              srv : Servers \cup {None}, act : 0 .. MaxActs,
                              by : Workers \cup {None}]]
    /\ follows \in [Peers -> [st : {"none", "accepted", "rejected", "cancelled"},
                              uri : 0 .. MaxActs]]
    /\ catalog \in [Peers -> [st : {"none", "available", "deleted"}, ver : Nat,
                              act : 0 .. MaxActs]]
    /\ rules \subseteq Servers \X Servers

\* An instance applies an activity once, however often workers and peers post it
\* and however the posts interleave: only the UNIQUE activity_uri stands between two
\* posts that both passed the SELECT.
AppliedOnce == \A s \in Servers, a \in Acts : history.applied[s][a] <= 1

\* publish_create's comment: it broadcasts the activity "to all followers of the video
\* owner".  So without a fault, and once the broadcast has ended, there is a job for
\* every peer that has followed the creator from the start.
FollowersAreServed ==
    \A a \in 1 .. Len(issued), p \in Followers :
        /\ IsVideoAct(a)
        /\ \A e \in Editors : edit[e].at = "queue" => edit[e].act # a
        /\ follows[p] = [st |-> "accepted", uri |-> 0]
        /\ used.failures + used.stops = 0
        => jobs[<<a, p>>].st # "absent"

\* A job whose POST was answered with success falls back to queued or failed only if
\* two workers had it in their batches at the same time.
DeliveredStaysDelivered ==
    \A k \in history.acked : jobs[k].st \in {"queued", "failed"} => k \in history.raced

\* After a rule against the origin and a purge, its video comes back to a peer's
\* catalogue only through an activity the inbox had let in before the rule, or let in
\* later because it could not look the rule up.  (The peers are taken to publish videos
\* of their own only: upsert_remote_video does not compare owners.)
PurgeHolds ==
    \A p \in Peers :
        history.purged[p] = "ruled" /\ catalog[p].st = "available"
            => catalog[p].act \in history.admitted[p]

\* Peer p has nothing more to come, and was sent and handled every publication.  What
\* was public from the start only the first followers know, until the next publication.
Quiet(p) ==
    /\ \/ p \in Followers \/ InitialVis = "local_only"
       \/ \E a \in 1 .. Len(issued) : IsVideoAct(a)
    /\ \A e \in Editors : edit[e].at \in {"new", "done"}
    /\ \A a \in 1 .. Len(issued) :
          IsVideoAct(a) => /\ jobs[<<a, p>>].st = "delivered"
                           /\ table[p][a] = "processed"

\* A peer that got every publication shows the video exactly when it is public, and
\* in its last version, unless the last edit's activity was lost to a failed
\* statement, edits overlapped or were cut off, the peer handled publications out of
\* order, or its administrator purged the catalogue.
CatalogConverges ==
    \A p \in Peers :
        Quiet(p) /\ ~history.tangled /\ ~history.lost /\ p \notin history.overtaken
            /\ history.purged[p] = "never"
        => /\ catalog[p].st = "available" <=> video.vis = "public"
           /\ catalog[p].st = "available" => catalog[p].ver = video.ver

\* No job is lost: one that is neither queued, delivered nor failed is in a worker's
\* hands, unless the worker that claimed it last was stopped with that job, or could
\* not record how its delivery ended, and left it in 'processing' for ever.
ClaimedJobsAreHeld ==
    \A k \in JobIds :
        jobs[k].st = "processing" =>
            (\E w \in Workers : k \in Held(w)) \/ k \in history.orphaned

\* An activity an inbox has acknowledged is being handled until it is marked; only a
\* stop in the middle of its own handling, or its own marking that fails, leaves it
\* pending for ever.
AcceptedIsHandled ==
    \A s \in Servers, a \in 1 .. Len(issued) :
        issued[a].by # s /\ table[s][a] = "pending" =>
            handler[s][a] # "none" \/ <<s, a>> \in history.unmarked
=============================================================================
