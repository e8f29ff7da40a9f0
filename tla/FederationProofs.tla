-------------------------- MODULE FederationProofs --------------------------
(***************************************************************************)
(* Theorems about Federation, for any number of peers, editors, workers,   *)
(* requests in flight, activities, attempts, faults and events.            *)
(*                                                                         *)
(* Core is the inductive invariant the others rest on: the types, who      *)
(* built each activity and where it may be posted, stored and handled,     *)
(* that a job exists only with the row of its activity, and that workers   *)
(* hold only jobs that exist.  Each further property adds one invariant    *)
(* of its own: ClaimOK (a job in processing is in one worker's hand or     *)
(* orphaned), AppliedOK (an activity not yet stored, or     *)
(* still with its task, has not been applied), RaceOK (a job nobody raced  *)
(* for is in one worker's hands) and RuleOK (under a rule against the      *)
(* origin, what has passed the inbox check had passed it before), and for  *)
(* convergence EditsFit (edits that did not overlap: the last publication  *)
(* is the video, or one edit is about to publish it) and CatalogFits (a    *)
(* catalogue shows the last publication the peer applied).  The steps are  *)
(* first summed up in views (HandlerView, TableView, WorkView, StoreView), *)
(* each stating what any step may do to one piece of state.                *)
(***************************************************************************)
EXTENDS Federation, PrefixSumsProofs, FiniteSetTheorems, SequenceTheorems, TLAPS

-----------------------------------------------------------------------------
(* The inductive invariant. *)

ActTypes == {"Create", "Update", "Delete", "Follow", "Undo", "Accept", "Reject"}
Visibilities == {"public", "local_only"}

\* A job as the SELECT read it: it was queued, so an attempt is left.
WorkJobs == [id : JobIds, tries : 0 .. MaxAttempts - 1]

VideoOK == video \in [vis : Visibilities, ver : Nat, uri : BOOLEAN]

\* A task that broadcasts has an activity, and an inbox to go.
EditOK ==
    /\ edit \in [Editors -> [at : {"new", "update", "Create", "Update", "Delete", "queue", "done"},
                             prev : Visibilities \cup {None}, new : Visibilities \cup {None},
                             act : 0 .. MaxActs, todo : Seq(Peers)]]
    /\ \A e \in Editors : edit[e].at = "queue" => edit[e].act \in Acts /\ edit[e].todo # <<>>
    /\ \A e \in Editors : edit[e].at = "update" => edit[e].prev \in Visibilities

IssuedOK ==
    /\ issued \in Seq([type : ActTypes, by : Servers, obj : Nat])
    /\ Len(issued) <= MaxActs

TableOK == table \in [Servers -> [Acts -> {"absent", "pending", "processed", "failed"}]]
HandlerOK == handler \in [Servers -> [Acts -> {"none", "apply", "accept"}]]

\* A queued job has an attempt left.
JobsOK ==
    /\ jobs \in [JobIds -> [st : {"absent", "queued", "processing", "delivered", "failed"},
                            tries : 0 .. MaxAttempts]]
    /\ \A k \in JobIds : jobs[k].st = "queued" => jobs[k].tries < MaxAttempts

\* A worker has a job in hand from the claim to the mark; a batch lists a job once.
WorkerOK ==
    /\ worker \in [Workers -> [at : {"idle", "next", "wait", "ok", "err"},
                               batch : SUBSET WorkJobs, job : WorkJobs \cup {None}]]
    /\ \A w \in Workers :
          /\ worker[w].at \in {"idle", "next"} <=> worker[w].job = None
          /\ worker[w].at = "idle" => worker[w].batch = {}
          /\ IsFiniteSet(worker[w].batch) /\ Cardinality(worker[w].batch) <= BatchSize
          /\ \A i, j \in worker[w].batch : i.id = j.id => i = j

\* A worker waits for at most one POST, that of the job it has in hand.
RequestOK ==
    /\ request \in [Slots -> [at : {"free", "check", "store"}, srv : Servers \cup {None},
                              act : 0 .. MaxActs, by : Workers \cup {None}]]
    /\ \A s \in Slots :
          /\ request[s].at # "free" => request[s].srv \in Servers /\ request[s].act \in Acts
          /\ request[s].by \in Workers =>
                /\ request[s].at # "free"
                /\ worker[request[s].by].at = "wait"
                /\ worker[request[s].by].job.id = <<request[s].act, request[s].srv>>
    /\ \A s, z \in Slots : request[s].by = request[z].by /\ request[s].by \in Workers => s = z

FollowsOK == follows \in [Peers -> [st : {"none", "accepted", "rejected", "cancelled"},
                                    uri : 0 .. MaxActs]]
CatalogOK == catalog \in [Peers -> [st : {"none", "available", "deleted"}, ver : Nat,
                                    act : 0 .. MaxActs]]
RulesOK == rules \subseteq Servers \X Servers
HistoryRecs ==
    [tangled : BOOLEAN, lost : BOOLEAN, raced : SUBSET JobIds, acked : SUBSET JobIds,
     orphaned : SUBSET JobIds, unmarked : SUBSET (Servers \X Acts),
     overtaken : SUBSET Servers, applied : [Servers -> [Acts -> Nat]],
     purged : [Peers -> {"never", "free", "ruled"}], admitted : [Peers -> SUBSET Acts]]
HistoryOK == history \in HistoryRecs
UsedOK == used \in [events : Nat, requests : Nat, failures : Nat, stops : Nat]

FedTypes ==
    /\ VideoOK /\ EditOK /\ IssuedOK /\ TableOK /\ HandlerOK /\ JobsOK /\ WorkerOK
    /\ RequestOK /\ FollowsOK /\ CatalogOK /\ RulesOK /\ HistoryOK /\ UsedOK

-----------------------------------------------------------------------------

\* Who builds which activity; and nothing is known of one that does not exist.
ActsOK ==
    /\ \A a \in 1 .. Len(issued) :
          IF issued[a].type \in {"Follow", "Undo"} THEN issued[a].by \in Peers
                                                   ELSE issued[a].by = Origin
    /\ \A a \in Acts : a > Len(issued) =>
          /\ \A s \in Servers : table[s][a] = "absent"
          /\ \A p \in Peers : jobs[<<a, p>>].st = "absent"

\* The origin's activities go to the peers' inboxes, the peers' to the origin's.
Routed(s, a) ==
    /\ a \in 1 .. Len(issued)
    /\ IF s = Origin THEN issued[a].by \in Peers ELSE issued[a].by = Origin

RequestsRouted ==
    \A s \in Slots : request[s].at # "free" => Routed(request[s].srv, request[s].act)

\* A task handles a row; it goes on to the Accept of a Follow it has marked.
HandlersRouted ==
    \A s \in Servers, a \in Acts :
       handler[s][a] # "none" =>
          /\ Routed(s, a) /\ table[s][a] # "absent"
          /\ handler[s][a] = "accept" =>
                s = Origin /\ table[s][a] # "pending" /\ issued[a].type = "Follow"

EditsRouted ==
    \A e \in Editors : edit[e].at = "queue" =>
       edit[e].act \in 1 .. Len(issued) /\ issued[edit[e].act].by = Origin

\* Jobs are made with the row of their activity.
QueueOK ==
    /\ \A a \in Acts, p \in Peers :
          jobs[<<a, p>>].st # "absent" =>
             /\ a \in 1 .. Len(issued) /\ issued[a].by = Origin
             /\ table[Origin][a] # "absent"

HeldOK == \A w \in Workers : \A k \in Held(w) : jobs[k].st # "absent"

\* An activity is applied by the task that the INSERT of its row spawned.
AppliedOK ==
    \A s \in Servers, a \in Acts :
       /\ history.applied[s][a] <= 1
       /\ table[s][a] = "absent" \/ handler[s][a] = "apply" => history.applied[s][a] = 0

InBatch(w, k) == \E j \in worker[w].batch : j.id = k
InHand(w, k) == worker[w].job # None /\ worker[w].job.id = k

\* A job nobody raced for is in at most one worker's hands: queued while it waits in
\* the batch, and processing from the claim to the mark; the answer comes in between.
RaceOK ==
    /\ \A k \in JobIds \ history.raced : \A w \in Workers :
          /\ \A x \in Workers : k \in Held(w) /\ k \in Held(x) => w = x
          /\ InBatch(w, k) => jobs[k].st = "queued" /\ k \notin history.acked
          /\ InHand(w, k) => /\ jobs[k].st = "processing"
                             /\ worker[w].at \in {"wait", "err"} => k \notin history.acked
    /\ \A k \in history.acked \ history.raced : jobs[k].st \in {"processing", "delivered"}

\* Under a rule against the origin, nothing of the origin's gets past the inbox check
\* that was not past it when the rule was made.
RuleOK ==
    /\ \A p \in Peers : <<p, Origin>> \in rules => Admitted(p, Origin) \subseteq history.admitted[p]
    /\ \A p \in Peers : history.purged[p] = "ruled" => <<p, Origin>> \in rules

Core == FedTypes /\ ActsOK /\ RequestsRouted /\ HandlersRouted /\ EditsRouted /\ QueueOK /\ HeldOK
-----------------------------------------------------------------------------
(* The operators the actions are made of. *)

LEMMA ServersFact == Origin \in Servers /\ Peers \subseteq Servers /\ Origin \notin Peers
                     /\ None \notin Servers /\ None \notin Workers
BY FederationAssumption DEF Servers

LEMMA NumbersFact ==
  /\ MaxActs \in Nat \ {0} /\ MaxAttempts \in Nat \ {0} /\ BatchSize \in Nat \ {0}
  /\ Acts \subseteq Nat \ {0} /\ Acts = 1 .. MaxActs
BY FederationAssumption DEF Acts

LEMMA NoneIsNoJob == None \notin WorkJobs
<1>1. WorkJobs \subseteq [id : JobIds, tries : Nat]
  BY NumbersFact DEF WorkJobs
<1> QED BY <1>1, FederationAssumption

LEMMA JobIdsFact == \A k \in JobIds : k[1] \in Acts /\ k[2] \in Peers /\ k = <<k[1], k[2]>>
BY DEF JobIds

LEMMA JobIdsFinite == IsFiniteSet(JobIds)
<1>1. IsFiniteSet(Acts)
  BY NumbersFact, FS_Interval
<1> QED BY <1>1, FS_Product, FederationAssumption DEF JobIds

\* An event counts itself, and nothing is taken back.
UsedGrows == used'.failures >= used.failures /\ used'.stops >= used.stops

LEMMA EventUsed ==
  ASSUME UsedOK, NEW kind \in {"requests", "failures", "stops"}, Event(kind)
  PROVE  /\ UsedOK' /\ UsedGrows
         /\ kind = "failures" => used'.failures > 0
         /\ kind = "stops" => used'.stops > 0
<1>1. used' = [used EXCEPT !.events = @ + 1, ![kind] = @ + 1]
  BY DEF Event
<1>2. CASE kind = "requests"
  <2>1. used' = [used EXCEPT !.events = @ + 1, !.requests = @ + 1]
    BY <1>1, <1>2
  <2>4. used' = [events |-> used.events + 1, requests |-> used.requests + 1,
                 failures |-> used.failures, stops |-> used.stops]
    BY <2>1 DEF UsedOK
  <2>2. UsedOK'
    BY <2>4 DEF UsedOK
  <2>3. UsedGrows
    BY <2>1 DEF UsedOK, UsedGrows
  <2> QED BY <1>2, <2>2, <2>3
<1>3. CASE kind = "failures"
  <2>1. used' = [used EXCEPT !.events = @ + 1, !.failures = @ + 1]
    BY <1>1, <1>3
  <2>4. used' = [events |-> used.events + 1, requests |-> used.requests,
                 failures |-> used.failures + 1, stops |-> used.stops]
    BY <2>1 DEF UsedOK
  <2>2. UsedOK'
    BY <2>4 DEF UsedOK
  <2>3. UsedGrows /\ used'.failures > 0
    BY <2>1 DEF UsedOK, UsedGrows
  <2> QED BY <1>3, <2>2, <2>3
<1>4. CASE kind = "stops"
  <2>1. used' = [used EXCEPT !.events = @ + 1, !.stops = @ + 1]
    BY <1>1, <1>4
  <2>4. used' = [events |-> used.events + 1, requests |-> used.requests,
                 failures |-> used.failures, stops |-> used.stops + 1]
    BY <2>1 DEF UsedOK
  <2>2. UsedOK'
    BY <2>4 DEF UsedOK
  <2>3. UsedGrows /\ used'.stops > 0
    BY <2>1 DEF UsedOK, UsedGrows
  <2> QED BY <1>4, <2>2, <2>3
<1> QED BY <1>2, <1>3, <1>4

LEMMA RequestUsed == ASSUME UsedOK, Event("requests") PROVE UsedOK' /\ UsedGrows
BY EventUsed

LEMMA FailedUsed == ASSUME UsedOK, Failed PROVE UsedOK' /\ UsedGrows /\ used'.failures > 0
BY EventUsed DEF Failed

LEMMA StoppedUsed == ASSUME UsedOK, Stopped PROVE UsedOK' /\ UsedGrows /\ used'.stops > 0
BY EventUsed DEF Stopped

LEMMA SameUsed == ASSUME UsedOK, UNCHANGED used PROVE UsedOK' /\ UsedGrows
BY DEF UsedOK, UsedGrows

\* Activities are added at the end.
LEMMA IssueAppends ==
  ASSUME IssuedOK, NEW type \in ActTypes, NEW by \in Servers, NEW obj \in Nat,
         Issue(type, by, obj)
  PROVE  /\ IssuedOK'
         /\ Len(issued) \in Nat /\ Len(issued') = Len(issued) + 1 /\ NewAct = Len(issued')
         /\ NewAct \in Acts /\ NewAct \notin 1 .. Len(issued)
         /\ issued'[NewAct] = [type |-> type, by |-> by, obj |-> obj]
         /\ \A a \in 1 .. Len(issued) : issued'[a] = issued[a]
<1> DEFINE x == [type |-> type, by |-> by, obj |-> obj]
<1>1. issued' = Append(issued, x) /\ Len(issued) < MaxActs
  BY DEF Issue, CanIssue
<1>2. x \in [type : ActTypes, by : Servers, obj : Nat]
  OBVIOUS
<1> HIDE DEF x
<1>3. /\ issued' \in Seq([type : ActTypes, by : Servers, obj : Nat])
      /\ Len(issued) \in Nat /\ Len(issued') = Len(issued) + 1
      /\ issued'[Len(issued) + 1] = x
      /\ \A a \in 1 .. Len(issued) : issued'[a] = issued[a]
  BY <1>1, <1>2 DEF IssuedOK
<1> QED BY <1>1, <1>3, NumbersFact DEF IssuedOK, NewAct, x

LEMMA SameIssued ==
  ASSUME IssuedOK, UNCHANGED issued PROVE IssuedOK'
BY DEF IssuedOK

\* A POST takes one free slot.
LEMMA PostTakes ==
  ASSUME NEW srv, NEW a, NEW by, Post(srv, a, by)
  PROVE  \E s \in Slots :
            /\ request[s].at = "free"
            /\ request' = [request EXCEPT ![s] =
                             [at |-> "check", srv |-> srv, act |-> a, by |-> by]]
<1> DEFINE z == CHOOSE s \in Slots : request[s].at = "free"
<1>1. z \in Slots /\ request[z].at = "free"
  BY DEF Post
<1>2. request' = [request EXCEPT ![z] = [at |-> "check", srv |-> srv, act |-> a, by |-> by]]
  BY DEF Post
<1> QED BY <1>1, <1>2

\* A POST no worker waits for.
LEMMA PeerPost ==
  ASSUME RequestOK, NEW a \in Acts, Post(Origin, a, None), UNCHANGED worker
  PROVE  RequestOK'
<1>1. PICK z \in Slots : request[z].at = "free" /\ request' = [request EXCEPT ![z] =
                             [at |-> "check", srv |-> Origin, act |-> a, by |-> None]]
  BY PostTakes
<1> DEFINE x == [at |-> "check", srv |-> Origin, act |-> a, by |-> None]
<1>2. x \in [at : {"free", "check", "store"}, srv : Servers \cup {None},
             act : 0 .. MaxActs, by : Workers \cup {None}]
  BY ServersFact, NumbersFact
<1>3. \A s \in Slots : request'[s] = IF s = z THEN x ELSE request[s]
  BY <1>1 DEF RequestOK
<1>4. request' \in [Slots -> [at : {"free", "check", "store"}, srv : Servers \cup {None},
                              act : 0 .. MaxActs, by : Workers \cup {None}]]
  BY <1>1, <1>2 DEF RequestOK
<1>5. x.at = "check" /\ x.srv = Origin /\ x.act = a /\ x.by = None
  OBVIOUS
<1> HIDE DEF x
<1>6. \A s \in Slots :
         /\ request'[s].at # "free" => request'[s].srv \in Servers /\ request'[s].act \in Acts
         /\ request'[s].by \in Workers => s # z
  BY <1>3, <1>5, ServersFact DEF RequestOK
<1>7. \A s \in Slots : request'[s].by \in Workers =>
         /\ request'[s].at # "free"
         /\ worker'[request'[s].by].at = "wait"
         /\ worker'[request'[s].by].job.id = <<request'[s].act, request'[s].srv>>
  BY <1>3, <1>6 DEF RequestOK
<1>8. \A s, y \in Slots : request'[s].by = request'[y].by /\ request'[s].by \in Workers => s = y
  BY <1>3, <1>6 DEF RequestOK
<1> QED BY <1>4, <1>6, <1>7, <1>8 DEF RequestOK

\* The answer ends the POST; only the worker that waits for it goes on.
LEMMA AnswerFrees ==
  ASSUME WorkerOK, RequestOK, HistoryOK, NEW s \in Slots, NEW good \in BOOLEAN,
         request[s].at # "free", Answer(s, good)
  PROVE  /\ WorkerOK' /\ RequestOK' /\ HistoryOK'
         /\ request' = [request EXCEPT ![s] = FreeSlot]
         /\ \A w \in Workers : /\ worker'[w].job = worker[w].job
                               /\ worker'[w].batch = worker[w].batch
                               /\ worker'[w].at = IF w = request[s].by
                                                    THEN IF good THEN "ok" ELSE "err"
                                                    ELSE worker[w].at
         /\ history' = [history EXCEPT !.acked =
                          IF good /\ request[s].by \in Workers
                            THEN @ \cup {<<request[s].act, request[s].srv>>} ELSE @]
<1> DEFINE b == request[s].by
           k == <<request[s].act, request[s].srv>>
           at == IF good THEN "ok" ELSE "err"
<1>1. request' = [request EXCEPT ![s] = FreeSlot]
  BY DEF Answer
<1>2. \A z \in Slots : request'[z] = IF z = s THEN FreeSlot ELSE request[z]
  BY <1>1 DEF RequestOK
<1>3. request' \in [Slots -> [at : {"free", "check", "store"}, srv : Servers \cup {None},
                              act : 0 .. MaxActs, by : Workers \cup {None}]]
  BY <1>1, NumbersFact DEF RequestOK, FreeSlot
<1>4. CASE b \in Workers
  <2>1. worker' = [worker EXCEPT ![b] = [worker[b] EXCEPT !.at = at]]
    BY <1>4 DEF Answer, WorkerOK
  <2>2. worker[b].at = "wait" /\ worker[b].job.id = k /\ worker[b].job # None
    BY <1>4 DEF RequestOK, WorkerOK
  <2>3. k \in JobIds
    BY <2>2, <1>4 DEF WorkerOK, WorkJobs
  <2>4. history' = [history EXCEPT !.acked = IF good THEN @ \cup {k} ELSE @]
    BY <1>4 DEF Answer
  <2>5. HistoryOK'
    BY <2>3, <2>4 DEF HistoryOK, HistoryRecs
  <2>6. \A w \in Workers : worker'[w] = IF w = b THEN [worker[b] EXCEPT !.at = at] ELSE worker[w]
    BY <2>1 DEF WorkerOK
  <2>7. \A w \in Workers : /\ worker'[w].job = worker[w].job
                           /\ worker'[w].batch = worker[w].batch
                           /\ worker'[w].at = IF w = b THEN at ELSE worker[w].at
    BY <2>6 DEF WorkerOK
  <2>8. at \in {"ok", "err"}
    OBVIOUS
  <2>9. worker' \in [Workers -> [at : {"idle", "next", "wait", "ok", "err"},
                                 batch : SUBSET WorkJobs, job : WorkJobs \cup {None}]]
    <3> HIDE DEF at, b
    <3> QED BY <1>4, <2>1, <2>8 DEF WorkerOK
  <2>10. WorkerOK'
    <3> HIDE DEF at, b
    <3> QED BY <2>2, <2>7, <2>8, <2>9 DEF WorkerOK
  <2>11. RequestOK'
    <3>1. FreeSlot.at = "free" /\ FreeSlot.by \notin Workers
      BY ServersFact DEF FreeSlot
    <3>2. \A z \in Slots : request'[z].at # "free" \/ request'[z].by \in Workers =>
                            z # s /\ request'[z] = request[z]
      BY <1>2, <3>1
    <3>3. \A z \in Slots : request'[z].by \in Workers =>
                            request'[z].by # b /\ worker'[request'[z].by].at = worker[request'[z].by].at
      <4> HIDE DEF at
      <4> QED BY <2>7, <3>2, <1>4 DEF RequestOK
    <3>4. \A z \in Slots : request'[z].at # "free" =>
                            request'[z].srv \in Servers /\ request'[z].act \in Acts
      BY <3>2 DEF RequestOK
    <3>5. \A z \in Slots : request'[z].by \in Workers =>
             /\ request'[z].at # "free"
             /\ worker'[request'[z].by].at = "wait"
             /\ worker'[request'[z].by].job.id = <<request'[z].act, request'[z].srv>>
      <4> SUFFICES ASSUME NEW z \in Slots, request'[z].by \in Workers
                   PROVE  /\ request'[z].at # "free"
                          /\ worker'[request'[z].by].at = "wait"
                          /\ worker'[request'[z].by].job.id = <<request'[z].act, request'[z].srv>>
        OBVIOUS
      <4>1. request'[z] = request[z]
        BY <3>2
      <4>2. /\ worker'[request[z].by].at = worker[request[z].by].at
            /\ worker'[request[z].by].job = worker[request[z].by].job
        BY <2>7, <3>3, <4>1
      <4> QED BY <4>1, <4>2 DEF RequestOK
    <3>6. \A z, y \in Slots : request'[z].by = request'[y].by /\ request'[z].by \in Workers => z = y
      BY <3>2 DEF RequestOK
    <3> HIDE DEF at
    <3> QED BY <1>3, <3>4, <3>5, <3>6 DEF RequestOK
  <2> QED BY <1>1, <1>4, <2>4, <2>5, <2>7, <2>10, <2>11
<1>5. CASE b \notin Workers
  <2>1. UNCHANGED <<worker, history>>
    BY <1>5 DEF Answer
  <2>2. RequestOK'
    BY <1>2, <1>3, <2>1, ServersFact DEF RequestOK, FreeSlot
  <2>3. WorkerOK' /\ HistoryOK'
    BY <2>1 DEF WorkerOK, HistoryOK, HistoryRecs
  <2>4. history' = [history EXCEPT !.acked = @]
    BY <2>1 DEF HistoryOK, HistoryRecs
  <2> QED BY <1>1, <1>5, <2>1, <2>2, <2>3, <2>4
<1> QED BY <1>4, <1>5

\* The last of some activities.
LEMMA LastExists ==
  ASSUME NEW n \in Nat, NEW T \in SUBSET (1 .. n), T # {}
  PROVE  \E a \in T : \A b \in T : b <= a
<1> DEFINE M == {n - a : a \in T}
<1>1. M \subseteq Nat /\ M # {}
  <2>1. \A a \in T : n - a \in Nat
    OBVIOUS
  <2>2. M \subseteq Nat
    BY <2>1
  <2> QED BY <2>2
<1>2. PICK m \in M : \A y \in M : m <= y
  <2> HIDE DEF M
  <2> QED BY <1>1, LeastNat
<1>3. PICK a \in T : m = n - a
  OBVIOUS
<1>4. \A b \in T : n - a <= n - b
  BY <1>2, <1>3
<1> HIDE DEF M
<1>5. \A b \in T : b \in Int /\ a \in Int
  OBVIOUS
<1>6. \A b \in T : b <= a
  BY <1>4, <1>5
<1> QED BY <1>6
-----------------------------------------------------------------------------
(* Every step keeps the types. *)

LEMMA SameOK ==
  /\ VideoOK /\ UNCHANGED video => VideoOK'
  /\ EditOK /\ UNCHANGED edit => EditOK'
  /\ IssuedOK /\ UNCHANGED issued => IssuedOK'
  /\ TableOK /\ UNCHANGED table => TableOK'
  /\ HandlerOK /\ UNCHANGED handler => HandlerOK'
  /\ JobsOK /\ UNCHANGED jobs => JobsOK'
  /\ WorkerOK /\ UNCHANGED worker => WorkerOK'
  /\ RequestOK /\ UNCHANGED <<worker, request>> => RequestOK'
  /\ FollowsOK /\ UNCHANGED follows => FollowsOK'
  /\ CatalogOK /\ UNCHANGED catalog => CatalogOK'
  /\ RulesOK /\ UNCHANGED rules => RulesOK'
  /\ HistoryOK /\ UNCHANGED history => HistoryOK'
  /\ UsedOK /\ UNCHANGED used => UsedOK' /\ UsedGrows
<1>1. RequestOK /\ UNCHANGED <<worker, request>> => RequestOK'
  BY DEF RequestOK
<1>2. WorkerOK /\ UNCHANGED worker => WorkerOK'
  BY DEF WorkerOK
<1>3. EditOK /\ UNCHANGED edit => EditOK'
  BY DEF EditOK
<1>4. JobsOK /\ UNCHANGED jobs => JobsOK'
  BY DEF JobsOK
<1> QED BY <1>1, <1>2, <1>3, <1>4, SameUsed, SameIssued
        DEF VideoOK, TableOK, HandlerOK, FollowsOK, CatalogOK, RulesOK, HistoryOK, HistoryRecs

\* What may be noted of a step.
LEMMA HistoryKept ==
  ASSUME HistoryOK
  PROVE  /\ \A x \in BOOLEAN : history' = [history EXCEPT !.lost = x] => HistoryOK'
         /\ \A x \in SUBSET JobIds : history' = [history EXCEPT !.orphaned = x] => HistoryOK'
         /\ \A x \in SUBSET (Servers \X Acts) :
               history' = [history EXCEPT !.unmarked = x] => HistoryOK'
         /\ \A p \in Peers, x \in SUBSET Acts :
               history' = [history EXCEPT !.admitted[p] = x] => HistoryOK'
BY DEF HistoryOK, HistoryRecs

EditRecs == [at : {"new", "update", "Create", "Update", "Delete", "queue", "done"},
             prev : Visibilities \cup {None}, new : Visibilities \cup {None},
             act : 0 .. MaxActs, todo : Seq(Peers)]

\* What one edit's new place has to be.
LEMMA EditKept ==
  ASSUME EditOK, NEW e \in Editors, NEW x \in EditRecs,
         x.at = "queue" => x.act \in Acts /\ x.todo # <<>>,
         x.at = "update" => x.prev \in Visibilities,
         edit' = [edit EXCEPT ![e] = x]
  PROVE  EditOK'
BY DEF EditOK, EditRecs

LEMMA DoneEditIsDone ==
  /\ DoneEdit \in EditRecs /\ DoneEdit.at = "done"
  /\ \A at \in {"new", "update", "Create", "Update", "Delete", "queue", "done"} :
        /\ [IdleEdit EXCEPT !.at = at] \in EditRecs
        /\ [IdleEdit EXCEPT !.at = at].at = at
<1>1. 0 \in 0 .. MaxActs /\ <<>> \in Seq(Peers)
  BY NumbersFact
<1> QED BY <1>1 DEF DoneEdit, IdleEdit, EditRecs

LEMMA EditReadTypes ==
  ASSUME FedTypes, NEW e \in Editors, EditRead(e)
  PROVE  FedTypes' /\ UsedGrows
<1>1. PICK new \in {"public", "local_only", None}, prev \in {video.vis, "local_only"} :
         /\ edit' = [edit EXCEPT ![e].at = "update", ![e].prev = prev, ![e].new = new]
         /\ Event("requests") \/ Failed
  BY DEF EditRead
<1>2. edit' = [edit EXCEPT ![e] = [edit[e] EXCEPT !.at = "update", !.prev = prev,
                                                  !.new = new]]
  BY <1>1 DEF FedTypes, EditOK
<1> DEFINE x == [edit[e] EXCEPT !.at = "update", !.prev = prev, !.new = new]
<1>3. prev \in Visibilities /\ edit[e] \in EditRecs
  BY DEF FedTypes, VideoOK, EditOK, EditRecs, Visibilities
<1>4. x \in EditRecs /\ x.at = "update" /\ x.prev \in Visibilities
  BY <1>3 DEF EditRecs, Visibilities
<1>5. EditOK'
  <2> HIDE DEF x
  <2> QED BY <1>2, <1>4, EditKept DEF x, FedTypes
<1>6. HistoryOK'
  <2> DEFINE t == history.tangled \/ Overlaps(e)
  <2>1. t \in BOOLEAN
    OBVIOUS
  <2>2. history' = [history EXCEPT !.tangled = t]
    BY DEF EditRead
  <2> HIDE DEF t
  <2> QED BY <2>1, <2>2 DEF FedTypes, HistoryOK, HistoryRecs
<1>7. UsedOK' /\ UsedGrows
  BY <1>1, RequestUsed, FailedUsed DEF FedTypes
<1>8. UNCHANGED <<video, issued, table, handler, jobs, worker, request, follows, catalog, rules>>
  BY DEF EditRead
<1> QED BY <1>5, <1>6, <1>7, <1>8, SameOK DEF FedTypes

LEMMA EditUpdateTypes ==
  ASSUME FedTypes, NEW e \in Editors, EditUpdate(e)
  PROVE  FedTypes' /\ UsedGrows
<1> DEFINE new == IF edit[e].new = None THEN video.vis ELSE edit[e].new
           eff == IF edit[e].new = None THEN edit[e].prev ELSE edit[e].new
           at == Publication(edit[e].prev = "public", eff = "public")
           lost == history.lost \/ (at = "done" /\ "public" \in {video.vis, new})
<1>1. UNCHANGED <<issued, table, handler, jobs, worker, request, follows, catalog, rules>>
  BY DEF EditUpdate
<1>2. CASE /\ video' = [video EXCEPT !.vis = new, !.ver = @ + 1]
           /\ edit' = [edit EXCEPT ![e] = [IdleEdit EXCEPT !.at = at]]
           /\ history' = [history EXCEPT !.lost = lost]
           /\ UNCHANGED used
  <2>1. new \in Visibilities
    BY DEF FedTypes, VideoOK, EditOK
  <2>2. VideoOK'
    <3> HIDE DEF new
    <3>1. video' = [vis |-> new, ver |-> video.ver + 1, uri |-> video.uri]
      BY <1>2 DEF FedTypes, VideoOK
    <3> QED BY <2>1, <3>1 DEF FedTypes, VideoOK
  <2>3. at \in {"Create", "Update", "Delete", "done"}
    BY DEF Publication
  <2>4. EditOK'
    <3> HIDE DEF at
    <3> DEFINE x == [IdleEdit EXCEPT !.at = at]
    <3>1. x \in EditRecs /\ x.at # "queue" /\ x.at # "update"
      BY <2>3, DoneEditIsDone
    <3>2. edit' = [edit EXCEPT ![e] = x]
      BY <1>2
    <3> HIDE DEF x
    <3> QED BY <3>1, <3>2, EditKept DEF FedTypes
  <2>5. HistoryOK'
    <3>1. lost \in BOOLEAN
      BY DEF FedTypes, HistoryOK, HistoryRecs
    <3> HIDE DEF lost
    <3> QED BY <1>2, <3>1, HistoryKept DEF FedTypes
  <2> QED BY <1>1, <1>2, <2>2, <2>4, <2>5, SameOK DEF FedTypes
<1>3. CASE Failed /\ edit' = [edit EXCEPT ![e] = DoneEdit] /\ UNCHANGED <<video, history>>
  <2>1. EditOK'
    BY <1>3, EditKept, DoneEditIsDone DEF FedTypes
  <2>2. UsedOK' /\ UsedGrows
    BY <1>3, FailedUsed DEF FedTypes
  <2> QED BY <1>1, <1>3, <2>1, <2>2, SameOK DEF FedTypes
<1> QED BY <1>2, <1>3 DEF EditUpdate

\* The list of inboxes is a sequence of peers.
LEMMA InboxesAreSeq ==
  ASSUME NEW S \in SUBSET Peers, NEW todo \in SetToSeqs(S)
  PROVE  todo \in Seq(Peers)
<1>1. IsFiniteSet(S)
  BY FS_Subset, FederationAssumption
<1>2. Cardinality(S) \in Nat
  BY <1>1, FS_CardinalityType
<1>3. todo \in [1 .. Cardinality(S) -> S]
  BY DEF SetToSeqs
<1>4. todo \in [1 .. Cardinality(S) -> Peers]
  BY <1>3
<1> QED BY <1>2, <1>4, SeqDef

LEMMA PublishTypes ==
  ASSUME FedTypes, NEW e \in Editors, Publish(e)
  PROVE  FedTypes' /\ UsedGrows
<1>1. VideoOK'
  <2> DEFINE t == video.uri \/ edit[e].at = "Create"
  <2>1. t \in BOOLEAN
    OBVIOUS
  <2>2. video' = [video EXCEPT !.uri = t]
    BY DEF Publish
  <2> HIDE DEF t
  <2> QED BY <2>1, <2>2 DEF FedTypes, VideoOK
<1>2. edit[e].at \in ActTypes /\ video.ver \in Nat /\ Origin \in Servers
  BY ServersFact DEF Publish, FedTypes, VideoOK, ActTypes
<1>3. IssuedOK'
  <2>1. CASE HasObject(edit[e].at)
    <3>1. Issue(edit[e].at, Origin, video.ver)
      BY <2>1 DEF Publish
    <3> QED BY <1>2, <3>1, IssueAppends DEF FedTypes
  <2>2. CASE ~HasObject(edit[e].at)
    BY <2>2, SameIssued DEF Publish, FedTypes
  <2> QED BY <2>1, <2>2
<1>4. EditOK'
  <2>1. CASE edit' = [edit EXCEPT ![e] = DoneEdit]
    BY <2>1, EditKept, DoneEditIsDone DEF FedTypes
  <2>2. CASE edit' # [edit EXCEPT ![e] = DoneEdit]
    <3>1. HasObject(edit[e].at)
      BY <2>2 DEF Publish
    <3>2. PICK todo \in SetToSeqs({p \in Peers : follows[p].st = "accepted"}) :
             edit' = [edit EXCEPT ![e] = IF todo = <<>> THEN DoneEdit
                                         ELSE [IdleEdit EXCEPT !.at = "queue", !.act = NewAct,
                                                               !.todo = todo]]
      BY <3>1 DEF Publish
    <3>3. todo # <<>>
      BY <2>2, <3>2
    <3>4. todo \in Seq(Peers)
      BY InboxesAreSeq
    <3>5. NewAct \in Acts
      BY <1>2, <3>1, IssueAppends DEF Publish, FedTypes
    <3> DEFINE x == [IdleEdit EXCEPT !.at = "queue", !.act = NewAct, !.todo = todo]
    <3>6. IdleEdit \in EditRecs /\ NewAct \in 0 .. MaxActs
      BY <3>5, NumbersFact DEF IdleEdit, EditRecs
    <3>7. x \in EditRecs /\ x.at = "queue" /\ x.act \in Acts /\ x.todo # <<>>
      <4> HIDE DEF NewAct
      <4> QED BY <3>3, <3>4, <3>5, <3>6 DEF EditRecs
    <3>8. edit' = [edit EXCEPT ![e] = x]
      BY <3>2, <3>3
    <3> HIDE DEF x
    <3> QED BY <3>7, <3>8, EditKept DEF FedTypes
  <2> QED BY <2>1, <2>2
<1>5. UNCHANGED <<table, handler, jobs, worker, request, follows, catalog, rules, used>>
  BY DEF Publish
<1>6. HistoryOK'
  <2> DEFINE some == \E a \in 1 .. Len(issued) : IsVideoAct(a)
  <2>1. \/ history' = [history EXCEPT !.lost = FALSE]
        \/ history' = [history EXCEPT !.lost = some]
    BY DEF Publish
  <2>2. some \in BOOLEAN
    OBVIOUS
  <2> HIDE DEF some
  <2> QED BY <2>1, <2>2, HistoryKept DEF FedTypes
<1> QED BY <1>1, <1>3, <1>4, <1>5, <1>6, SameOK DEF FedTypes

LEMMA PublishFailsTypes ==
  ASSUME FedTypes, NEW e \in Editors, PublishFails(e)
  PROVE  FedTypes' /\ UsedGrows
<1>1. /\ UNCHANGED <<issued, table, handler, jobs, worker, request, follows, catalog, rules>>
      /\ Failed /\ edit' = [edit EXCEPT ![e] = DoneEdit]
      /\ history' = [history EXCEPT !.lost = TRUE]
  BY DEF PublishFails
<1>2. VideoOK'
  <2>1. PICK t \in BOOLEAN : video' = [video EXCEPT !.uri = t]
    <3>1. PICK named \in {FALSE, edit[e].at = "Create"} :
             video' = [video EXCEPT !.uri = @ \/ named]
      BY DEF PublishFails
    <3> DEFINE t == video.uri \/ named
    <3>2. t \in BOOLEAN
      OBVIOUS
    <3>3. video' = [video EXCEPT !.uri = t]
      BY <3>1
    <3> QED BY <3>2, <3>3
  <2> QED BY <2>1 DEF FedTypes, VideoOK
<1>3. EditOK'
  BY <1>1, EditKept, DoneEditIsDone DEF FedTypes
<1>4. HistoryOK'
  BY <1>1, HistoryKept DEF FedTypes
<1>5. UsedOK' /\ UsedGrows
  BY <1>1, FailedUsed DEF FedTypes
<1> QED BY <1>1, <1>2, <1>3, <1>4, <1>5, SameOK DEF FedTypes

LEMMA QueueOutboundTypes ==
  ASSUME TableOK, JobsOK, NEW a, NEW p, QueueOutbound(a, p)
  PROVE  TableOK' /\ JobsOK'
<1>1. table' = [table EXCEPT ![Origin] = [table[Origin] EXCEPT ![a] = "pending"]]
  BY ServersFact DEF QueueOutbound, TableOK
<1>2. TableOK'
  BY <1>1, ServersFact DEF TableOK
<1>3. JobsOK'
  <2> DEFINE x == [st |-> "queued", tries |-> 0]
  <2>1. /\ x \in [st : {"absent", "queued", "processing", "delivered", "failed"},
                  tries : 0 .. MaxAttempts]
        /\ x.tries < MaxAttempts
    BY NumbersFact
  <2>2. jobs' = [jobs EXCEPT ![<<a, p>>] = x]
    BY DEF QueueOutbound
  <2> HIDE DEF x
  <2> QED BY <2>1, <2>2 DEF JobsOK
<1> QED BY <1>2, <1>3

LEMMA QueueOutboundFailsTypes ==
  ASSUME TableOK, JobsOK, UsedOK, NEW a, QueueOutboundFails(a)
  PROVE  TableOK' /\ JobsOK' /\ UsedOK' /\ UsedGrows
<1>1. TableOK'
  <2>1. CASE UNCHANGED table
    BY <2>1, SameOK
  <2>2. CASE table' = [table EXCEPT ![Origin][a] = "pending"]
    BY <2>2, ServersFact DEF TableOK
  <2> QED BY <2>1, <2>2 DEF QueueOutboundFails
<1>2. UsedOK' /\ UsedGrows
  BY FailedUsed, SameUsed DEF QueueOutboundFails
<1> QED BY <1>1, <1>2, SameOK DEF QueueOutboundFails

LEMMA BroadcastTypes ==
  ASSUME FedTypes, NEW e \in Editors, Broadcast(e)
  PROVE  FedTypes' /\ UsedGrows
<1>1. UNCHANGED <<video, issued, handler, worker, request, follows, catalog, rules, history>>
      /\ edit[e].at = "queue"
  BY DEF Broadcast
<1>2. CASE /\ QueueOutbound(edit[e].act, Head(edit[e].todo))
           /\ edit' = [edit EXCEPT ![e] = IF Len(@.todo) = 1 THEN DoneEdit
                                          ELSE [edit[e] EXCEPT !.todo = Tail(@)]]
           /\ UNCHANGED used
  <2>1. TableOK' /\ JobsOK'
    BY <1>2, QueueOutboundTypes DEF FedTypes
  <2>2. EditOK'
    <3>1. CASE Len(edit[e].todo) = 1
      BY <1>2, <3>1, EditKept, DoneEditIsDone DEF FedTypes
    <3>2. CASE Len(edit[e].todo) # 1
      <4> DEFINE q == edit[e].todo
                 x == [edit[e] EXCEPT !.todo = Tail(q)]
      <4>1. edit[e] \in EditRecs /\ q \in Seq(Peers) /\ q # <<>> /\ edit[e].act \in Acts
        BY <1>1 DEF FedTypes, EditOK, EditRecs
      <4>2. Tail(q) \in Seq(Peers) /\ Len(Tail(q)) = Len(q) - 1 /\ Len(q) \in Nat /\ Len(q) # 0
        BY <4>1
      <4>3. Tail(q) # <<>>
        <5>1. Len(Tail(q)) # 0
          BY <4>2, <3>2
        <5>2. Len(<<>>) = 0
          OBVIOUS
        <5> HIDE DEF q
        <5> QED BY <5>1, <5>2
      <4>4. x \in EditRecs /\ x.at = "queue" /\ x.act \in Acts /\ x.todo # <<>>
        BY <1>1, <4>1, <4>2, <4>3 DEF EditRecs
      <4>5. edit' = [edit EXCEPT ![e] = x]
        BY <1>2, <3>2
      <4> HIDE DEF x
      <4> QED BY <4>4, <4>5, EditKept DEF FedTypes
    <3> QED BY <3>1, <3>2
  <2> QED BY <1>1, <1>2, <2>1, <2>2, SameOK DEF FedTypes
<1>3. CASE QueueOutboundFails(edit[e].act) /\ edit' = [edit EXCEPT ![e] = DoneEdit]
  <2>1. EditOK'
    BY <1>3, EditKept, DoneEditIsDone DEF FedTypes
  <2>2. TableOK' /\ JobsOK' /\ UsedOK' /\ UsedGrows
    BY <1>3, QueueOutboundFailsTypes DEF FedTypes
  <2> QED BY <1>1, <2>1, <2>2, SameOK DEF FedTypes
<1> QED BY <1>2, <1>3 DEF Broadcast

WorkerRecs == [at : {"idle", "next", "wait", "ok", "err"},
               batch : SUBSET WorkJobs, job : WorkJobs \cup {None}]

GoodWorker(x) ==
    /\ x \in WorkerRecs
    /\ x.at \in {"idle", "next"} <=> x.job = None
    /\ x.at = "idle" => x.batch = {}
    /\ IsFiniteSet(x.batch) /\ Cardinality(x.batch) <= BatchSize
    /\ \A i, j \in x.batch : i.id = j.id => i = j

LEMMA WorkersAreGood ==
  /\ WorkerOK <=> worker \in [Workers -> WorkerRecs] /\ \A w \in Workers : GoodWorker(worker[w])
  /\ WorkerOK' <=> worker' \in [Workers -> WorkerRecs] /\ \A w \in Workers : GoodWorker(worker'[w])
BY DEF WorkerOK, GoodWorker, WorkerRecs

LEMMA WorkerKept ==
  ASSUME WorkerOK, NEW w \in Workers, NEW x, GoodWorker(x), worker' = [worker EXCEPT ![w] = x]
  PROVE  WorkerOK' /\ worker'[w] = x /\ \A v \in Workers : v # w => worker'[v] = worker[v]
<1>1. worker \in [Workers -> WorkerRecs] /\ \A v \in Workers : GoodWorker(worker[v])
  BY WorkersAreGood
<1>2. x \in WorkerRecs
  BY DEF GoodWorker
<1>3. /\ worker' \in [Workers -> WorkerRecs]
      /\ worker'[w] = x /\ \A v \in Workers : v # w => worker'[v] = worker[v]
  BY <1>1, <1>2
<1> QED BY <1>1, <1>3, WorkersAreGood

LEMMA IdleIsGood == GoodWorker(IdleWorker)
<1>1. IsFiniteSet({}) /\ Cardinality({}) = 0
  BY FS_EmptySet
<1>2. IdleWorker.batch = {} /\ IdleWorker.job = None /\ IdleWorker.at = "idle"
      /\ IdleWorker \in WorkerRecs
  BY DEF IdleWorker, WorkerRecs
<1> QED BY <1>1, <1>2, NumbersFact DEF GoodWorker

\* A smaller batch is still a batch.
LEMMA SmallerBatch ==
  ASSUME NEW B, IsFiniteSet(B), Cardinality(B) <= BatchSize, NEW C \in SUBSET B
  PROVE  IsFiniteSet(C) /\ Cardinality(C) <= BatchSize
<1>1. IsFiniteSet(C) /\ Cardinality(C) <= Cardinality(B)
  BY FS_Subset
<1>2. Cardinality(C) \in Nat /\ Cardinality(B) \in Nat
  BY <1>1, FS_CardinalityType
<1> QED BY <1>1, <1>2, NumbersFact

\* The worker goes on with the rest of its batch.
LEMMA RestIsGood ==
  ASSUME NEW x, GoodWorker(x), NEW B \in SUBSET x.batch, NEW y \in WorkerRecs, y.batch = B
  PROVE  /\ GoodWorker(Rest(y)) /\ Rest(y).batch = B /\ Rest(y).job = None
         /\ Rest(y).at \in {"idle", "next"}
<1>1. IsFiniteSet(B) /\ Cardinality(B) <= BatchSize
  BY SmallerBatch DEF GoodWorker
<1>2. CASE B = {}
  <2>1. Rest(y) = IdleWorker
    BY <1>2 DEF Rest
  <2> QED BY <1>2, <2>1, IdleIsGood DEF IdleWorker
<1>3. CASE B # {}
  <2> DEFINE z == [y EXCEPT !.at = "next", !.job = None]
  <2>1. Rest(y) = z
    BY <1>3 DEF Rest
  <2>2. z \in WorkerRecs /\ z.at = "next" /\ z.job = None /\ z.batch = B
    BY DEF WorkerRecs
  <2>3. \A i, j \in B : i.id = j.id => i = j
    BY DEF GoodWorker
  <2> HIDE DEF z
  <2> QED BY <1>1, <2>1, <2>2, <2>3 DEF GoodWorker
<1> QED BY <1>2, <1>3

\* No POST waits for a worker that does not wait.
LEMMA RequestsKept ==
  ASSUME WorkerOK, RequestOK, NEW w \in Workers, worker[w].at # "wait", NEW x,
         worker' = [worker EXCEPT ![w] = x], UNCHANGED request
  PROVE  RequestOK'
<1>1. \A s \in Slots : request[s].by # w
  BY DEF RequestOK
<1>2. \A v \in Workers : v # w => worker'[v] = worker[v]
  BY DEF WorkerOK
<1>3. \A s \in Slots : request[s].by \in Workers => worker'[request[s].by] = worker[request[s].by]
  BY <1>1, <1>2
<1> QED BY SMTT(30), <1>3 DEF RequestOK

LEMMA SelectTypes ==
  ASSUME FedTypes, NEW w \in Workers, SelectDueJobs(w)
  PROVE  FedTypes' /\ UsedGrows
<1>1. PICK ids \in SUBSET {k \in JobIds : jobs[k].st = "queued"} :
         /\ Cardinality(ids) <= BatchSize
         /\ worker' = [worker EXCEPT ![w] =
                         [at |-> "next", job |-> None,
                          batch |-> {[id |-> k, tries |-> jobs[k].tries] : k \in ids}]]
         /\ history' = [history EXCEPT !.raced =
                           @ \cup {k \in ids : \E x \in Workers \ {w} : k \in Held(x)}]
  BY DEF SelectDueJobs
<1> DEFINE B == {[id |-> k, tries |-> jobs[k].tries] : k \in ids}
           x == [at |-> "next", job |-> None, batch |-> B]
<1>2. B \subseteq WorkJobs
  <2> SUFFICES ASSUME NEW k \in ids PROVE [id |-> k, tries |-> jobs[k].tries] \in WorkJobs
    OBVIOUS
  <2>1. k \in JobIds /\ jobs[k].tries \in 0 .. MaxAttempts /\ jobs[k].tries < MaxAttempts
    BY DEF FedTypes, JobsOK
  <2>2. jobs[k].tries \in 0 .. MaxAttempts - 1
    BY <2>1, NumbersFact
  <2> QED BY <2>1, <2>2 DEF WorkJobs
<1>3. IsFiniteSet(B) /\ Cardinality(B) <= BatchSize
  <2>1. IsFiniteSet(ids)
    BY JobIdsFinite, FS_Subset
  <2> DEFINE f == [k \in ids |-> [id |-> k, tries |-> jobs[k].tries]]
  <2>2. f \in Surjection(ids, B)
    BY DEF Surjection
  <2>3. IsFiniteSet(B) /\ Cardinality(B) <= Cardinality(ids)
    <3> HIDE DEF B, f
    <3> QED BY <2>1, <2>2, FS_Surjection
  <2>4. Cardinality(B) \in Nat /\ Cardinality(ids) \in Nat
    <3> HIDE DEF B
    <3> QED BY <2>1, <2>3, FS_CardinalityType
  <2> HIDE DEF B
  <2> QED BY <1>1, <2>3, <2>4, NumbersFact
<1>4. \A i, j \in B : i.id = j.id => i = j
  OBVIOUS
<1>5. GoodWorker(x)
  <2>1. x \in WorkerRecs /\ x.at = "next" /\ x.job = None /\ x.batch = B
    BY <1>2 DEF WorkerRecs
  <2> HIDE DEF x, B
  <2> QED BY <1>3, <1>4, <2>1 DEF GoodWorker
<1>6. worker' = [worker EXCEPT ![w] = x]
  BY <1>1
<1>7. worker[w].at = "idle"
  BY DEF SelectDueJobs
<1>8. WorkerOK' /\ UNCHANGED request
  <2> HIDE DEF x
  <2> QED BY <1>5, <1>6, WorkerKept DEF FedTypes, SelectDueJobs
<1>9. RequestOK'
  <2> HIDE DEF x
  <2> QED BY <1>6, <1>7, <1>8, RequestsKept DEF FedTypes
<1>10. HistoryOK'
  <2> DEFINE R == {k \in ids : \E y \in Workers \ {w} : k \in Held(y)}
  <2>1. R \subseteq JobIds
    OBVIOUS
  <2>2. history' = [history EXCEPT !.raced = @ \cup R]
    BY <1>1
  <2> HIDE DEF R
  <2> QED BY <2>1, <2>2 DEF FedTypes, HistoryOK, HistoryRecs
<1>11. UsedOK' /\ UsedGrows
  <2>1. UNCHANGED used \/ Event("requests")
    BY DEF SelectDueJobs
  <2> QED BY <2>1, RequestUsed, SameUsed DEF FedTypes
<1>12. UNCHANGED <<video, edit, issued, table, handler, jobs, follows, catalog, rules>>
  BY DEF SelectDueJobs
<1> QED BY <1>8, <1>9, <1>10, <1>11, <1>12, SameOK DEF FedTypes

\* A status other than queued keeps the table's types.
LEMMA JobMarked ==
  ASSUME JobsOK, NEW k, NEW st \in {"processing", "delivered", "failed"},
         jobs' = [jobs EXCEPT ![k].st = st]
  PROVE  JobsOK'
<1>1. CASE k \in JobIds
  <2>1. jobs' = [jobs EXCEPT ![k] = [jobs[k] EXCEPT !.st = st]]
    BY <1>1 DEF JobsOK
  <2>2. [jobs[k] EXCEPT !.st = st] \in [st : {"absent", "queued", "processing", "delivered",
                                              "failed"}, tries : 0 .. MaxAttempts]
        /\ [jobs[k] EXCEPT !.st = st].st = st
    BY <1>1 DEF JobsOK
  <2> QED BY <1>1, <2>1, <2>2 DEF JobsOK
<1>2. CASE k \notin JobIds
  <2>1. jobs' = jobs
    BY <1>2 DEF JobsOK
  <2> QED BY <2>1, SameOK
<1> QED BY <1>1, <1>2

LEMMA SkipTypes ==
  ASSUME FedTypes, NEW w \in Workers, SkipBlocked(w)
  PROVE  FedTypes' /\ UsedGrows
<1>1. /\ UNCHANGED <<video, edit, issued, table, handler, request, follows, catalog, rules, history>>
      /\ worker[w].at = "next"
  BY DEF SkipBlocked
<1>2. GoodWorker(worker[w])
  BY WorkersAreGood DEF FedTypes
<1>3. ASSUME NEW j \in worker[w].batch,
             jobs' = [jobs EXCEPT ![j.id].st = "failed"],
             worker' = [worker EXCEPT ![w] = Rest([worker[w] EXCEPT !.batch = @ \ {j}])],
             UNCHANGED used
      PROVE  FedTypes' /\ UsedGrows
  <2> DEFINE y == [worker[w] EXCEPT !.batch = @ \ {j}]
             B == worker[w].batch \ {j}
  <2>1. y \in WorkerRecs /\ y.batch = B /\ B \in SUBSET worker[w].batch
    BY <1>2 DEF GoodWorker, WorkerRecs
  <2>2. GoodWorker(Rest(y)) /\ worker' = [worker EXCEPT ![w] = Rest(y)]
    <3> HIDE DEF y
    <3>1. GoodWorker(Rest(y))
      BY <1>2, <2>1, RestIsGood
    <3> QED BY <1>3, <3>1 DEF y
  <2>3. WorkerOK' /\ RequestOK'
    <3> HIDE DEF y
    <3> QED BY <1>1, <2>2, WorkerKept, RequestsKept DEF FedTypes
  <2>4. JobsOK'
    BY <1>3, JobMarked DEF FedTypes
  <2> QED BY <1>1, <1>3, <2>3, <2>4, SameOK DEF FedTypes
<1>4. CASE Failed /\ worker' = [worker EXCEPT ![w] = IdleWorker] /\ UNCHANGED jobs
  <2>1. WorkerOK' /\ RequestOK'
    BY <1>1, <1>4, IdleIsGood, WorkerKept, RequestsKept DEF FedTypes
  <2>2. UsedOK' /\ UsedGrows
    BY <1>4, FailedUsed DEF FedTypes
  <2> QED BY <1>1, <1>4, <2>1, <2>2, SameOK DEF FedTypes
<1> QED BY <1>3, <1>4 DEF SkipBlocked

\* The worker claims job j of its batch.
Claims(w, j, at) ==
    /\ jobs' = [jobs EXCEPT ![j.id].st = "processing"]
    /\ worker' = [worker EXCEPT ![w] =
                    [at |-> at, job |-> j, batch |-> worker[w].batch \ {j}]]
    /\ history' = [history EXCEPT !.orphaned = @ \ {j.id}]

LEMMA ClaimTypes ==
  ASSUME FedTypes, NEW w \in Workers, NEW j \in worker[w].batch, NEW at \in {"wait", "err"},
         Claims(w, j, at)
  PROVE  /\ WorkerOK' /\ JobsOK' /\ HistoryOK'
         /\ worker'[w] = [at |-> at, job |-> j, batch |-> worker[w].batch \ {j}]
         /\ \A v \in Workers : v # w => worker'[v] = worker[v]
<1>1. GoodWorker(worker[w])
  BY WorkersAreGood DEF FedTypes
<1> DEFINE x == [at |-> at, job |-> j, batch |-> worker[w].batch \ {j}]
<1>2. j \in WorkJobs /\ worker[w].batch \in SUBSET WorkJobs
  BY <1>1 DEF GoodWorker, WorkerRecs
<1>3. x \in WorkerRecs /\ x.at = at /\ x.job = j /\ x.batch = worker[w].batch \ {j}
  BY <1>2 DEF WorkerRecs
<1>4. IsFiniteSet(x.batch) /\ Cardinality(x.batch) <= BatchSize
  BY <1>1, <1>3, SmallerBatch DEF GoodWorker
<1>5. GoodWorker(x)
  <2>1. x.job # None
    BY <1>2, <1>3, NoneIsNoJob
  <2> HIDE DEF x
  <2> QED BY <1>1, <1>3, <1>4, <2>1 DEF GoodWorker
<1>6. worker' = [worker EXCEPT ![w] = x]
  BY DEF Claims
<1>7. JobsOK'
  BY JobMarked DEF Claims, FedTypes
<1> HIDE DEF x
<1>8. WorkerOK' /\ worker'[w] = x /\ \A v \in Workers : v # w => worker'[v] = worker[v]
  BY <1>5, <1>6, WorkerKept DEF FedTypes
<1>9. HistoryOK'
  <2> DEFINE O == history.orphaned \ {j.id}
  <2>1. O \in SUBSET JobIds
    BY DEF FedTypes, HistoryOK, HistoryRecs
  <2>2. history' = [history EXCEPT !.orphaned = O]
    BY DEF Claims
  <2> HIDE DEF O
  <2> QED BY <2>1, <2>2, HistoryKept DEF FedTypes
<1> QED BY <1>7, <1>8, <1>9 DEF x

LEMMA ClaimedPost ==
  ASSUME FedTypes, NEW w \in Workers, NEW j \in worker[w].batch, worker[w].at = "next",
         Claims(w, j, "wait"), Post(j.id[2], j.id[1], w)
  PROVE  RequestOK'
<1>1. PICK z \in Slots : /\ request[z].at = "free"
                         /\ request' = [request EXCEPT ![z] =
                              [at |-> "check", srv |-> j.id[2], act |-> j.id[1], by |-> w]]
  BY PostTakes
<1> DEFINE x == [at |-> "check", srv |-> j.id[2], act |-> j.id[1], by |-> w]
<1>2. j.id[1] \in Acts /\ j.id[2] \in Servers /\ j.id = <<j.id[1], j.id[2]>>
  <2>1. j.id \in JobIds
    BY DEF FedTypes, WorkerOK, WorkJobs
  <2> QED BY <2>1, JobIdsFact, ServersFact
<1>3. x \in [at : {"free", "check", "store"}, srv : Servers \cup {None},
             act : 0 .. MaxActs, by : Workers \cup {None}]
  BY <1>2, NumbersFact
<1>4. /\ request' \in [Slots -> [at : {"free", "check", "store"}, srv : Servers \cup {None},
                                 act : 0 .. MaxActs, by : Workers \cup {None}]]
      /\ \A s \in Slots : request'[s] = IF s = z THEN x ELSE request[s]
  <2>1. request' = [request EXCEPT ![z] = x]
    BY <1>1
  <2> HIDE DEF x
  <2> QED BY <1>3, <2>1 DEF FedTypes, RequestOK
<1>5. x.at = "check" /\ x.srv = j.id[2] /\ x.act = j.id[1] /\ x.by = w
  OBVIOUS
<1> HIDE DEF x
<1>6. /\ worker'[w].at = "wait" /\ worker'[w].job = j
      /\ \A v \in Workers : v # w => worker'[v] = worker[v]
  <2>1. /\ worker'[w] = [at |-> "wait", job |-> j, batch |-> worker[w].batch \ {j}]
        /\ \A v \in Workers : v # w => worker'[v] = worker[v]
    BY ClaimTypes
  <2> QED BY <2>1
<1>7. \A s \in Slots : request[s].by # w
  BY DEF FedTypes, RequestOK
<1>8. \A s \in Slots : request'[s].at # "free" =>
                       request'[s].srv \in Servers /\ request'[s].act \in Acts
  BY <1>2, <1>4, <1>5 DEF FedTypes, RequestOK
<1>9. ASSUME NEW s \in Slots, request'[s].by \in Workers
      PROVE  /\ request'[s].at # "free"
             /\ worker'[request'[s].by].at = "wait"
             /\ worker'[request'[s].by].job.id = <<request'[s].act, request'[s].srv>>
  <2>1. CASE s = z
    <3>1. request'[s] = x
      BY <1>4, <2>1
    <3> QED BY <1>2, <1>5, <1>6, <3>1
  <2>2. CASE s # z
    <3>1. request'[s] = request[s]
      BY <1>4, <2>2
    <3>2. request[s].by \in Workers /\ worker'[request[s].by] = worker[request[s].by]
      BY <1>6, <1>7, <1>9, <3>1
    <3> QED BY <3>1, <3>2 DEF FedTypes, RequestOK
  <2> QED BY <2>1, <2>2
<1>10. \A s, y \in Slots : request'[s].by = request'[y].by /\ request'[s].by \in Workers => s = y
  BY <1>4, <1>5, <1>7 DEF FedTypes, RequestOK
<1> QED BY <1>4, <1>8, <1>9, <1>10 DEF RequestOK

LEMMA DeliverCases ==
  ASSUME NEW w \in Workers, DeliverJob(w)
  PROVE  \E j \in worker[w].batch :
            \/ /\ Claims(w, j, "wait") /\ Post(j.id[2], j.id[1], w)
               /\ UNCHANGED used \/ Failed
            \/ Claims(w, j, "err") /\ Failed /\ UNCHANGED request
            \/ /\ Failed
               /\ worker' = [worker EXCEPT ![w] = IdleWorker]
               /\ UNCHANGED <<jobs, request, history>>
BY DEF DeliverJob, Claims

LEMMA DeliverTypes ==
  ASSUME FedTypes, NEW w \in Workers, DeliverJob(w)
  PROVE  FedTypes' /\ UsedGrows
<1>1. /\ UNCHANGED <<video, edit, issued, table, handler, follows, catalog, rules>>
      /\ worker[w].at = "next"
  BY DEF DeliverJob
<1>2. PICK j \in worker[w].batch :
         \/ /\ Claims(w, j, "wait") /\ Post(j.id[2], j.id[1], w)
            /\ UNCHANGED used \/ Failed
         \/ Claims(w, j, "err") /\ Failed /\ UNCHANGED request
         \/ /\ Failed
            /\ worker' = [worker EXCEPT ![w] = IdleWorker]
            /\ UNCHANGED <<jobs, request, history>>
  BY DeliverCases
<1>3. CASE /\ Claims(w, j, "wait") /\ Post(j.id[2], j.id[1], w)
           /\ UNCHANGED used \/ Failed
  <2>1. UsedOK' /\ UsedGrows
    BY <1>3, FailedUsed, SameUsed DEF FedTypes
  <2> QED BY <1>1, <1>3, <2>1, ClaimTypes, ClaimedPost, SameOK DEF FedTypes
<1>4. CASE Claims(w, j, "err") /\ Failed /\ UNCHANGED request
  <2>1. RequestOK'
    BY <1>1, <1>4, RequestsKept DEF FedTypes, Claims
  <2>2. UsedOK' /\ UsedGrows
    BY <1>4, FailedUsed DEF FedTypes
  <2>3. WorkerOK' /\ JobsOK' /\ HistoryOK'
    BY <1>4, ClaimTypes
  <2> QED BY <1>1, <2>1, <2>2, <2>3, SameOK DEF FedTypes
<1>5. CASE /\ Failed
           /\ worker' = [worker EXCEPT ![w] = IdleWorker]
           /\ UNCHANGED <<jobs, request, history>>
  <2>1. WorkerOK' /\ RequestOK'
    BY <1>1, <1>5, IdleIsGood, WorkerKept, RequestsKept DEF FedTypes
  <2>2. UsedOK' /\ UsedGrows
    BY <1>5, FailedUsed DEF FedTypes
  <2> QED BY <1>1, <1>5, <2>1, <2>2, SameOK DEF FedTypes
<1> QED BY <1>2, <1>3, <1>4, <1>5

\* What another place of a worker that has a job in hand has to be.
LEMMA InHandIsGood ==
  ASSUME NEW x, GoodWorker(x), x.at \in {"wait", "ok", "err"}, NEW at \in {"wait", "ok", "err"}
  PROVE  GoodWorker([x EXCEPT !.at = at])
<1> DEFINE y == [x EXCEPT !.at = at]
<1>1. y \in WorkerRecs /\ y.at = at /\ y.job = x.job /\ y.batch = x.batch
  BY DEF GoodWorker, WorkerRecs
<1> HIDE DEF y
<1>2. GoodWorker(y)
  BY <1>1 DEF GoodWorker
<1> QED BY <1>2 DEF y

\* POSTs that stay where they are, for workers that stay where they are.
LEMMA RequestsStay ==
  ASSUME RequestOK,
         request' \in [Slots -> [at : {"free", "check", "store"}, srv : Servers \cup {None},
                                 act : 0 .. MaxActs, by : Workers \cup {None}]],
         \A s \in Slots :
            /\ request'[s].at # "free" => request[s].at # "free"
            /\ request'[s].at # "free" => request'[s].srv = request[s].srv
            /\ request'[s].at # "free" => request'[s].act = request[s].act
            /\ request'[s].by \in Workers =>
                  /\ request'[s].by = request[s].by /\ request'[s].at # "free"
                  /\ worker'[request[s].by].at = worker[request[s].by].at
                  /\ worker'[request[s].by].job = worker[request[s].by].job
  PROVE  RequestOK'
<1>1. \A s \in Slots : request'[s].at # "free" =>
                       request'[s].srv \in Servers /\ request'[s].act \in Acts
  BY DEF RequestOK
<1>2. ASSUME NEW s \in Slots, request'[s].by \in Workers
      PROVE  /\ request'[s].at # "free"
             /\ worker'[request'[s].by].at = "wait"
             /\ worker'[request'[s].by].job.id = <<request'[s].act, request'[s].srv>>
  <2>1. request'[s].by = request[s].by /\ request'[s].at # "free"
    BY <1>2
  <2>2. request'[s].srv = request[s].srv /\ request'[s].act = request[s].act
    BY <2>1
  <2>3. /\ worker[request[s].by].at = "wait"
        /\ worker[request[s].by].job.id = <<request[s].act, request[s].srv>>
    BY <1>2, <2>1 DEF RequestOK
  <2> QED BY <1>2, <2>1, <2>2, <2>3
<1>3. \A s, z \in Slots : request'[s].by = request'[z].by /\ request'[s].by \in Workers => s = z
  BY DEF RequestOK
<1> QED BY <1>1, <1>2, <1>3 DEF RequestOK

LEMMA TimeOutTypes ==
  ASSUME FedTypes, NEW w \in Workers, TimeOut(w)
  PROVE  FedTypes' /\ UsedGrows
<1>1. /\ UNCHANGED <<video, edit, issued, table, handler, jobs, follows, catalog, rules, history>>
      /\ worker[w].at = "wait" /\ Failed
      /\ worker' = [worker EXCEPT ![w].at = "err"]
      /\ request' = [s \in Slots |-> IF request[s].by = w THEN [request[s] EXCEPT !.by = None]
                                                          ELSE request[s]]
  BY DEF TimeOut
<1>2. worker' = [worker EXCEPT ![w] = [worker[w] EXCEPT !.at = "err"]]
  BY <1>1 DEF FedTypes, WorkerOK
<1>3. GoodWorker([worker[w] EXCEPT !.at = "err"])
  BY <1>1, InHandIsGood, WorkersAreGood DEF FedTypes
<1>4. WorkerOK' /\ \A v \in Workers : v # w => worker'[v] = worker[v]
  BY <1>2, <1>3, WorkerKept DEF FedTypes
<1>5. \A s \in Slots :
         /\ request'[s] \in [at : {"free", "check", "store"}, srv : Servers \cup {None},
                             act : 0 .. MaxActs, by : Workers \cup {None}]
         /\ request'[s].at = request[s].at /\ request'[s].srv = request[s].srv
         /\ request'[s].act = request[s].act
         /\ request'[s].by = IF request[s].by = w THEN None ELSE request[s].by
  BY <1>1 DEF FedTypes, RequestOK
<1>6. \A s \in Slots : request'[s].by \in Workers =>
                       request'[s].by = request[s].by /\ worker'[request[s].by] = worker[request[s].by]
  BY <1>4, <1>5, ServersFact
<1>7. RequestOK'
  <2>1. request' \in [Slots -> [at : {"free", "check", "store"}, srv : Servers \cup {None},
                                act : 0 .. MaxActs, by : Workers \cup {None}]]
    BY <1>1, <1>5
  <2>2. \A s \in Slots : request'[s].by \in Workers => request'[s].at # "free"
    BY <1>5, <1>6 DEF FedTypes, RequestOK
  <2> QED BY <1>5, <1>6, <2>1, <2>2, RequestsStay DEF FedTypes
<1>8. UsedOK' /\ UsedGrows
  BY <1>1, FailedUsed DEF FedTypes
<1> QED BY <1>1, <1>4, <1>7, <1>8, SameOK DEF FedTypes

\* A mark in the table of activities.
LEMMA TableMarked ==
  ASSUME TableOK, NEW s, NEW a, NEW st \in {"pending", "processed", "failed"},
         table' = [table EXCEPT ![s][a] = st]
  PROVE  TableOK'
<1>1. CASE s \in Servers
  <2>1. table' = [table EXCEPT ![s] = [table[s] EXCEPT ![a] = st]]
    BY <1>1 DEF TableOK
  <2> QED BY ZenonT(30), <1>1, <2>1 DEF TableOK
<1>2. CASE s \notin Servers
  <2>1. table' = table
    BY <1>2 DEF TableOK
  <2> QED BY <2>1, SameOK
<1> QED BY <1>1, <1>2

LEMMA RoundEnds ==
  ASSUME FedTypes, NEW w \in Workers, worker[w].at \in {"ok", "err"}, UNCHANGED request,
         \/ worker' = [worker EXCEPT ![w] = Rest(@)]
         \/ worker' = [worker EXCEPT ![w] = IdleWorker]
  PROVE  WorkerOK' /\ RequestOK'
<1>1. GoodWorker(worker[w])
  BY WorkersAreGood DEF FedTypes
<1>2. GoodWorker(Rest(worker[w])) /\ GoodWorker(IdleWorker)
  BY <1>1, RestIsGood, IdleIsGood DEF GoodWorker
<1>3. ASSUME NEW x, GoodWorker(x), worker' = [worker EXCEPT ![w] = x] PROVE WorkerOK' /\ RequestOK'
  BY <1>3, WorkerKept, RequestsKept DEF FedTypes
<1> QED BY <1>2, <1>3

\* A job in hand is noted when its UPDATE fails.
LEMMA UnmarkedTypes ==
  ASSUME FedTypes, NEW w \in Workers, worker[w].at \in {"ok", "err"},
         JobUnmarked(w) \/ UNCHANGED history
  PROVE  HistoryOK'
<1>1. worker[w].job.id \in JobIds
  BY DEF FedTypes, WorkerOK, WorkJobs
<1> DEFINE O == history.orphaned \cup {worker[w].job.id}
<1>2. O \in SUBSET JobIds
  BY <1>1 DEF FedTypes, HistoryOK, HistoryRecs
<1>3. history' = [history EXCEPT !.orphaned = O] \/ UNCHANGED history
  BY DEF JobUnmarked
<1> HIDE DEF O
<1> QED BY <1>2, <1>3, HistoryKept, SameOK DEF FedTypes

LEMMA MarkDeliveredTypes ==
  ASSUME FedTypes, NEW w \in Workers, MarkDelivered(w)
  PROVE  FedTypes' /\ UsedGrows
<1> DEFINE k == worker[w].job.id
<1>1. /\ UNCHANGED <<video, edit, issued, handler, request, follows, catalog, rules>>
      /\ worker[w].at = "ok"
  BY DEF MarkDelivered
<1>2. \/ worker' = [worker EXCEPT ![w] = Rest(@)]
      \/ worker' = [worker EXCEPT ![w] = IdleWorker]
  BY DEF MarkDelivered
<1>3. WorkerOK' /\ RequestOK'
  BY <1>1, <1>2, RoundEnds
<1>4. JobsOK'
  <2>1. jobs' = [jobs EXCEPT ![k].st = "delivered"] \/ UNCHANGED jobs
    BY DEF MarkDelivered, JobUnmarked
  <2> QED BY <2>1, JobMarked, SameOK DEF FedTypes
<1>5. TableOK'
  <2>1. table' = [table EXCEPT ![Origin][k[1]] = "processed"] \/ UNCHANGED table
    BY DEF MarkDelivered
  <2> QED BY <2>1, TableMarked, SameOK DEF FedTypes
<1>6. UsedOK' /\ UsedGrows
  <2>1. UNCHANGED used \/ Failed
    BY DEF MarkDelivered
  <2> QED BY <2>1, FailedUsed, SameUsed DEF FedTypes
<1>7. HistoryOK'
  <2>1. JobUnmarked(w) \/ UNCHANGED history
    BY DEF MarkDelivered
  <2> QED BY <1>1, <2>1, UnmarkedTypes
<1> QED BY <1>1, <1>3, <1>4, <1>5, <1>6, <1>7, SameOK DEF FedTypes

LEMMA MarkAttemptTypes ==
  ASSUME FedTypes, NEW w \in Workers, MarkAttempt(w)
  PROVE  FedTypes' /\ UsedGrows
<1> DEFINE k == worker[w].job.id
           tries == worker[w].job.tries + 1
           x == [st |-> IF Exhausted(tries) THEN "failed" ELSE "queued", tries |-> tries]
<1>1. /\ UNCHANGED <<video, edit, issued, handler, request, follows, catalog, rules>>
      /\ worker[w].at = "err"
  BY DEF MarkAttempt
<1>2. \/ worker' = [worker EXCEPT ![w] = Rest(@)]
      \/ worker' = [worker EXCEPT ![w] = IdleWorker]
  BY DEF MarkAttempt
<1>3. WorkerOK' /\ RequestOK'
  BY <1>1, <1>2, RoundEnds
<1>4. JobsOK'
  <2>1. jobs' = [jobs EXCEPT ![k] = x] \/ UNCHANGED jobs
    BY DEF MarkAttempt, JobUnmarked
  <2>2. worker[w].job \in WorkJobs
    BY <1>1 DEF FedTypes, WorkerOK
  <2>3. k \in JobIds /\ tries \in 0 .. MaxAttempts
    BY <2>2, NumbersFact DEF WorkJobs
  <2>4. /\ x.st \in {"failed", "queued"} /\ x.tries = tries
        /\ x.st = "queued" => tries < MaxAttempts
        /\ x \in [st : {"absent", "queued", "processing", "delivered", "failed"},
                  tries : 0 .. MaxAttempts]
    <3> HIDE DEF tries
    <3> QED BY <2>3, NumbersFact DEF Exhausted
  <2> HIDE DEF x, k, tries
  <2>5. CASE jobs' = [jobs EXCEPT ![k] = x]
    BY <2>3, <2>4, <2>5 DEF FedTypes, JobsOK
  <2> QED BY <2>1, <2>5, SameOK DEF FedTypes
<1>5. TableOK'
  <2>1. table' = [table EXCEPT ![Origin][k[1]] = "failed"] \/ UNCHANGED table
    BY DEF MarkAttempt
  <2> QED BY <2>1, TableMarked, SameOK DEF FedTypes
<1>6. UsedOK' /\ UsedGrows
  <2>1. UNCHANGED used \/ Failed
    BY DEF MarkAttempt
  <2> QED BY <2>1, FailedUsed, SameUsed DEF FedTypes
<1>7. HistoryOK'
  <2>1. JobUnmarked(w) \/ UNCHANGED history
    BY DEF MarkAttempt
  <2> QED BY <1>1, <2>1, UnmarkedTypes
<1> QED BY <1>1, <1>3, <1>4, <1>5, <1>6, <1>7, SameOK DEF FedTypes

LEMMA InboxCheckTypes ==
  ASSUME FedTypes, NEW s \in Slots, InboxCheck(s)
  PROVE  FedTypes' /\ UsedGrows
<1>1. /\ UNCHANGED <<video, edit, issued, table, handler, jobs, follows, catalog, rules>>
      /\ request[s].at = "check"
  BY DEF InboxCheck
<1>2. UsedOK' /\ UsedGrows
  <2>1. UNCHANGED used \/ Failed
    BY DEF InboxCheck, LetsIn
  <2> QED BY <2>1, FailedUsed, SameUsed DEF FedTypes
<1>3. CASE Admit(s)
  <2>1. request' = [request EXCEPT ![s] = [request[s] EXCEPT !.at = "store"]]
    BY <1>3 DEF Admit, FedTypes, RequestOK
  <2>2. /\ request' \in [Slots -> [at : {"free", "check", "store"}, srv : Servers \cup {None},
                                   act : 0 .. MaxActs, by : Workers \cup {None}]]
        /\ \A z \in Slots : /\ request'[z].srv = request[z].srv /\ request'[z].by = request[z].by
                            /\ request'[z].act = request[z].act
                            /\ request'[z].at = "free" <=> request[z].at = "free"
    BY <1>1, <2>1 DEF FedTypes, RequestOK
  <2>3. \A z \in Slots : request'[z].by \in Workers => request'[z].at # "free"
    BY <2>2 DEF FedTypes, RequestOK
  <2>4. RequestOK'
    BY <1>3, <2>2, <2>3, RequestsStay DEF Admit, FedTypes
  <2>5. HistoryOK'
    <3> DEFINE p == request[s].srv
               A == history.admitted[p] \cup {request[s].act}
    <3>1. CASE p \in Peers /\ history' # history
      <4>1. A \in SUBSET Acts
        BY <1>1, <3>1 DEF FedTypes, HistoryOK, HistoryRecs, RequestOK
      <4>2. history' = [history EXCEPT !.admitted[p] = A]
        BY <1>3, <3>1 DEF Admit
      <4> HIDE DEF A, p
      <4> QED BY <3>1, <4>1, <4>2, HistoryKept DEF FedTypes
    <3>2. CASE ~(p \in Peers /\ history' # history)
      BY <1>3, <3>2, SameOK DEF Admit, FedTypes
    <3> QED BY <3>1, <3>2
  <2>6. UNCHANGED worker
    BY <1>3 DEF Admit
  <2> QED BY <1>1, <1>2, <2>4, <2>5, <2>6, SameOK DEF FedTypes
<1>4. CASE Answer(s, TRUE) \/ Answer(s, FALSE)
  BY <1>1, <1>2, <1>4, AnswerFrees, SameOK DEF FedTypes
<1> QED BY <1>3, <1>4 DEF InboxCheck

LEMMA InboxStoreTypes ==
  ASSUME FedTypes, NEW s \in Slots, InboxStore(s)
  PROVE  FedTypes' /\ UsedGrows
<1> DEFINE srv == request[s].srv
           act == request[s].act
<1>1. /\ UNCHANGED <<video, edit, issued, jobs, follows, catalog, rules>>
      /\ request[s].at = "store"
      /\ Answer(s, TRUE) \/ Answer(s, FALSE)
  BY DEF InboxStore
<1>2. UsedOK' /\ UsedGrows
  <2>1. UNCHANGED used \/ Failed
    BY DEF InboxStore
  <2> QED BY <2>1, FailedUsed, SameUsed DEF FedTypes
<1>3. WorkerOK' /\ RequestOK' /\ HistoryOK'
  BY <1>1, AnswerFrees DEF FedTypes
<1>4. \/ UNCHANGED <<table, handler>>
      \/ /\ table' = [table EXCEPT ![srv][act] = "pending"]
         /\ handler' = [handler EXCEPT ![srv][act] = "apply"]
  BY DEF InboxStore
<1>5. TableOK'
  BY <1>4, TableMarked, SameOK DEF FedTypes
<1>6. HandlerOK'
  <2>1. srv \in Servers /\ act \in Acts
    BY <1>1 DEF FedTypes, RequestOK
  <2>2. CASE handler' = [handler EXCEPT ![srv][act] = "apply"]
    <3> HIDE DEF srv, act
    <3> QED BY <2>1, <2>2 DEF FedTypes, HandlerOK
  <2> QED BY <1>4, <2>2, SameOK DEF FedTypes
<1> QED BY <1>1, <1>2, <1>3, <1>5, <1>6, SameOK DEF FedTypes

LEMMA MarkActivityTypes ==
  ASSUME TableOK, NEW s, NEW a, NEW st \in {"pending", "processed", "failed"},
         MarkActivity(s, a, st)
  PROVE  TableOK'
BY TableMarked DEF MarkActivity

LEMMA EffectTypes ==
  ASSUME FedTypes, NEW s \in Servers, NEW a \in Acts, a \in 1 .. Len(issued), Effect(s, a)
  PROVE  CatalogOK' /\ FollowsOK'
<1>1. issued[a].type \in ActTypes /\ issued[a].obj \in Nat /\ a \in 0 .. MaxActs
  <2>1. issued[a] \in [type : ActTypes, by : Servers, obj : Nat]
    BY ElementOfSeq DEF FedTypes, IssuedOK
  <2>2. a \in 0 .. MaxActs
    BY NumbersFact
  <2> QED BY <2>1, <2>2
<1>2. CASE UpsertVideo(s, a) /\ UNCHANGED follows
  <2> DEFINE x == [st |-> "available", ver |-> issued[a].obj, act |-> a]
  <2>1. x \in [st : {"none", "available", "deleted"}, ver : Nat, act : 0 .. MaxActs]
    BY <1>1
  <2>2. catalog' = [catalog EXCEPT ![s] = x]
    BY <1>2 DEF UpsertVideo
  <2> HIDE DEF x
  <2> QED BY <1>2, <2>1, <2>2, SameOK DEF FedTypes, CatalogOK
<1>3. CASE DeleteVideo(s) /\ UNCHANGED follows
  <2>1. catalog' = [catalog EXCEPT ![s].st = IF @ = "none" THEN "none" ELSE "deleted"]
    BY <1>3 DEF DeleteVideo
  <2>2. CatalogOK'
    BY <2>1 DEF FedTypes, CatalogOK
  <2> QED BY <1>3, <2>2, SameOK DEF FedTypes
<1>4. CASE AcceptFollow(issued[a].by, a) /\ UNCHANGED catalog
  <2> DEFINE x == [st |-> "accepted", uri |-> a]
  <2>1. x \in [st : {"none", "accepted", "rejected", "cancelled"}, uri : 0 .. MaxActs]
    BY <1>1
  <2>2. follows' = [follows EXCEPT ![issued[a].by] = x]
    BY <1>4 DEF AcceptFollow
  <2> HIDE DEF x
  <2> QED BY <1>4, <2>1, <2>2, SameOK DEF FedTypes, FollowsOK
<1>5. CASE CancelFollow(issued[a].by, a) /\ UNCHANGED catalog
  <2>1. PICK st : /\ follows' = [follows EXCEPT ![issued[a].by].st = st]
                  /\ st = "cancelled" \/ st = follows[issued[a].by].st
    BY <1>5 DEF CancelFollow
  <2>2. FollowsOK'
    BY <2>1 DEF FedTypes, FollowsOK
  <2> QED BY <1>5, <2>2, SameOK DEF FedTypes
<1>6. CASE FollowAnswered
  BY <1>6, SameOK DEF FedTypes, FollowAnswered
<1> QED BY <1>1, <1>2, <1>3, <1>4, <1>5, <1>6 DEF Effect, ActTypes

\* The task that handles an activity goes on.
LEMMA HandlerMoves ==
  ASSUME HandlerOK, NEW s \in Servers, NEW a \in Acts, NEW st \in {"none", "apply", "accept"},
         handler' = [handler EXCEPT ![s][a] = st]
  PROVE  HandlerOK'
BY DEF HandlerOK

LEMMA HandleTypes ==
  ASSUME FedTypes, NEW s \in Servers, NEW a \in Acts, a \in 1 .. Len(issued),
         HandleActivity(s, a)
  PROVE  FedTypes' /\ UsedGrows
<1>1. UNCHANGED <<video, edit, issued, jobs, worker, request, rules>>
  BY DEF HandleActivity
<1>2. CatalogOK' /\ FollowsOK'
  <2>1. Effect(s, a) \/ UNCHANGED <<catalog, follows>>
    BY DEF HandleActivity
  <2> QED BY <2>1, EffectTypes, SameOK DEF FedTypes
<1>3. HistoryOK'
  <2> DEFINE applied == [history EXCEPT !.applied[s][a] = @ + 1,
                                        !.overtaken = IF Overtakes(s, a) THEN @ \cup {s} ELSE @]
             O == IF Overtakes(s, a) THEN history.overtaken \cup {s} ELSE history.overtaken
             f == [history.applied EXCEPT ![s] = [history.applied[s] EXCEPT ![a] = @ + 1]]
             Marked(h) == [h EXCEPT !.unmarked = @ \cup {<<s, a>>}]
  <2>1. history' \in {history, applied, Marked(history), Marked(applied)}
    BY DEF HandleActivity, HandleError
  <2>2. O \subseteq Servers
    BY DEF FedTypes, HistoryOK, HistoryRecs
  <2>3. f \in [Servers -> [Acts -> Nat]]
    BY DEF FedTypes, HistoryOK, HistoryRecs
  <2>4. applied = [history EXCEPT !.applied = f, !.overtaken = O]
    BY DEF FedTypes, HistoryOK, HistoryRecs
  <2>5. history \in HistoryRecs /\ applied \in HistoryRecs
    <3> HIDE DEF O, f, applied
    <3> QED BY <2>2, <2>3, <2>4 DEF FedTypes, HistoryOK, HistoryRecs
  <2>6. ASSUME NEW h \in HistoryRecs PROVE Marked(h) \in HistoryRecs
    <3> DEFINE U == h.unmarked \cup {<<s, a>>}
    <3>1. U \in SUBSET (Servers \X Acts)
      BY DEF HistoryRecs
    <3>2. Marked(h) = [h EXCEPT !.unmarked = U]
      OBVIOUS
    <3> HIDE DEF U, Marked
    <3> QED BY <3>1, <3>2 DEF HistoryRecs
  <2> HIDE DEF applied, Marked
  <2> QED BY <2>1, <2>5, <2>6 DEF HistoryOK
<1>4. HandlerOK'
  <2>1. PICK st \in {"none", "apply", "accept"} : handler' = [handler EXCEPT ![s][a] = st]
    BY DEF HandleActivity, HandleError
  <2> QED BY <2>1, HandlerMoves DEF FedTypes
<1>5. TableOK'
  <2>1. MarkActivity(s, a, "processed") \/ MarkActivity(s, a, "failed") \/ UNCHANGED table
    BY DEF HandleActivity, HandleError
  <2> QED BY <2>1, MarkActivityTypes, SameOK DEF FedTypes
<1>6. UsedOK' /\ UsedGrows
  <2>1. UNCHANGED used \/ Failed
    BY DEF HandleActivity, HandleError
  <2> QED BY <2>1, FailedUsed, SameUsed DEF FedTypes
<1> QED BY <1>1, <1>2, <1>3, <1>4, <1>5, <1>6, SameOK DEF FedTypes

LEMMA QueueAcceptTypes ==
  ASSUME FedTypes, NEW a \in Acts, QueueAccept(a)
  PROVE  FedTypes' /\ UsedGrows
<1>1. /\ UNCHANGED <<video, edit, worker, request, follows, catalog, rules, history>>
      /\ Issue("Accept", Origin, a)
      /\ handler' = [handler EXCEPT ![Origin][a] = "none"]
  BY DEF QueueAccept
<1>2. IssuedOK' /\ NewAct \in Acts
  BY <1>1, IssueAppends, ServersFact, NumbersFact DEF FedTypes, ActTypes
<1>3. HandlerOK'
  BY <1>1, HandlerMoves, ServersFact DEF FedTypes
<1>4. CASE QueueOutbound(NewAct, issued[a].by) /\ UNCHANGED used
  BY <1>1, <1>2, <1>3, <1>4, QueueOutboundTypes, SameOK DEF FedTypes
<1>5. ASSUME Failed, UNCHANGED jobs, NEW stored \in {"absent", "pending"},
             NEW mark \in {"failed", "processed"},
             table' = [table EXCEPT ![Origin][a] = mark, ![Origin][NewAct] = stored]
      PROVE  FedTypes' /\ UsedGrows
  <2>1. TableOK'
    <3> HIDE DEF NewAct
    <3> QED BY <1>2, <1>5, ServersFact DEF FedTypes, TableOK
  <2>2. UsedOK' /\ UsedGrows
    BY <1>5, FailedUsed DEF FedTypes
  <2> QED BY <1>1, <1>2, <1>3, <1>5, <2>1, <2>2, SameOK DEF FedTypes
<1> QED BY <1>4, <1>5 DEF QueueAccept

LEMMA PeerSendTypes ==
  ASSUME FedTypes, NEW p \in Peers, PeerSend(p)
  PROVE  /\ FedTypes' /\ UsedGrows
         /\ \E type \in {"Follow", "Undo"}, obj \in Nat : Issue(type, p, obj)
<1> DEFINE mine == {a \in 1 .. Len(issued) : issued[a].by = p}
           last == IF mine = {} THEN 0 ELSE CHOOSE a \in mine : \A b \in mine : b <= a
<1>1. /\ UNCHANGED <<video, edit, table, handler, jobs, worker, follows, catalog, rules, history>>
      /\ Event("requests") /\ Post(Origin, NewAct, None)
  BY DEF PeerSend
<1>2. last \in Nat
  <2>1. CASE mine = {}
    BY <2>1
  <2>2. CASE mine # {}
    <3>1. Len(issued) \in Nat /\ mine \in SUBSET (1 .. Len(issued))
      BY DEF FedTypes, IssuedOK
    <3>2. mine \subseteq Nat
      OBVIOUS
    <3>3. \E a \in mine : \A b \in mine : b <= a
      <4> HIDE DEF mine
      <4> QED BY <2>2, <3>1, LastExists
    <3> HIDE DEF mine
    <3> QED BY <2>2, <3>2, <3>3
  <2> QED BY <2>1, <2>2
<1>3. \E type \in {"Follow", "Undo"}, obj \in Nat : Issue(type, p, obj)
  <2>1. Issue("Follow", p, 0) \/ Issue("Undo", p, last)
    BY DEF PeerSend
  <2> HIDE DEF last
  <2> QED BY <1>2, <2>1
<1>4. IssuedOK' /\ NewAct \in Acts
  BY <1>3, IssueAppends, ServersFact DEF FedTypes, ActTypes
<1>5. RequestOK'
  <2> HIDE DEF NewAct
  <2> QED BY <1>1, <1>4, PeerPost DEF FedTypes
<1>6. UsedOK' /\ UsedGrows
  BY <1>1, RequestUsed DEF FedTypes
<1> QED BY <1>1, <1>3, <1>4, <1>5, <1>6, SameOK DEF FedTypes

LEMMA PeerRepostTypes ==
  ASSUME FedTypes, NEW a \in Acts, PeerRepost(a)
  PROVE  FedTypes' /\ UsedGrows
<1>1. /\ UNCHANGED <<video, edit, issued, table, handler, jobs, worker, follows, catalog, rules,
                     history>>
      /\ Event("requests") /\ Post(Origin, a, None)
  BY DEF PeerRepost
<1> QED BY <1>1, PeerPost, RequestUsed, SameOK DEF FedTypes

LEMMA SetRuleTypes ==
  ASSUME FedTypes, NEW srv \in Servers, NEW d \in Servers, SetDomainRule(srv, d)
  PROVE  FedTypes' /\ UsedGrows
<1>1. /\ UNCHANGED <<video, edit, issued, table, handler, jobs, worker, request, follows, catalog>>
      /\ Event("requests") /\ rules' = rules \cup {<<srv, d>>}
  BY DEF SetDomainRule
<1>2. RulesOK'
  BY <1>1 DEF FedTypes, RulesOK
<1>3. HistoryOK'
  <2>1. CASE srv \in Peers
    <3>1. history' = [history EXCEPT !.admitted = [@ EXCEPT ![srv] = Admitted(srv, d)]]
      BY <2>1 DEF SetDomainRule, FedTypes, HistoryOK, HistoryRecs
    <3>2. Admitted(srv, d) \subseteq Acts
      BY NumbersFact DEF Admitted, FedTypes, IssuedOK
    <3> QED BY <3>1, <3>2 DEF FedTypes, HistoryOK, HistoryRecs
  <2>2. CASE srv \notin Peers
    BY <2>2, SameOK DEF SetDomainRule, FedTypes
  <2> QED BY <2>1, <2>2
<1> QED BY <1>1, <1>2, <1>3, RequestUsed, SameOK DEF FedTypes

LEMMA DeleteRuleTypes ==
  ASSUME FedTypes, NEW srv \in Servers, NEW d \in Servers, DeleteDomainRule(srv, d)
  PROVE  FedTypes' /\ UsedGrows
<1>1. /\ UNCHANGED <<video, edit, issued, table, handler, jobs, worker, request, follows, catalog>>
      /\ Event("requests") /\ rules' = rules \ {<<srv, d>>}
  BY DEF DeleteDomainRule
<1>2. RulesOK'
  BY <1>1 DEF FedTypes, RulesOK
<1>3. HistoryOK'
  <2>1. CASE srv \in Peers /\ history.purged[srv] = "ruled"
    <3>1. history' = [history EXCEPT !.purged = [@ EXCEPT ![srv] = "free"]]
      BY <2>1 DEF DeleteDomainRule, FedTypes, HistoryOK, HistoryRecs
    <3> QED BY <3>1 DEF FedTypes, HistoryOK, HistoryRecs
  <2>2. CASE ~(srv \in Peers /\ history.purged[srv] = "ruled")
    BY <2>2, SameOK DEF DeleteDomainRule, FedTypes
  <2> QED BY <2>1, <2>2
<1> QED BY <1>1, <1>2, <1>3, RequestUsed, SameOK DEF FedTypes

LEMMA PurgeTypes ==
  ASSUME FedTypes, NEW p \in Peers, PurgeRemoteVideos(p)
  PROVE  FedTypes' /\ UsedGrows
<1>1. /\ UNCHANGED <<video, edit, issued, table, handler, jobs, worker, request, follows, rules>>
      /\ Event("requests") /\ catalog' = [catalog EXCEPT ![p].st = "deleted"]
  BY DEF PurgeRemoteVideos
<1>2. CatalogOK'
  BY <1>1 DEF FedTypes, CatalogOK
<1>3. HistoryOK'
  <2> DEFINE x == IF <<p, Origin>> \in rules THEN "ruled" ELSE "free"
  <2>1. x \in {"ruled", "free"}
    OBVIOUS
  <2>2. history' = [history EXCEPT !.purged = [@ EXCEPT ![p] = x]]
    BY DEF PurgeRemoteVideos, FedTypes, HistoryOK, HistoryRecs
  <2> HIDE DEF x
  <2> QED BY <2>1, <2>2 DEF FedTypes, HistoryOK, HistoryRecs
<1> QED BY <1>1, <1>2, <1>3, RequestUsed, SameOK DEF FedTypes

LEMMA RetryTypes ==
  ASSUME FedTypes, NEW k \in JobIds, RetryDeliveryJob(k)
  PROVE  FedTypes' /\ UsedGrows
<1>1. /\ UNCHANGED <<video, edit, issued, table, handler, worker, request, follows, catalog, rules,
                     history>>
      /\ Event("requests") /\ jobs' = [jobs EXCEPT ![k] = [st |-> "queued", tries |-> 0]]
  BY DEF RetryDeliveryJob
<1>2. JobsOK'
  <2> DEFINE x == [st |-> "queued", tries |-> 0]
  <2>1. x \in [st : {"absent", "queued", "processing", "delivered", "failed"},
               tries : 0 .. MaxAttempts] /\ x.tries < MaxAttempts
    BY NumbersFact
  <2>2. jobs' = [jobs EXCEPT ![k] = x]
    BY <1>1
  <2> HIDE DEF x
  <2> QED BY <2>1, <2>2 DEF FedTypes, JobsOK
<1> QED BY <1>1, <1>2, RequestUsed, SameOK DEF FedTypes

LEMMA RejectTypes ==
  ASSUME FedTypes, NEW p \in Peers, RejectFollow(p)
  PROVE  /\ FedTypes' /\ UsedGrows
         /\ follows[p].uri \in Nat
<1>1. /\ UNCHANGED <<video, edit, handler, worker, request, catalog, rules, history>>
      /\ follows' = [follows EXCEPT ![p].st = "rejected"]
      /\ Issue("Reject", Origin, follows[p].uri)
  BY DEF RejectFollow
<1>2. FollowsOK' /\ follows[p].uri \in Nat
  BY <1>1, NumbersFact DEF FedTypes, FollowsOK
<1>3. IssuedOK'
  BY <1>1, <1>2, IssueAppends, ServersFact DEF FedTypes, ActTypes
<1>4. TableOK' /\ JobsOK' /\ UsedOK' /\ UsedGrows
  <2>1. CASE QueueOutbound(NewAct, p) /\ Event("requests")
    BY <2>1, QueueOutboundTypes, RequestUsed DEF FedTypes
  <2>2. CASE QueueOutboundFails(NewAct)
    BY <2>2, QueueOutboundFailsTypes DEF FedTypes
  <2> QED BY <2>1, <2>2 DEF RejectFollow
<1> QED BY <1>1, <1>2, <1>3, <1>4, SameOK DEF FedTypes

LEMMA RestartOriginTypes ==
  ASSUME FedTypes, RestartOrigin
  PROVE  FedTypes' /\ UsedGrows
<1>1. /\ UNCHANGED <<video, issued, table, jobs, follows, catalog, rules>> /\ Stopped
      /\ edit' = [e \in Editors |-> IF edit[e].at = "new" THEN edit[e] ELSE DoneEdit]
      /\ handler' = [handler EXCEPT ![Origin] = [a \in Acts |-> "none"]]
      /\ worker' = [w \in Workers |-> IdleWorker]
      /\ request' = [s \in Slots |-> IF request[s].srv = Origin THEN FreeSlot
                                     ELSE [request[s] EXCEPT !.by = None]]
  BY DEF RestartOrigin
<1>2. EditOK'
  <2>1. \A e \in Editors : edit[e] \in EditRecs
    BY DEF FedTypes, EditOK, EditRecs
  <2>2. \A e \in Editors : edit'[e] \in EditRecs /\ edit'[e].at \in {"new", "done"}
    BY <1>1, <2>1, DoneEditIsDone
  <2>3. edit' \in [Editors -> EditRecs]
    BY <1>1, <2>2
  <2> QED BY <2>2, <2>3 DEF EditOK, EditRecs
<1>3. HandlerOK'
  BY <1>1, ServersFact DEF FedTypes, HandlerOK
<1>4. WorkerOK'
  <2>1. worker' \in [Workers -> WorkerRecs] /\ \A w \in Workers : GoodWorker(worker'[w])
    BY <1>1, IdleIsGood DEF GoodWorker
  <2> QED BY <2>1, WorkersAreGood
<1>5. RequestOK'
  <2>1. FreeSlot \in [at : {"free", "check", "store"}, srv : Servers \cup {None},
                      act : 0 .. MaxActs, by : Workers \cup {None}]
        /\ FreeSlot.at = "free" /\ FreeSlot.by = None
    BY NumbersFact DEF FreeSlot
  <2>2. \A s \in Slots :
           /\ request'[s] \in [at : {"free", "check", "store"}, srv : Servers \cup {None},
                               act : 0 .. MaxActs, by : Workers \cup {None}]
           /\ request'[s].by = None
           /\ request'[s].at # "free" => /\ request'[s].at = request[s].at
                                         /\ request'[s].srv = request[s].srv
                                         /\ request'[s].act = request[s].act
    BY <1>1, <2>1 DEF FedTypes, RequestOK
  <2>3. request' \in [Slots -> [at : {"free", "check", "store"}, srv : Servers \cup {None},
                                act : 0 .. MaxActs, by : Workers \cup {None}]]
    BY <1>1, <2>2
  <2> QED BY <2>2, <2>3, RequestsStay, ServersFact DEF FedTypes
<1>6. HistoryOK'
  <2> DEFINE t == history.tangled \/ \E e \in Editors : edit[e].at \notin {"new", "done"}
             U == history.unmarked \cup Unfinished(Origin)
             O == history.orphaned \cup {worker[w].job.id :
                                            w \in {x \in Workers : worker[x].job # None}}
  <2>1. t \in BOOLEAN
    OBVIOUS
  <2>2. U \subseteq Servers \X Acts /\ O \subseteq JobIds
    BY ServersFact DEF FedTypes, HistoryOK, HistoryRecs, Unfinished, WorkerOK, WorkJobs
  <2>3. history' = [history EXCEPT !.unmarked = U, !.orphaned = O, !.tangled = t]
    BY DEF RestartOrigin
  <2> HIDE DEF t, U, O
  <2> QED BY <2>1, <2>2, <2>3 DEF FedTypes, HistoryOK, HistoryRecs
<1>7. UsedOK' /\ UsedGrows
  BY <1>1, StoppedUsed DEF FedTypes
<1> QED BY <1>1, <1>2, <1>3, <1>4, <1>5, <1>6, <1>7, SameOK DEF FedTypes

LEMMA RestartPeerTypes ==
  ASSUME FedTypes, NEW p \in Peers, RestartPeer(p)
  PROVE  /\ FedTypes' /\ UsedGrows
         /\ \A w \in Workers : /\ worker'[w].job = worker[w].job
                               /\ worker'[w].batch = worker[w].batch
                               /\ worker'[w].at = worker[w].at
                                     \/ (worker[w].at = "wait" /\ worker'[w].at = "err")
<1>1. /\ UNCHANGED <<video, edit, issued, table, jobs, follows, catalog, rules>> /\ Stopped
      /\ handler' = [handler EXCEPT ![p] = [a \in Acts |-> "none"]]
      /\ request' = [s \in Slots |-> IF request[s].srv = p THEN FreeSlot ELSE request[s]]
      /\ worker' = [w \in Workers |->
                      IF \E s \in Slots : request[s].srv = p /\ request[s].by = w
                        THEN [worker[w] EXCEPT !.at = "err"] ELSE worker[w]]
      /\ history' = [history EXCEPT !.unmarked = @ \cup Unfinished(p)]
  BY DEF RestartPeer
<1>2. HandlerOK'
  BY <1>1, ServersFact DEF FedTypes, HandlerOK
<1>3. \A w \in Workers : GoodWorker(worker[w])
  BY WorkersAreGood DEF FedTypes
<1>4. \A w \in Workers :
         \/ worker'[w] = worker[w] /\ \A s \in Slots : request[s].by = w => request[s].srv # p
         \/ worker'[w] = [worker[w] EXCEPT !.at = "err"] /\ worker[w].at = "wait"
  BY <1>1 DEF FedTypes, RequestOK
<1>5. \A w \in Workers : GoodWorker(worker'[w])
  BY <1>3, <1>4, InHandIsGood
<1>6. WorkerOK'
  <2>1. worker' \in [Workers -> WorkerRecs]
    <3>1. DOMAIN worker' = Workers /\ worker' = [w \in Workers |-> worker'[w]]
      BY <1>1
    <3> QED BY <1>5, <3>1 DEF GoodWorker
  <2> QED BY <1>5, <2>1, WorkersAreGood
<1>7. \A w \in Workers : /\ worker'[w].job = worker[w].job
                         /\ worker'[w].batch = worker[w].batch
                         /\ worker'[w].at = worker[w].at
                               \/ (worker[w].at = "wait" /\ worker'[w].at = "err")
  BY ZenonT(30), <1>3, <1>4 DEF GoodWorker, WorkerRecs
<1>8. RequestOK'
  <2>1. FreeSlot \in [at : {"free", "check", "store"}, srv : Servers \cup {None},
                      act : 0 .. MaxActs, by : Workers \cup {None}]
        /\ FreeSlot.at = "free" /\ FreeSlot.by = None
    BY NumbersFact DEF FreeSlot
  <2>2. request' \in [Slots -> [at : {"free", "check", "store"}, srv : Servers \cup {None},
                                act : 0 .. MaxActs, by : Workers \cup {None}]]
    BY <1>1, <2>1 DEF FedTypes, RequestOK
  <2>3. \A s \in Slots : request'[s].at # "free" \/ request'[s].by \in Workers =>
                         request'[s] = request[s] /\ request[s].srv # p
    BY <1>1, <2>1, ServersFact
  <2>4. ASSUME NEW s \in Slots, request'[s].by \in Workers
        PROVE  /\ request'[s].by = request[s].by /\ request'[s].at # "free"
               /\ worker'[request[s].by] = worker[request[s].by]
    <3>1. request'[s] = request[s] /\ request[s].srv # p
      BY <2>3, <2>4
    <3>2. \A z \in Slots : request[z].by = request[s].by => request[z].srv # p
      BY <2>4, <3>1 DEF FedTypes, RequestOK
    <3>3. worker'[request[s].by] = worker[request[s].by]
      BY <1>1, <2>4, <3>1, <3>2
    <3> QED BY <2>4, <3>1, <3>3 DEF FedTypes, RequestOK
  <2> QED BY <2>2, <2>3, <2>4, RequestsStay DEF FedTypes
<1>9. HistoryOK'
  <2> DEFINE U == history.unmarked \cup Unfinished(p)
  <2>1. U \in SUBSET (Servers \X Acts)
    BY ServersFact DEF FedTypes, HistoryOK, HistoryRecs, Unfinished
  <2>2. history' = [history EXCEPT !.unmarked = U]
    BY <1>1
  <2> HIDE DEF U
  <2> QED BY <2>1, <2>2, HistoryKept DEF FedTypes
<1>10. UsedOK' /\ UsedGrows
  BY <1>1, StoppedUsed DEF FedTypes
<1> QED BY <1>1, <1>2, <1>6, <1>7, <1>8, <1>9, <1>10, SameOK DEF FedTypes

LEMMA InitTypes == Init => FedTypes
<1> SUFFICES ASSUME Init PROVE FedTypes
  OBVIOUS
<1>1. VideoOK
  <2> DEFINE t == InitialVis = "public"
  <2>1. t \in BOOLEAN /\ InitialVis \in Visibilities
    BY FederationAssumption DEF Visibilities
  <2>2. video = [vis |-> InitialVis, ver |-> 0, uri |-> t]
    BY DEF Init
  <2> HIDE DEF t
  <2> QED BY <2>1, <2>2 DEF VideoOK
<1>2. EditOK
  <2>1. 0 \in 0 .. MaxActs /\ <<>> \in Seq(Peers)
    BY NumbersFact
  <2>2. IdleEdit \in EditRecs /\ IdleEdit.at = "new"
    BY <2>1 DEF IdleEdit, EditRecs
  <2>3. edit = [e \in Editors |-> IdleEdit]
    BY DEF Init
  <2> QED BY <2>2, <2>3 DEF EditOK, EditRecs
<1>3. IssuedOK
  BY NumbersFact DEF Init, IssuedOK
<1>4. TableOK /\ HandlerOK /\ RulesOK
  BY DEF Init, TableOK, HandlerOK, RulesOK
<1>5. JobsOK
  BY NumbersFact DEF Init, JobsOK
<1>6. WorkerOK
  <2>1. worker = [w \in Workers |-> IdleWorker]
    BY DEF Init
  <2>2. worker \in [Workers -> WorkerRecs] /\ \A w \in Workers : GoodWorker(worker[w])
    BY <2>1, IdleIsGood DEF GoodWorker
  <2> QED BY <2>2, WorkersAreGood
<1>7. RequestOK
  <2>1. request = [s \in Slots |-> FreeSlot]
    BY DEF Init
  <2> QED BY <2>1, NumbersFact, ServersFact DEF RequestOK, FreeSlot
<1>8. FollowsOK /\ CatalogOK
  BY NumbersFact DEF Init, FollowsOK, CatalogOK
<1>9. HistoryOK
  BY DEF Init, HistoryOK, HistoryRecs
<1>10. UsedOK
  BY DEF Init, UsedOK
<1> QED BY <1>1, <1>2, <1>3, <1>4, <1>5, <1>6, <1>7, <1>8, <1>9, <1>10 DEF FedTypes
-----------------------------------------------------------------------------
(* Activities, rows and jobs stay; where each comes from. *)

LEMMA HeldMeans ==
  /\ \A w \in Workers : \A k : k \in Held(w) <=> InBatch(w, k) \/ InHand(w, k)
  /\ \A w \in Workers : \A k : k \in Held(w)' <=> InBatch(w, k)' \/ InHand(w, k)'
BY DEF Held, InBatch, InHand

IssuedGrows ==
    /\ Len(issued) <= Len(issued')
    /\ \A a \in 1 .. Len(issued) : issued'[a] = issued[a]

\* A row is not taken back, nor made pending again.
TableGrows ==
    \A s \in Servers, a \in Acts :
       /\ table[s][a] # "absent" => table'[s][a] # "absent"
       /\ table[s][a] \notin {"absent", "pending"} => table'[s][a] # "pending"

JobsGrow == \A k \in JobIds : jobs[k].st # "absent" => jobs'[k].st # "absent"

\* No activity, row or job is added.
SameRows ==
    /\ UNCHANGED issued
    /\ \A s \in Servers, a \in Acts : table[s][a] = "absent" => table'[s][a] = "absent"
    /\ \A k \in JobIds : jobs[k].st = "absent" => jobs'[k].st = "absent"

LEMMA LengthIsNat == ASSUME IssuedOK PROVE Len(issued) \in Nat /\ 1 .. Len(issued) \subseteq Acts
BY NumbersFact DEF IssuedOK

LEMMA SameGrows == UNCHANGED issued /\ IssuedOK => IssuedGrows
BY DEF IssuedGrows, IssuedOK

LEMMA IssueGrows ==
  ASSUME IssuedOK, NEW type \in ActTypes, NEW by \in Servers, NEW obj \in Nat,
         Issue(type, by, obj)
  PROVE  IssuedGrows
<1>1. /\ Len(issued) \in Nat /\ Len(issued') = Len(issued) + 1
      /\ \A a \in 1 .. Len(issued) : issued'[a] = issued[a]
  BY IssueAppends
<1> QED BY <1>1 DEF IssuedGrows

LEMMA RoutedStays ==
  ASSUME IssuedOK, IssuedOK', IssuedGrows, NEW s, NEW a, Routed(s, a)
  PROVE  /\ a \in 1 .. Len(issued') /\ issued'[a] = issued[a]
         /\ IF s = Origin THEN issued'[a].by \in Peers ELSE issued'[a].by = Origin
<1>1. Len(issued) \in Nat /\ Len(issued') \in Nat
  BY DEF IssuedOK
<1> QED BY <1>1 DEF Routed, IssuedGrows

LEMMA ActsSame ==
  ASSUME FedTypes, ActsOK, SameRows
  PROVE  ActsOK'
<1>1. \A a \in Acts, p \in Peers : <<a, p>> \in JobIds
  BY DEF JobIds
<1> QED BY <1>1 DEF ActsOK, SameRows

LEMMA QueueSame ==
  ASSUME FedTypes, QueueOK, TableGrows, SameRows
  PROVE  QueueOK'
<1>1. \A a \in Acts, p \in Peers : <<a, p>> \in JobIds
  BY DEF JobIds
<1> QED BY <1>1, ServersFact DEF QueueOK, SameRows, TableGrows

\* What a step leaves where it was.
RequestsKeep ==
    \A s \in Slots : request'[s].at # "free" =>
       /\ request[s].at # "free" /\ request'[s].srv = request[s].srv
       /\ request'[s].act = request[s].act
HandlersKeep ==
    \A s \in Servers, a \in Acts : handler'[s][a] = handler[s][a] \/ handler'[s][a] = "none"
EditsKeep ==
    \A e \in Editors : edit'[e].at = "queue" => edit[e].at = "queue" /\ edit'[e].act = edit[e].act
HeldKeep ==
    \A w \in Workers : \A k \in JobIds :
       k \in Held(w)' => k \in Held(w) \/ jobs[k].st # "absent"

LEMMA RequestsSame ==
  ASSUME FedTypes, FedTypes', RequestsRouted, IssuedGrows, RequestsKeep
  PROVE  RequestsRouted'
<1> SUFFICES ASSUME NEW s \in Slots, request'[s].at # "free"
             PROVE  Routed(request[s].srv, request[s].act)'
  BY DEF RequestsRouted
<1>1. Routed(request[s].srv, request[s].act)
  BY DEF RequestsRouted, RequestsKeep
<1>2. request'[s].srv = request[s].srv /\ request'[s].act = request[s].act
  BY DEF RequestsKeep
<1> QED BY <1>1, <1>2, RoutedStays DEF Routed, FedTypes

LEMMA HandlersSame ==
  ASSUME FedTypes, FedTypes', HandlersRouted, IssuedGrows, TableGrows, HandlersKeep
  PROVE  HandlersRouted'
<1> SUFFICES ASSUME NEW s \in Servers, NEW a \in Acts, handler'[s][a] # "none"
             PROVE  /\ Routed(s, a)' /\ table'[s][a] # "absent"
                    /\ handler'[s][a] = "accept" =>
                          s = Origin /\ table'[s][a] # "pending" /\ issued'[a].type = "Follow"
  BY DEF HandlersRouted
<1>1. /\ Routed(s, a) /\ table[s][a] # "absent"
      /\ handler'[s][a] = "accept" =>
            s = Origin /\ table[s][a] # "pending" /\ issued[a].type = "Follow"
  BY DEF HandlersRouted, HandlersKeep
<1> QED BY <1>1, RoutedStays DEF Routed, FedTypes, TableGrows

LEMMA EditsSame ==
  ASSUME FedTypes, FedTypes', EditsRouted, IssuedGrows, EditsKeep
  PROVE  EditsRouted'
<1>1. Len(issued) \in Nat /\ Len(issued') \in Nat
  BY DEF FedTypes, IssuedOK
<1> QED BY <1>1 DEF EditsRouted, IssuedGrows, EditsKeep

\* What a worker holds are jobs.
LEMMA HeldAreJobs ==
  /\ WorkerOK => \A w \in Workers : Held(w) \subseteq JobIds
  /\ WorkerOK' => \A w \in Workers : Held(w)' \subseteq JobIds
BY HeldMeans DEF WorkerOK, WorkJobs, InBatch, InHand

\* The same hands hold the same jobs.
LEMMA SameHeld ==
  ASSUME \A w \in Workers : worker'[w].job = worker[w].job /\ worker'[w].batch = worker[w].batch
  PROVE  \A w \in Workers : \A k : /\ InBatch(w, k)' <=> InBatch(w, k)
                                   /\ InHand(w, k)' <=> InHand(w, k)
                                   /\ k \in Held(w)' <=> k \in Held(w)
BY HeldMeans DEF InBatch, InHand

LEMMA HeldSame ==
  ASSUME FedTypes, FedTypes', HeldOK, JobsGrow, HeldKeep
  PROVE  HeldOK'
<1>1. \A w \in Workers : Held(w)' \subseteq JobIds
  BY HeldAreJobs DEF FedTypes
<1> QED BY <1>1 DEF HeldOK, JobsGrow, HeldKeep

LEMMA Kept ==
  /\ UNCHANGED request => RequestsKeep
  /\ UNCHANGED handler => HandlersKeep
  /\ UNCHANGED edit => EditsKeep
  /\ UNCHANGED worker => HeldKeep
  /\ UNCHANGED table => TableGrows
  /\ UNCHANGED jobs => JobsGrow
  /\ UNCHANGED <<issued, table, jobs>> => SameRows
  /\ IssuedOK /\ UNCHANGED issued => IssuedGrows
<1>1. UNCHANGED worker => HeldKeep
  BY SameHeld DEF HeldKeep
<1> QED BY <1>1, SameGrows DEF RequestsKeep, HandlersKeep, EditsKeep, TableGrows, JobsGrow, SameRows

Grows == IssuedGrows /\ TableGrows /\ JobsGrow /\ UsedGrows

LEMMA CoreGrows ==
  ASSUME Core, FedTypes', UsedGrows, IssuedGrows, TableGrows, JobsGrow, ActsOK', QueueOK',
         RequestsKeep \/ RequestsRouted', HandlersKeep \/ HandlersRouted',
         EditsKeep \/ EditsRouted', HeldKeep
  PROVE  Core' /\ Grows
BY RequestsSame, HandlersSame, EditsSame, HeldSame DEF Core, Grows

\* A step that adds no row.
LEMMA CoreQuiet ==
  ASSUME Core, FedTypes', UsedGrows, SameRows, TableGrows, JobsGrow,
         RequestsKeep \/ RequestsRouted', HandlersKeep \/ HandlersRouted', EditsKeep, HeldKeep
  PROVE  Core' /\ Grows
<1>1. IssuedGrows
  BY SameGrows DEF SameRows, Core, FedTypes
<1> QED BY <1>1, ActsSame, QueueSame, CoreGrows DEF Core

LEMMA EditReadCore ==
  ASSUME Core, NEW e \in Editors, EditRead(e)
  PROVE  Core' /\ Grows
<1>1. FedTypes' /\ UsedGrows
  BY EditReadTypes DEF Core
<1>2. UNCHANGED <<issued, table, handler, jobs, worker, request>>
  BY DEF EditRead
<1>3. EditsKeep
  <2>1. \A f \in Editors : edit'[f] = edit[f] \/ edit'[f].at = "update"
    BY DEF EditRead, Core, FedTypes, EditOK
  <2> QED BY <2>1 DEF EditsKeep
<1> QED BY <1>1, <1>2, <1>3, Kept, CoreQuiet

LEMMA EditUpdateCore ==
  ASSUME Core, NEW e \in Editors, EditUpdate(e)
  PROVE  Core' /\ Grows
<1>1. FedTypes' /\ UsedGrows
  BY EditUpdateTypes DEF Core
<1>2. UNCHANGED <<issued, table, handler, jobs, worker, request>>
  BY DEF EditUpdate
<1>3. EditsKeep
  <2> DEFINE eff == IF edit[e].new = None THEN edit[e].prev ELSE edit[e].new
             at == Publication(edit[e].prev = "public", eff = "public")
  <2>1. \/ edit' = [edit EXCEPT ![e] = [IdleEdit EXCEPT !.at = at]]
        \/ edit' = [edit EXCEPT ![e] = DoneEdit]
    BY DEF EditUpdate
  <2>2. at \in {"Create", "Update", "Delete", "done"}
    BY DEF Publication
  <2> HIDE DEF at
  <2>3. [IdleEdit EXCEPT !.at = at].at # "queue"
    BY <2>2, DoneEditIsDone
  <2>4. \A f \in Editors : edit'[f] = edit[f] \/ edit'[f].at # "queue"
    BY <2>1, <2>3, DoneEditIsDone DEF Core, FedTypes, EditOK
  <2> QED BY <2>4 DEF EditsKeep
<1> QED BY <1>1, <1>2, <1>3, Kept, CoreQuiet

\* The rest of the batch, or none of it.
LEMMA HeldShrinks ==
  ASSUME WorkerOK, NEW w \in Workers, NEW x, worker' = [worker EXCEPT ![w] = x],
         x.batch \subseteq worker[w].batch,
         x.job = None \/ x.job = worker[w].job \/ x.job \in worker[w].batch
  PROVE  \A v \in Workers : \A k : k \in Held(v)' => k \in Held(v)
<1>1. worker'[w] = x /\ \A v \in Workers : v # w => worker'[v] = worker[v]
  BY DEF WorkerOK
<1>2. \A k : k \in Held(w)' => k \in Held(w)
  BY <1>1, HeldMeans DEF InBatch, InHand
<1>3. \A v \in Workers : v # w => \A k : k \in Held(v)' => k \in Held(v)
  BY <1>1, HeldMeans DEF InBatch, InHand
<1> QED BY <1>2, <1>3

LEMMA ShrinksKeeps ==
  (\A v \in Workers : \A k : k \in Held(v)' => k \in Held(v)) => HeldKeep
BY DEF HeldKeep

LEMMA SelectCore ==
  ASSUME Core, NEW w \in Workers, SelectDueJobs(w)
  PROVE  /\ Core' /\ Grows
         /\ \E ids \in SUBSET {k \in JobIds : jobs[k].st = "queued"} :
               /\ \A k : InBatch(w, k)' <=> k \in ids
               /\ \A k : ~InHand(w, k)'
               /\ history' = [history EXCEPT !.raced =
                                 @ \cup {k \in ids : \E x \in Workers \ {w} : k \in Held(x)}]
               /\ \A v \in Workers : v # w => worker'[v] = worker[v]
<1>1. FedTypes' /\ UsedGrows
  BY SelectTypes DEF Core
<1>2. UNCHANGED <<issued, table, handler, jobs, edit, request>>
  BY DEF SelectDueJobs
<1>3. PICK ids \in SUBSET {k \in JobIds : jobs[k].st = "queued"} :
         /\ worker' = [worker EXCEPT ![w] =
                         [at |-> "next", job |-> None,
                          batch |-> {[id |-> k, tries |-> jobs[k].tries] : k \in ids}]]
         /\ history' = [history EXCEPT !.raced =
                           @ \cup {k \in ids : \E x \in Workers \ {w} : k \in Held(x)}]
  BY DEF SelectDueJobs
<1>4. /\ worker'[w].job = None
      /\ worker'[w].batch = {[id |-> k, tries |-> jobs[k].tries] : k \in ids}
      /\ \A v \in Workers : v # w => worker'[v] = worker[v]
  BY <1>3 DEF Core, FedTypes, WorkerOK
<1>5. \A k : ~InHand(w, k)'
  BY <1>4 DEF InHand
<1>6. \A k : InBatch(w, k)' <=> k \in ids
  <2>1. ASSUME NEW k, InBatch(w, k)' PROVE k \in ids
    BY <1>4, <2>1 DEF InBatch
  <2>2. ASSUME NEW k \in ids PROVE InBatch(w, k)'
    <3>1. [id |-> k, tries |-> jobs[k].tries] \in worker'[w].batch
      BY <1>4
    <3> QED BY <3>1 DEF InBatch
  <2> QED BY <2>1, <2>2
<1>7. HeldKeep
  <2>1. \A k : k \in Held(w)' => k \in ids
    BY <1>5, <1>6, HeldMeans
  <2>2. \A v \in Workers : v # w => \A k : k \in Held(v)' => k \in Held(v)
    BY <1>4, HeldMeans DEF InBatch, InHand
  <2>3. \A k \in ids : jobs[k].st # "absent"
    OBVIOUS
  <2> QED BY <2>1, <2>2, <2>3 DEF HeldKeep
<1>8. Core' /\ Grows
  BY <1>1, <1>2, <1>7, Kept, CoreQuiet
<1> QED BY <1>3, <1>4, <1>5, <1>6, <1>8

\* A mark on a job that exists.
LEMMA JobMarkGrows ==
  ASSUME JobsOK, NEW k \in JobIds, jobs[k].st # "absent",
         NEW st \in {"queued", "processing", "delivered", "failed"},
         \/ jobs' = [jobs EXCEPT ![k].st = st]
         \/ \E n : jobs' = [jobs EXCEPT ![k] = [st |-> st, tries |-> n]]
  PROVE  /\ JobsGrow /\ \A i \in JobIds : jobs[i].st = "absent" => jobs'[i].st = "absent"
         /\ jobs'[k].st = st /\ \A i \in JobIds : i # k => jobs'[i] = jobs[i]
<1>1. jobs'[k].st = st /\ \A i \in JobIds : i # k => jobs'[i] = jobs[i]
  BY DEF JobsOK
<1> QED BY <1>1 DEF JobsGrow

LEMMA HeldFacts ==
  ASSUME Core, NEW w \in Workers
  PROVE  /\ \A j \in worker[w].batch : j.id \in JobIds /\ j.id \in Held(w) /\ jobs[j.id].st # "absent"
         /\ worker[w].job # None => /\ worker[w].job.id \in JobIds
                                    /\ worker[w].job.id \in Held(w)
                                    /\ jobs[worker[w].job.id].st # "absent"
<1>1. /\ \A j \in worker[w].batch : j.id \in JobIds /\ j.id \in Held(w)
      /\ worker[w].job # None => worker[w].job.id \in JobIds /\ worker[w].job.id \in Held(w)
  BY HeldMeans DEF Core, FedTypes, WorkerOK, WorkJobs, InBatch, InHand
<1> QED BY <1>1 DEF Core, HeldOK

LEMMA SkipCore ==
  ASSUME Core, NEW w \in Workers, SkipBlocked(w)
  PROVE  Core' /\ Grows
<1>1. FedTypes' /\ UsedGrows
  BY SkipTypes DEF Core
<1>2. UNCHANGED <<issued, table, handler, edit, request>>
  BY DEF SkipBlocked
<1>3. ASSUME NEW j \in worker[w].batch,
             jobs' = [jobs EXCEPT ![j.id].st = "failed"],
             worker' = [worker EXCEPT ![w] = Rest([worker[w] EXCEPT !.batch = @ \ {j}])]
      PROVE  Core' /\ Grows
  <2>1. JobsGrow /\ SameRows
    BY <1>2, <1>3, HeldFacts, JobMarkGrows DEF Core, FedTypes, SameRows
  <2> DEFINE y == [worker[w] EXCEPT !.batch = @ \ {j}]
  <2>2. Rest(y).batch \subseteq worker[w].batch /\ Rest(y).job = None
    <3>1. GoodWorker(worker[w])
      BY WorkersAreGood DEF Core, FedTypes
    <3>2. y \in WorkerRecs /\ y.batch \in SUBSET worker[w].batch
      BY <3>1 DEF GoodWorker, WorkerRecs
    <3> HIDE DEF y
    <3> QED BY <3>1, <3>2, RestIsGood
  <2>3. HeldKeep
    <3> HIDE DEF y
    <3> QED BY <1>3, <2>2, HeldShrinks, ShrinksKeeps DEF Core, FedTypes, y
  <2> QED BY <1>1, <1>2, <2>1, <2>3, Kept, CoreQuiet
<1>4. CASE worker' = [worker EXCEPT ![w] = IdleWorker] /\ UNCHANGED jobs
  <2>1. HeldKeep
    BY <1>4, HeldShrinks, ShrinksKeeps DEF Core, FedTypes, IdleWorker
  <2> QED BY <1>1, <1>2, <1>4, <2>1, Kept, CoreQuiet
<1> QED BY <1>3, <1>4 DEF SkipBlocked

\* A POST of an activity to where it goes.
LEMMA PostRouted ==
  ASSUME FedTypes, FedTypes', RequestsRouted, IssuedGrows, NEW srv, NEW a, NEW by,
         Post(srv, a, by), a \in 1 .. Len(issued'),
         IF srv = Origin THEN issued'[a].by \in Peers ELSE issued'[a].by = Origin
  PROVE  RequestsRouted'
<1>1. PICK z \in Slots : request' = [request EXCEPT ![z] =
                             [at |-> "check", srv |-> srv, act |-> a, by |-> by]]
  BY PostTakes
<1> SUFFICES ASSUME NEW s \in Slots, request'[s].at # "free"
             PROVE  Routed(request[s].srv, request[s].act)'
  BY DEF RequestsRouted
<1>2. CASE s = z
  <2>1. request'[s].srv = srv /\ request'[s].act = a
    BY <1>1, <1>2 DEF FedTypes, RequestOK
  <2> QED BY <2>1 DEF Routed
<1>3. CASE s # z
  <2>1. request'[s] = request[s]
    BY <1>1, <1>3 DEF FedTypes, RequestOK
  <2>2. Routed(request[s].srv, request[s].act)
    BY <2>1 DEF RequestsRouted
  <2> QED BY <2>1, <2>2, RoutedStays DEF Routed, FedTypes
<1> QED BY <1>2, <1>3

LEMMA ClaimHeld ==
  ASSUME WorkerOK, NEW w \in Workers, NEW j \in worker[w].batch, NEW at, Claims(w, j, at)
  PROVE  \A v \in Workers : \A k : k \in Held(v)' => k \in Held(v)
BY HeldShrinks DEF Claims

LEMMA DeliverCore ==
  ASSUME Core, NEW w \in Workers, DeliverJob(w)
  PROVE  Core' /\ Grows
<1>1. FedTypes' /\ UsedGrows
  BY DeliverTypes DEF Core
<1>2. UNCHANGED <<issued, table, handler, edit>> /\ IssuedGrows
  BY SameGrows DEF DeliverJob, Core, FedTypes
<1>3. PICK j \in worker[w].batch :
         \/ Claims(w, j, "wait") /\ Post(j.id[2], j.id[1], w)
         \/ Claims(w, j, "err") /\ UNCHANGED request
         \/ /\ worker' = [worker EXCEPT ![w] = IdleWorker]
            /\ UNCHANGED <<jobs, request>>
  BY DeliverCases
<1>4. ASSUME NEW at, Claims(w, j, at) PROVE JobsGrow /\ SameRows /\ HeldKeep
  <2>1. JobsGrow /\ SameRows
    BY <1>2, <1>4, HeldFacts, JobMarkGrows DEF Core, FedTypes, SameRows, Claims
  <2> QED BY <1>4, <2>1, ClaimHeld, ShrinksKeeps DEF Core, FedTypes
<1>5. CASE Claims(w, j, "wait") /\ Post(j.id[2], j.id[1], w)
  <2>1. j.id \in JobIds /\ jobs[j.id].st # "absent"
    BY HeldFacts
  <2>2. j.id[1] \in Acts /\ j.id[2] \in Peers /\ jobs[<<j.id[1], j.id[2]>>].st # "absent"
    BY <2>1, JobIdsFact
  <2>3. j.id[1] \in 1 .. Len(issued) /\ issued[j.id[1]].by = Origin /\ j.id[2] # Origin
    BY <2>2, ServersFact DEF Core, QueueOK
  <2>4. RequestsRouted'
    BY <1>1, <1>2, <1>5, <2>3, PostRouted DEF Core
  <2> QED BY <1>1, <1>2, <1>4, <1>5, <2>4, Kept, CoreQuiet
<1>6. CASE Claims(w, j, "err") /\ UNCHANGED request
  BY <1>1, <1>2, <1>4, <1>6, Kept, CoreQuiet
<1>7. CASE worker' = [worker EXCEPT ![w] = IdleWorker] /\ UNCHANGED <<jobs, request>>
  <2>1. HeldKeep
    BY <1>7, HeldShrinks, ShrinksKeeps DEF Core, FedTypes, IdleWorker
  <2> QED BY <1>1, <1>2, <1>7, <2>1, Kept, CoreQuiet
<1> QED BY <1>3, <1>5, <1>6, <1>7

LEMMA TimeOutCore ==
  ASSUME Core, NEW w \in Workers, TimeOut(w)
  PROVE  /\ Core' /\ Grows
         /\ \A v \in Workers : /\ worker'[v].job = worker[v].job
                               /\ worker'[v].batch = worker[v].batch
                               /\ worker'[v].at = worker[v].at
                                     \/ (worker[v].at = "wait" /\ worker'[v].at = "err")
<1>1. FedTypes' /\ UsedGrows
  BY TimeOutTypes DEF Core
<1>2. UNCHANGED <<issued, table, handler, edit, jobs>>
  BY DEF TimeOut
<1>3. RequestsKeep
  BY DEF TimeOut, Core, FedTypes, RequestOK, RequestsKeep
<1>4. \A v \in Workers : /\ worker'[v].job = worker[v].job
                         /\ worker'[v].batch = worker[v].batch
                         /\ worker'[v].at = worker[v].at
                               \/ (worker[v].at = "wait" /\ worker'[v].at = "err")
  BY DEF TimeOut, Core, FedTypes, WorkerOK
<1>5. HeldKeep
  BY <1>4, SameHeld DEF HeldKeep
<1> QED BY <1>1, <1>2, <1>3, <1>4, <1>5, Kept, CoreQuiet

LEMMA RoundEndsHeld ==
  ASSUME WorkerOK, NEW w \in Workers,
         \/ worker' = [worker EXCEPT ![w] = Rest(@)]
         \/ worker' = [worker EXCEPT ![w] = IdleWorker]
  PROVE  /\ worker'[w].job = None /\ worker'[w].batch \subseteq worker[w].batch
         /\ worker' = [worker EXCEPT ![w] = Rest(@)] => worker'[w].batch = worker[w].batch
         /\ \A v \in Workers : v # w => worker'[v] = worker[v]
         /\ \A v \in Workers : \A k : k \in Held(v)' => k \in Held(v)
<1>1. /\ Rest(worker[w]).batch = worker[w].batch /\ Rest(worker[w]).job = None
      /\ IdleWorker.batch \subseteq worker[w].batch /\ IdleWorker.job = None
  <2>1. GoodWorker(worker[w])
    BY WorkersAreGood
  <2>2. Rest(worker[w]).batch = worker[w].batch /\ Rest(worker[w]).job = None
    BY <2>1, RestIsGood DEF GoodWorker
  <2> QED BY <2>2 DEF IdleWorker
<1>2. CASE worker' = [worker EXCEPT ![w] = Rest(@)]
  <2>1. worker'[w] = Rest(worker[w]) /\ \A v \in Workers : v # w => worker'[v] = worker[v]
    BY <1>2 DEF WorkerOK
  <2>2. \A v \in Workers : \A k : k \in Held(v)' => k \in Held(v)
    BY <1>1, <1>2, HeldShrinks
  <2> QED BY <1>1, <2>1, <2>2
<1>3. CASE worker' # [worker EXCEPT ![w] = Rest(@)]
  <2>1. worker'[w] = IdleWorker /\ \A v \in Workers : v # w => worker'[v] = worker[v]
    BY <1>3 DEF WorkerOK
  <2>2. \A v \in Workers : \A k : k \in Held(v)' => k \in Held(v)
    BY <1>1, <1>3, HeldShrinks
  <2> QED BY <1>1, <1>3, <2>1, <2>2
<1> QED BY <1>2, <1>3

\* A mark on a row that exists.
LEMMA TableMarkGrows ==
  ASSUME TableOK, NEW s \in Servers, NEW a \in Acts, table[s][a] # "absent",
         NEW st \in {"processed", "failed"}, table' = [table EXCEPT ![s][a] = st]
  PROVE  /\ TableGrows /\ table'[s][a] = st
         /\ \A z \in Servers, b \in Acts : table[z][b] = "absent" => table'[z][b] = "absent"
         /\ \A z \in Servers, b \in Acts : <<z, b>> # <<s, a>> => table'[z][b] = table[z][b]
<1>1. /\ table'[s][a] = st
      /\ \A z \in Servers, b \in Acts : <<z, b>> # <<s, a>> => table'[z][b] = table[z][b]
  BY DEF TableOK
<1> QED BY <1>1 DEF TableGrows

\* The job in hand exists, and its activity has a row.
LEMMA InHandFacts ==
  ASSUME Core, NEW w \in Workers, worker[w].at \in {"wait", "ok", "err"}
  PROVE  /\ worker[w].job # None /\ worker[w].job \in WorkJobs
         /\ worker[w].job.id \in JobIds /\ jobs[worker[w].job.id].st # "absent"
         /\ worker[w].job.id[1] \in Acts /\ table[Origin][worker[w].job.id[1]] # "absent"
         /\ worker[w].job.id[1] \in 1 .. Len(issued)
         /\ issued[worker[w].job.id[1]].by = Origin
<1>1. worker[w].job # None /\ worker[w].job \in WorkJobs
  BY DEF Core, FedTypes, WorkerOK
<1>2. worker[w].job.id \in JobIds /\ jobs[worker[w].job.id].st # "absent"
  BY <1>1, HeldFacts
<1> DEFINE k == worker[w].job.id
<1>3. k[1] \in Acts /\ k[2] \in Peers /\ k = <<k[1], k[2]>>
  BY <1>2, JobIdsFact
<1> HIDE DEF k
<1>4. jobs[<<k[1], k[2]>>].st # "absent"
  BY <1>2, <1>3 DEF k
<1>5. /\ table[Origin][k[1]] # "absent" /\ k[1] \in 1 .. Len(issued)
      /\ issued[k[1]].by = Origin
  BY <1>3, <1>4 DEF Core, QueueOK
<1> QED BY <1>1, <1>2, <1>3, <1>5 DEF k

LEMMA MarkDeliveredCore ==
  ASSUME Core, NEW w \in Workers, MarkDelivered(w)
  PROVE  Core' /\ Grows
<1> DEFINE k == worker[w].job.id
<1>1. FedTypes' /\ UsedGrows
  BY MarkDeliveredTypes DEF Core
<1>2. UNCHANGED <<issued, handler, edit, request>> /\ worker[w].at = "ok"
  BY DEF MarkDelivered
<1>3. \/ worker' = [worker EXCEPT ![w] = Rest(@)]
      \/ worker' = [worker EXCEPT ![w] = IdleWorker]
  BY DEF MarkDelivered
<1>4. HeldKeep
  BY <1>3, RoundEndsHeld, ShrinksKeeps DEF Core, FedTypes
<1>5. k \in JobIds /\ jobs[k].st # "absent" /\ k[1] \in Acts /\ table[Origin][k[1]] # "absent"
  BY <1>2, InHandFacts
<1> HIDE DEF k
<1>6. JobsGrow /\ \A i \in JobIds : jobs[i].st = "absent" => jobs'[i].st = "absent"
  <2>1. jobs' = [jobs EXCEPT ![k].st = "delivered"] \/ UNCHANGED jobs
    BY DEF MarkDelivered, JobUnmarked, k
  <2>2. CASE jobs' = [jobs EXCEPT ![k].st = "delivered"]
    BY <1>5, <2>2, JobMarkGrows DEF Core, FedTypes
  <2> QED BY <2>1, <2>2, Kept
<1>7. /\ TableGrows
      /\ \A s \in Servers, a \in Acts : table[s][a] = "absent" => table'[s][a] = "absent"
  <2>1. table' = [table EXCEPT ![Origin][k[1]] = "processed"] \/ UNCHANGED table
    BY DEF MarkDelivered, k
  <2>2. CASE table' = [table EXCEPT ![Origin][k[1]] = "processed"]
    BY <1>5, <2>2, TableMarkGrows, ServersFact DEF Core, FedTypes
  <2> QED BY <2>1, <2>2, Kept
<1>8. SameRows
  BY <1>2, <1>6, <1>7 DEF SameRows
<1> QED BY <1>1, <1>2, <1>4, <1>6, <1>7, <1>8, Kept, CoreQuiet

LEMMA MarkAttemptCore ==
  ASSUME Core, NEW w \in Workers, MarkAttempt(w)
  PROVE  Core' /\ Grows
<1> DEFINE k == worker[w].job.id
           tries == worker[w].job.tries + 1
<1>1. FedTypes' /\ UsedGrows
  BY MarkAttemptTypes DEF Core
<1>2. UNCHANGED <<issued, handler, edit, request>> /\ worker[w].at = "err"
  BY DEF MarkAttempt
<1>3. \/ worker' = [worker EXCEPT ![w] = Rest(@)]
      \/ worker' = [worker EXCEPT ![w] = IdleWorker]
  BY DEF MarkAttempt
<1>4. HeldKeep
  BY <1>3, RoundEndsHeld, ShrinksKeeps DEF Core, FedTypes
<1>5. k \in JobIds /\ jobs[k].st # "absent" /\ k[1] \in Acts /\ table[Origin][k[1]] # "absent"
  BY <1>2, InHandFacts
<1>6. JobsGrow /\ \A i \in JobIds : jobs[i].st = "absent" => jobs'[i].st = "absent"
  <2>1. \/ UNCHANGED jobs
        \/ \E st \in {"failed", "queued"} : jobs' = [jobs EXCEPT ![k] = [st |-> st, tries |-> tries]]
    BY DEF MarkAttempt, JobUnmarked
  <2> HIDE DEF k, tries
  <2>2. ASSUME NEW st \in {"failed", "queued"},
               jobs' = [jobs EXCEPT ![k] = [st |-> st, tries |-> tries]]
        PROVE  JobsGrow /\ \A i \in JobIds : jobs[i].st = "absent" => jobs'[i].st = "absent"
    BY <1>5, <2>2, JobMarkGrows DEF Core, FedTypes
  <2> QED BY <2>1, <2>2, Kept
<1>7. /\ TableGrows
      /\ \A s \in Servers, a \in Acts : table[s][a] = "absent" => table'[s][a] = "absent"
  <2>1. table' = [table EXCEPT ![Origin][k[1]] = "failed"] \/ UNCHANGED table
    BY DEF MarkAttempt
  <2>2. CASE table' = [table EXCEPT ![Origin][k[1]] = "failed"]
    <3> HIDE DEF k
    <3> QED BY <1>5, <2>2, TableMarkGrows, ServersFact DEF Core, FedTypes
  <2> QED BY <2>1, <2>2, Kept
<1>8. SameRows
  BY <1>2, <1>6, <1>7 DEF SameRows
<1> QED BY <1>1, <1>2, <1>4, <1>6, <1>7, <1>8, Kept, CoreQuiet

\* The answer frees the slot; the workers keep their jobs.
LEMMA AnswerKeeps ==
  ASSUME FedTypes, NEW s \in Slots, NEW good \in BOOLEAN, request[s].at # "free", Answer(s, good)
  PROVE  RequestsKeep /\ HeldKeep
<1>1. request' = [request EXCEPT ![s] = FreeSlot]
  BY AnswerFrees DEF FedTypes
<1>2. \A z \in Slots : request'[z] = request[z] \/ request'[z].at = "free"
  BY <1>1 DEF FedTypes, RequestOK, FreeSlot
<1>3. \A w \in Workers : worker'[w].job = worker[w].job /\ worker'[w].batch = worker[w].batch
  BY AnswerFrees DEF FedTypes
<1> QED BY <1>2, <1>3, SameHeld DEF RequestsKeep, HeldKeep

LEMMA InboxCheckCore ==
  ASSUME Core, NEW s \in Slots, InboxCheck(s)
  PROVE  Core' /\ Grows
<1>1. FedTypes' /\ UsedGrows
  BY InboxCheckTypes DEF Core
<1>2. UNCHANGED <<issued, table, handler, edit, jobs>> /\ request[s].at = "check"
  BY DEF InboxCheck
<1>3. CASE request' = [request EXCEPT ![s].at = "store"] /\ UNCHANGED worker
  <2>1. RequestsKeep
    BY <1>2, <1>3 DEF RequestsKeep, Core, FedTypes, RequestOK
  <2> QED BY <1>1, <1>2, <1>3, <2>1, Kept, CoreQuiet
<1>4. CASE Answer(s, TRUE) \/ Answer(s, FALSE)
  BY <1>1, <1>2, <1>4, AnswerKeeps, Kept, CoreQuiet DEF Core
<1> QED BY <1>3, <1>4 DEF InboxCheck, Admit

\* A new row.
LEMMA TableAddGrows ==
  ASSUME TableOK, NEW s \in Servers, NEW a \in Acts, table[s][a] = "absent",
         table' = [table EXCEPT ![s][a] = "pending"]
  PROVE  /\ TableGrows /\ table'[s][a] = "pending"
         /\ \A z \in Servers, b \in Acts : <<z, b>> # <<s, a>> => table'[z][b] = table[z][b]
<1>1. /\ table'[s][a] = "pending"
      /\ \A z \in Servers, b \in Acts : <<z, b>> # <<s, a>> => table'[z][b] = table[z][b]
  BY DEF TableOK
<1> QED BY <1>1 DEF TableGrows

LEMMA QueueStays ==
  ASSUME FedTypes, IssuedOK', QueueOK, IssuedGrows, TableGrows, UNCHANGED jobs
  PROVE  QueueOK'
<1>1. Len(issued) \in Nat /\ Len(issued') \in Nat
  BY DEF FedTypes, IssuedOK
<1> QED BY <1>1, ServersFact DEF QueueOK, IssuedGrows, TableGrows

LEMMA InboxStoreCore ==
  ASSUME Core, NEW s \in Slots, InboxStore(s)
  PROVE  Core' /\ Grows
<1> DEFINE srv == request[s].srv
           act == request[s].act
<1>1. FedTypes' /\ UsedGrows
  BY InboxStoreTypes DEF Core
<1>2. /\ UNCHANGED <<issued, edit, jobs>> /\ request[s].at = "store"
      /\ Answer(s, TRUE) \/ Answer(s, FALSE)
  BY DEF InboxStore
<1>3. RequestsKeep /\ HeldKeep
  BY <1>2, AnswerKeeps DEF Core
<1>4. CASE UNCHANGED <<table, handler>>
  BY <1>1, <1>2, <1>3, <1>4, Kept, CoreQuiet
<1>5. CASE /\ table[srv][act] = "absent"
           /\ table' = [table EXCEPT ![srv][act] = "pending"]
           /\ handler' = [handler EXCEPT ![srv][act] = "apply"]
  <2>1. srv \in Servers /\ act \in Acts /\ Routed(srv, act)
    BY <1>2 DEF Core, FedTypes, RequestOK, RequestsRouted
  <2> HIDE DEF srv, act
  <2>2. /\ TableGrows /\ table'[srv][act] = "pending"
        /\ \A z \in Servers, b \in Acts : <<z, b>> # <<srv, act>> => table'[z][b] = table[z][b]
    BY <1>5, <2>1, TableAddGrows DEF Core, FedTypes
  <2>3. IssuedGrows
    BY <1>2, SameGrows DEF Core, FedTypes
  <2>4. ActsOK'
    <3>1. act \in 1 .. Len(issued) /\ Len(issued) \in Nat
      BY <2>1 DEF Routed, Core, FedTypes, IssuedOK
    <3>2. \A z \in Servers, b \in Acts : b > Len(issued) => table'[z][b] = table[z][b]
      BY <2>2, <3>1, NumbersFact
    <3> QED BY <1>2, <3>2 DEF Core, ActsOK
  <2>5. QueueOK'
    BY <1>1, <1>2, <2>2, <2>3, QueueStays DEF Core, FedTypes
  <2>6. HandlersRouted'
    <3>1. /\ handler'[srv][act] = "apply"
          /\ \A z \in Servers, b \in Acts : <<z, b>> # <<srv, act>> => handler'[z][b] = handler[z][b]
      BY <1>5, <2>1 DEF Core, FedTypes, HandlerOK
    <3> SUFFICES ASSUME NEW z \in Servers, NEW b \in Acts, handler'[z][b] # "none"
                 PROVE  /\ Routed(z, b)' /\ table'[z][b] # "absent"
                        /\ handler'[z][b] = "accept" =>
                              /\ z = Origin /\ table'[z][b] # "pending"
                              /\ issued'[b].type = "Follow"
      BY DEF HandlersRouted
    <3>2. CASE z = srv /\ b = act
      BY <1>2, <2>1, <2>2, <3>1, <3>2 DEF Routed
    <3>3. CASE ~(z = srv /\ b = act)
      <4>1. handler'[z][b] = handler[z][b] /\ table'[z][b] = table[z][b]
        BY <2>2, <3>1, <3>3
      <4> QED BY <1>2, <4>1 DEF Routed, Core, HandlersRouted
    <3> QED BY <3>2, <3>3
  <2>7. EditsKeep /\ JobsGrow
    BY <1>2, Kept
  <2> QED BY <1>1, <1>3, <2>2, <2>3, <2>4, <2>5, <2>6, <2>7, CoreGrows
<1> QED BY <1>4, <1>5 DEF InboxStore

\* The task that handles an activity has its row.
LEMMA HandlerFacts ==
  ASSUME Core, NEW s \in Servers, NEW a \in Acts, handler[s][a] # "none"
  PROVE  /\ a \in 1 .. Len(issued) /\ table[s][a] # "absent" /\ Routed(s, a)
         /\ issued[a].type = "Follow" => s = Origin /\ issued[a].by \in Peers
<1>1. Routed(s, a) /\ table[s][a] # "absent" /\ a \in 1 .. Len(issued)
  BY DEF Core, HandlersRouted, Routed
<1>2. issued[a].type = "Follow" => issued[a].by \in Peers
  BY <1>1 DEF Core, ActsOK
<1> QED BY <1>1, <1>2, ServersFact DEF Routed

LEMMA HandlerCell ==
  ASSUME HandlerOK, NEW s \in Servers, NEW a \in Acts, NEW st,
         handler' = [handler EXCEPT ![s][a] = st]
  PROVE  /\ handler'[s][a] = st
         /\ \A z \in Servers, b \in Acts : <<z, b>> # <<s, a>> => handler'[z][b] = handler[z][b]
BY DEF HandlerOK

LEMMA HandleCore ==
  ASSUME Core, NEW s \in Servers, NEW a \in Acts, HandleActivity(s, a)
  PROVE  Core' /\ Grows
<1>1. UNCHANGED <<issued, edit, jobs, worker, request>> /\ handler[s][a] = "apply"
  BY DEF HandleActivity
<1>2. /\ a \in 1 .. Len(issued) /\ table[s][a] # "absent" /\ Routed(s, a)
      /\ issued[a].type = "Follow" => s = Origin
  BY <1>1, HandlerFacts
<1>3. FedTypes' /\ UsedGrows
  BY <1>2, HandleTypes DEF Core
<1>4. /\ TableGrows
      /\ \A z \in Servers, b \in Acts : table[z][b] = "absent" => table'[z][b] = "absent"
  <2>1. \/ UNCHANGED table
        \/ \E st \in {"processed", "failed"} : table' = [table EXCEPT ![s][a] = st]
    BY DEF HandleActivity, HandleError, MarkActivity
  <2> QED BY <1>2, <2>1, TableMarkGrows, Kept DEF Core, FedTypes
<1>5. SameRows
  BY <1>1, <1>4 DEF SameRows
<1>6. HandlersKeep \/ HandlersRouted'
  <2>1. CASE handler' = [handler EXCEPT ![s][a] = "none"]
    BY <2>1, HandlerCell DEF HandlersKeep, Core, FedTypes
  <2>2. CASE /\ handler' = [handler EXCEPT ![s][a] = "accept"] /\ issued[a].type = "Follow"
             /\ MarkActivity(s, a, "processed")
    <3>1. /\ handler'[s][a] = "accept"
          /\ \A z \in Servers, b \in Acts : <<z, b>> # <<s, a>> => handler'[z][b] = handler[z][b]
      BY ZenonT(30), <2>2, HandlerCell DEF Core, FedTypes
    <3>2. table'[s][a] = "processed"
      BY <1>2, <2>2, TableMarkGrows DEF MarkActivity, Core, FedTypes
    <3> SUFFICES ASSUME NEW z \in Servers, NEW b \in Acts, handler'[z][b] # "none"
                 PROVE  /\ Routed(z, b)' /\ table'[z][b] # "absent"
                        /\ handler'[z][b] = "accept" =>
                              /\ z = Origin /\ table'[z][b] # "pending"
                              /\ issued'[b].type = "Follow"
      BY DEF HandlersRouted
    <3>3. CASE z = s /\ b = a
      BY <1>1, <1>2, <2>2, <3>2, <3>3 DEF Routed
    <3>4. CASE ~(z = s /\ b = a)
      <4>1. handler'[z][b] = handler[z][b]
        BY <3>1, <3>4
      <4> QED BY <1>1, <1>4, <4>1 DEF Routed, Core, HandlersRouted, TableGrows
    <3> QED BY <3>3, <3>4
  <2> QED BY <2>1, <2>2 DEF HandleActivity, HandleError
<1> QED BY <1>1, <1>3, <1>4, <1>5, <1>6, Kept, CoreQuiet

LEMMA PeerRepostCore ==
  ASSUME Core, NEW a \in Acts, PeerRepost(a)
  PROVE  Core' /\ Grows
<1>1. /\ UNCHANGED <<issued, edit, table, handler, jobs, worker>>
      /\ a <= Len(issued) /\ issued[a].by \in Peers /\ Post(Origin, a, None)
  BY DEF PeerRepost
<1>2. FedTypes' /\ UsedGrows
  BY PeerRepostTypes DEF Core
<1>3. IssuedGrows /\ a \in 1 .. Len(issued)
  BY <1>1, SameGrows, NumbersFact DEF Core, FedTypes, IssuedOK
<1>4. RequestsRouted'
  BY <1>1, <1>2, <1>3, PostRouted DEF Core
<1> QED BY <1>1, <1>2, <1>4, Kept, CoreQuiet

LEMMA ModerationCore ==
  ASSUME Core,
         \/ \E p \in Peers : SetDomainRule(Origin, p) \/ SetDomainRule(p, Origin)
         \/ \E p \in Peers : DeleteDomainRule(Origin, p) \/ DeleteDomainRule(p, Origin)
         \/ \E p \in Peers : PurgeRemoteVideos(p)
  PROVE  Core' /\ Grows
<1>1. FedTypes' /\ UsedGrows
  BY SetRuleTypes, DeleteRuleTypes, PurgeTypes, ServersFact DEF Core
<1>2. UNCHANGED <<issued, edit, table, handler, jobs, worker, request>>
  BY DEF SetDomainRule, DeleteDomainRule, PurgeRemoteVideos
<1> QED BY <1>1, <1>2, Kept, CoreQuiet

LEMMA RetryCore ==
  ASSUME Core, NEW k \in JobIds, RetryDeliveryJob(k)
  PROVE  Core' /\ Grows
<1>1. FedTypes' /\ UsedGrows
  BY RetryTypes DEF Core
<1>2. /\ UNCHANGED <<issued, edit, table, handler, worker, request>> /\ jobs[k].st = "failed"
      /\ jobs' = [jobs EXCEPT ![k] = [st |-> "queued", tries |-> 0]]
  BY DEF RetryDeliveryJob
<1>3. JobsGrow /\ SameRows
  BY <1>2, JobMarkGrows DEF SameRows, Core, FedTypes
<1> QED BY <1>1, <1>2, <1>3, Kept, CoreQuiet

LEMMA RestartCore ==
  ASSUME Core, RestartOrigin \/ \E p \in Peers : RestartPeer(p)
  PROVE  Core' /\ Grows
<1>1. FedTypes' /\ UsedGrows
  BY RestartOriginTypes, RestartPeerTypes DEF Core
<1>2. UNCHANGED <<issued, table, jobs>>
  BY DEF RestartOrigin, RestartPeer
<1>3. EditsKeep
  <2>1. CASE RestartOrigin
    BY <2>1, DoneEditIsDone DEF RestartOrigin, EditsKeep
  <2> QED BY <2>1, Kept DEF RestartPeer
<1>4. HandlersKeep
  BY ServersFact DEF RestartOrigin, RestartPeer, HandlersKeep, Core, FedTypes, HandlerOK
<1>5. RequestsKeep
  <2>1. CASE RestartOrigin
    BY <2>1 DEF RestartOrigin, RequestsKeep, FreeSlot, Core, FedTypes, RequestOK
  <2>2. ASSUME NEW p \in Peers, RestartPeer(p) PROVE RequestsKeep
    BY <2>2 DEF RestartPeer, RequestsKeep, FreeSlot
  <2> QED BY <2>1, <2>2
<1>6. HeldKeep
  <2>1. CASE RestartOrigin
    BY <2>1, HeldMeans DEF RestartOrigin, HeldKeep, IdleWorker, InBatch, InHand
  <2>2. ASSUME NEW p \in Peers, RestartPeer(p) PROVE HeldKeep
    BY <2>2, RestartPeerTypes, SameHeld DEF HeldKeep, Core
  <2> QED BY <2>1, <2>2
<1> QED BY <1>1, <1>2, <1>3, <1>4, <1>5, <1>6, Kept, CoreQuiet

\* Rows are added only for the new activity.
OnlyNew ==
    /\ \A s \in Servers, a \in Acts : a # NewAct /\ table[s][a] = "absent" => table'[s][a] = "absent"
    /\ \A a \in Acts, p \in Peers : a # NewAct /\ jobs[<<a, p>>].st = "absent" =>
                                    jobs'[<<a, p>>].st = "absent"

LEMMA ActsIssue ==
  ASSUME FedTypes, ActsOK, NEW type \in ActTypes, NEW by \in Servers, NEW obj \in Nat,
         Issue(type, by, obj), OnlyNew,
         IF type \in {"Follow", "Undo"} THEN by \in Peers ELSE by = Origin
  PROVE  ActsOK'
<1>1. /\ Len(issued) \in Nat /\ Len(issued') = Len(issued) + 1 /\ NewAct = Len(issued')
      /\ issued'[NewAct] = [type |-> type, by |-> by, obj |-> obj]
      /\ \A a \in 1 .. Len(issued) : issued'[a] = issued[a]
  BY IssueAppends DEF FedTypes
<1> HIDE DEF NewAct
<1>2. \A a \in 1 .. Len(issued') : a = NewAct \/ a \in 1 .. Len(issued)
  BY <1>1
<1>3. issued'[NewAct].type = type /\ issued'[NewAct].by = by
  BY <1>1
<1>4. \A a \in 1 .. Len(issued') :
         IF issued'[a].type \in {"Follow", "Undo"} THEN issued'[a].by \in Peers
                                                   ELSE issued'[a].by = Origin
  BY <1>1, <1>2, <1>3 DEF ActsOK
<1>5. \A a \in Acts : a > Len(issued') => a > Len(issued) /\ a # NewAct
  BY <1>1, NumbersFact
<1> QED BY <1>4, <1>5 DEF ActsOK, OnlyNew

LEMMA NewIsAbsent ==
  ASSUME FedTypes, ActsOK, CanIssue
  PROVE  /\ NewAct \in Acts
         /\ \A s \in Servers : table[s][NewAct] = "absent"
         /\ \A p \in Peers : jobs[<<NewAct, p>>].st = "absent"
<1>1. Len(issued) \in Nat /\ NewAct = Len(issued) + 1 /\ NewAct \in Acts
  BY NumbersFact DEF FedTypes, IssuedOK, CanIssue, NewAct
<1> QED BY <1>1 DEF ActsOK

LEMMA PublishCore ==
  ASSUME Core, NEW e \in Editors, Publish(e)
  PROVE  Core' /\ Grows
<1>1. UNCHANGED <<table, handler, jobs, worker, request>> /\ edit[e].at \in {"Create", "Update", "Delete"}
  BY DEF Publish
<1>2. FedTypes' /\ UsedGrows
  BY PublishTypes DEF Core
<1>3. CASE ~HasObject(edit[e].at)
  <2>1. UNCHANGED issued /\ edit' = [edit EXCEPT ![e] = DoneEdit]
    BY <1>3 DEF Publish
  <2>2. EditsKeep
    BY <2>1, DoneEditIsDone DEF EditsKeep, Core, FedTypes, EditOK
  <2> QED BY <1>1, <1>2, <2>1, <2>2, Kept, CoreQuiet
<1>4. CASE HasObject(edit[e].at)
  <2>1. Issue(edit[e].at, Origin, video.ver)
    BY <1>4 DEF Publish
  <2>2. edit[e].at \in ActTypes /\ video.ver \in Nat /\ Origin \in Servers
        /\ edit[e].at \notin {"Follow", "Undo"}
    BY <1>1, ServersFact DEF Core, FedTypes, VideoOK, ActTypes
  <2>3. /\ IssuedGrows /\ NewAct \in 1 .. Len(issued') /\ Len(issued) \in Nat
        /\ issued'[NewAct].by = Origin /\ NewAct \notin 1 .. Len(issued)
    <3>1. /\ Len(issued) \in Nat /\ Len(issued') = Len(issued) + 1 /\ NewAct = Len(issued')
          /\ issued'[NewAct] = [type |-> edit[e].at, by |-> Origin, obj |-> video.ver]
          /\ NewAct \notin 1 .. Len(issued)
      BY <2>1, <2>2, IssueAppends DEF Core, FedTypes
    <3>2. IssuedGrows
      BY <2>1, <2>2, IssueGrows DEF Core, FedTypes
    <3> HIDE DEF NewAct
    <3> QED BY <3>1, <3>2
  <2>4. OnlyNew
    BY <1>1 DEF OnlyNew
  <2>5. ActsOK'
    BY <2>1, <2>2, <2>4, ActsIssue DEF Core
  <2>6. TableGrows /\ JobsGrow /\ RequestsKeep /\ HandlersKeep /\ HeldKeep
    BY <1>1, Kept
  <2>7. QueueOK'
    BY <1>1, <1>2, <2>3, <2>6, QueueStays DEF Core, FedTypes
  <2>8. EditsRouted'
    <3>1. PICK x : /\ edit' = [edit EXCEPT ![e] = x]
                   /\ x.at = "queue" => x.act = NewAct
      <4>1. PICK todo : edit' = [edit EXCEPT ![e] =
                                   IF todo = <<>> THEN DoneEdit
                                   ELSE [IdleEdit EXCEPT !.at = "queue", !.act = NewAct,
                                                         !.todo = todo]]
        BY <1>4 DEF Publish
      <4>2. [IdleEdit EXCEPT !.at = "queue", !.act = NewAct, !.todo = todo].act = NewAct
        <5> HIDE DEF NewAct
        <5> QED BY DEF IdleEdit
      <4> QED BY <4>1, <4>2, DoneEditIsDone
    <3> HIDE DEF NewAct
    <3> SUFFICES ASSUME NEW f \in Editors, edit'[f].at = "queue"
                 PROVE  edit'[f].act \in 1 .. Len(issued') /\ issued'[edit'[f].act].by = Origin
      BY DEF EditsRouted
    <3>2. CASE f = e
      BY <2>3, <3>1, <3>2 DEF Core, FedTypes, EditOK
    <3>3. CASE f # e
      <4>1. edit'[f] = edit[f]
        BY <3>1, <3>3 DEF Core, FedTypes, EditOK
      <4>2. edit[f].act \in 1 .. Len(issued) /\ issued[edit[f].act].by = Origin
        BY <4>1 DEF Core, EditsRouted
      <4>3. Len(issued') \in Nat
        BY <1>2 DEF FedTypes, IssuedOK
      <4> QED BY <2>3, <4>1, <4>2, <4>3 DEF IssuedGrows
    <3> QED BY <3>2, <3>3
  <2> QED BY <1>2, <2>3, <2>5, <2>6, <2>7, <2>8, CoreGrows
<1> QED BY <1>3, <1>4

LEMMA PublishFailsCore ==
  ASSUME Core, NEW e \in Editors, PublishFails(e)
  PROVE  Core' /\ Grows
<1>1. /\ UNCHANGED <<issued, table, handler, jobs, worker, request>>
      /\ edit' = [edit EXCEPT ![e] = DoneEdit]
  BY DEF PublishFails
<1>2. FedTypes' /\ UsedGrows
  BY PublishFailsTypes DEF Core
<1>3. EditsKeep
  BY <1>1, DoneEditIsDone DEF EditsKeep, Core, FedTypes, EditOK
<1> QED BY <1>1, <1>2, <1>3, Kept, CoreQuiet

\* The job of an activity that had no row.
LEMMA QueueAdds ==
  ASSUME FedTypes, IssuedOK', QueueOK, IssuedGrows, NEW a \in Acts, NEW p \in Peers,
         a \in 1 .. Len(issued'), issued'[a].by = Origin, QueueOutbound(a, p)
  PROVE  /\ QueueOK' /\ TableGrows /\ JobsGrow
         /\ \A s \in Servers, b \in Acts : b # a => table'[s][b] = table[s][b]
         /\ \A s \in Servers, b \in Acts : s # Origin => table'[s][b] = table[s][b]
         /\ table[Origin][a] = "absent" /\ table'[Origin][a] = "pending"
         /\ jobs'[<<a, p>>].st = "queued" /\ jobs[<<a, p>>].st = "absent"
         /\ \A k \in JobIds : k # <<a, p>> => jobs'[k] = jobs[k]
<1>1. table[Origin][a] = "absent" /\ table' = [table EXCEPT ![Origin][a] = "pending"]
      /\ jobs' = [jobs EXCEPT ![<<a, p>>] = [st |-> "queued", tries |-> 0]]
  BY DEF QueueOutbound
<1>2. /\ TableGrows /\ table'[Origin][a] = "pending"
      /\ \A s \in Servers, b \in Acts : <<s, b>> # <<Origin, a>> => table'[s][b] = table[s][b]
  BY <1>1, TableAddGrows, ServersFact DEF FedTypes
<1>3. \A q \in Peers : <<a, q>> \in JobIds /\ jobs[<<a, q>>].st = "absent"
  BY <1>1 DEF QueueOK, JobIds
<1>4. /\ jobs'[<<a, p>>].st = "queued"
      /\ \A k \in JobIds : k # <<a, p>> => jobs'[k] = jobs[k]
  BY <1>1, <1>3 DEF FedTypes, JobsOK
<1>5. JobsGrow
  BY <1>4 DEF JobsGrow
<1>6. \A b \in Acts, q \in Peers : <<b, q>> \in JobIds
  BY DEF JobIds
<1>8. \A b \in Acts, q \in Peers : b # a => jobs'[<<b, q>>] = jobs[<<b, q>>]
  BY <1>4, <1>6
<1>9. Len(issued) \in Nat /\ Len(issued') \in Nat
  BY DEF FedTypes, IssuedOK
<1>10. QueueOK'
  <2> SUFFICES ASSUME NEW b \in Acts, NEW q \in Peers, jobs'[<<b, q>>].st # "absent"
               PROVE  /\ b \in 1 .. Len(issued') /\ issued'[b].by = Origin
                      /\ table'[Origin][b] # "absent"
    BY DEF QueueOK
  <2>1. CASE b = a
    BY <1>2, <2>1
  <2>2. CASE b # a
    <3>1. /\ b \in 1 .. Len(issued) /\ issued[b].by = Origin /\ table[Origin][b] # "absent"
      BY <1>8, <2>2 DEF QueueOK
    <3> QED BY <1>2, <1>8, <1>9, <2>2, <3>1, ServersFact DEF IssuedGrows, TableGrows
  <2> QED BY <2>1, <2>2
<1> QED BY <1>1, <1>2, <1>3, <1>4, <1>5, <1>10

LEMMA QueueFailsGrows ==
  ASSUME TableOK, NEW a \in Acts, QueueOutboundFails(a)
  PROVE  /\ TableGrows /\ JobsGrow /\ UNCHANGED jobs
         /\ \A s \in Servers, b \in Acts : s # Origin \/ b # a => table'[s][b] = table[s][b]
<1>1. UNCHANGED jobs
  BY DEF QueueOutboundFails
<1>2. CASE UNCHANGED table
  BY <1>1, <1>2, Kept
<1>3. CASE table[Origin][a] = "absent" /\ table' = [table EXCEPT ![Origin][a] = "pending"]
  <2>1. /\ TableGrows
        /\ \A s \in Servers, b \in Acts : <<s, b>> # <<Origin, a>> => table'[s][b] = table[s][b]
    BY <1>3, TableAddGrows, ServersFact
  <2>2. JobsGrow
    BY <1>1, Kept
  <2> QED BY <1>1, <2>1, <2>2
<1> QED BY <1>2, <1>3 DEF QueueOutboundFails

LEMMA BroadcastCore ==
  ASSUME Core, NEW e \in Editors, Broadcast(e)
  PROVE  Core' /\ Grows
<1> DEFINE a == edit[e].act
<1>1. UNCHANGED <<issued, handler, worker, request>> /\ edit[e].at = "queue"
  BY DEF Broadcast
<1>2. FedTypes' /\ UsedGrows
  BY BroadcastTypes DEF Core
<1>3. a \in Acts /\ a \in 1 .. Len(issued) /\ issued[a].by = Origin
  BY <1>1 DEF Core, EditsRouted, FedTypes, EditOK
<1>4. IssuedGrows /\ RequestsKeep /\ HandlersKeep /\ HeldKeep
  BY <1>1, Kept DEF Core, FedTypes
<1>5. EditsKeep
  <2>1. PICK x : edit' = [edit EXCEPT ![e] = x] /\ (x = DoneEdit \/ \E q : x = [edit[e] EXCEPT !.todo = q])
    BY DEF Broadcast
  <2>2. x.at # "queue" \/ x.act = edit[e].act
    BY <2>1, DoneEditIsDone DEF Core, FedTypes, EditOK
  <2> QED BY <1>1, <2>1, <2>2 DEF EditsKeep, Core, FedTypes, EditOK
<1>6. /\ TableGrows /\ JobsGrow /\ QueueOK'
      /\ \A s \in Servers, b \in Acts : b # a => table'[s][b] = table[s][b]
      /\ \A b \in Acts, p \in Peers : b # a => jobs'[<<b, p>>] = jobs[<<b, p>>]
  <2> HIDE DEF a
  <2>1. CASE QueueOutbound(a, Head(edit[e].todo))
    <3>1. Head(edit[e].todo) \in Peers
      <4>1. edit[e].todo \in Seq(Peers) /\ edit[e].todo # <<>>
        BY <1>1 DEF Core, FedTypes, EditOK
      <4> QED BY <4>1
    <3>2. /\ QueueOK' /\ TableGrows /\ JobsGrow
          /\ \A s \in Servers, b \in Acts : b # a => table'[s][b] = table[s][b]
          /\ \A k \in JobIds : k # <<a, Head(edit[e].todo)>> => jobs'[k] = jobs[k]
      BY <1>1, <1>2, <1>3, <1>4, <2>1, <3>1, QueueAdds DEF Core, FedTypes
    <3>3. \A b \in Acts, p \in Peers : <<b, p>> \in JobIds
      BY DEF JobIds
    <3> QED BY <3>2, <3>3
  <2>2. CASE QueueOutboundFails(a)
    <3>1. /\ TableGrows /\ JobsGrow /\ UNCHANGED jobs
          /\ \A s \in Servers, b \in Acts : s # Origin \/ b # a => table'[s][b] = table[s][b]
      BY <1>3, <2>2, QueueFailsGrows DEF Core, FedTypes
    <3> QED BY <1>2, <1>4, <3>1, QueueStays DEF Core, FedTypes
  <2> QED BY <2>1, <2>2 DEF Broadcast, a
<1>7. ActsOK'
  <2> HIDE DEF a
  <2>1. Len(issued) \in Nat
    BY DEF Core, FedTypes, IssuedOK
  <2>2. \A b \in Acts : b > Len(issued) => b # a
    BY <1>3, <2>1, NumbersFact
  <2> QED BY <1>1, <1>6, <2>2 DEF Core, ActsOK
<1> QED BY <1>2, <1>4, <1>5, <1>6, <1>7, CoreGrows

LEMMA QueueAcceptCore ==
  ASSUME Core, NEW a \in Acts, QueueAccept(a)
  PROVE  Core' /\ Grows
<1>1. /\ UNCHANGED <<edit, worker, request>> /\ handler[Origin][a] = "accept"
      /\ Issue("Accept", Origin, a) /\ handler' = [handler EXCEPT ![Origin][a] = "none"]
  BY DEF QueueAccept
<1>2. FedTypes' /\ UsedGrows
  BY QueueAcceptTypes DEF Core
<1>3. /\ a \in 1 .. Len(issued) /\ table[Origin][a] # "absent" /\ issued[a].by \in Peers
  <2>1. issued[a].type = "Follow"
    BY <1>1, ServersFact DEF Core, HandlersRouted
  <2> QED BY <1>1, <2>1, HandlerFacts, ServersFact
<1>4. "Accept" \in ActTypes /\ Origin \in Servers /\ a \in Nat
  BY ServersFact, NumbersFact DEF ActTypes
<1>5. /\ IssuedGrows /\ NewAct \in 1 .. Len(issued') /\ issued'[NewAct].by = Origin /\ NewAct # a
  <2>1. /\ Len(issued) \in Nat /\ Len(issued') = Len(issued) + 1 /\ NewAct = Len(issued')
        /\ issued'[NewAct] = [type |-> "Accept", by |-> Origin, obj |-> a]
        /\ NewAct \notin 1 .. Len(issued)
    BY <1>1, <1>4, IssueAppends DEF Core, FedTypes
  <2>2. IssuedGrows
    BY <1>1, <1>4, IssueGrows DEF Core, FedTypes
  <2> HIDE DEF NewAct
  <2> QED BY <1>3, <2>1, <2>2
<1>6. /\ NewAct \in Acts /\ table[Origin][NewAct] = "absent"
  BY <1>1, NewIsAbsent, ServersFact DEF Core, Issue
<1>7. HandlersKeep
  BY <1>1, HandlerCell, ServersFact DEF HandlersKeep, Core, FedTypes
<1>8. RequestsKeep /\ EditsKeep /\ HeldKeep
  BY <1>1, Kept
<1> HIDE DEF NewAct
<1>9. TableGrows /\ JobsGrow /\ QueueOK' /\ OnlyNew
  <2>1. CASE QueueOutbound(NewAct, issued[a].by)
    <3>1. /\ QueueOK' /\ TableGrows /\ JobsGrow
          /\ \A s \in Servers, b \in Acts : b # NewAct => table'[s][b] = table[s][b]
          /\ \A k \in JobIds : k # <<NewAct, issued[a].by>> => jobs'[k] = jobs[k]
      BY <1>2, <1>3, <1>5, <1>6, <2>1, QueueAdds DEF Core, FedTypes
    <3>2. \A b \in Acts, p \in Peers : <<b, p>> \in JobIds
      BY DEF JobIds
    <3> QED BY <3>1, <3>2 DEF OnlyNew
  <2>2. ASSUME UNCHANGED jobs, NEW stored \in {"absent", "pending"},
               NEW mark \in {"failed", "processed"},
               table' = [table EXCEPT ![Origin][a] = mark, ![Origin][NewAct] = stored]
        PROVE  TableGrows /\ JobsGrow /\ QueueOK' /\ OnlyNew
    <3>1. /\ table'[Origin][a] = mark
          /\ \A s \in Servers, b \in Acts :
                <<s, b>> # <<Origin, a>> /\ <<s, b>> # <<Origin, NewAct>> => table'[s][b] = table[s][b]
      BY <1>5, <1>6, <2>2, ServersFact DEF Core, FedTypes, TableOK
    <3>2. TableGrows /\ OnlyNew
      BY <1>3, <1>6, <2>2, <3>1 DEF TableGrows, OnlyNew
    <3> QED BY <1>2, <1>5, <2>2, <3>2, QueueStays, Kept DEF Core, FedTypes
  <2> QED BY <2>1, <2>2 DEF QueueAccept
<1>10. ActsOK'
  BY <1>1, <1>4, <1>9, ActsIssue DEF Core
<1> QED BY <1>2, <1>5, <1>7, <1>8, <1>9, <1>10, CoreGrows

LEMMA PeerSendCore ==
  ASSUME Core, NEW p \in Peers, PeerSend(p)
  PROVE  Core' /\ Grows
<1>1. UNCHANGED <<edit, table, handler, jobs, worker>> /\ Post(Origin, NewAct, None)
  BY DEF PeerSend
<1>2. /\ FedTypes' /\ UsedGrows
      /\ \E type \in {"Follow", "Undo"}, obj \in Nat : Issue(type, p, obj)
  BY PeerSendTypes DEF Core
<1>3. PICK type \in {"Follow", "Undo"}, obj \in Nat : Issue(type, p, obj)
  BY <1>2
<1>4. type \in ActTypes /\ p \in Servers
  BY ServersFact DEF ActTypes
<1>5. /\ IssuedGrows /\ NewAct \in 1 .. Len(issued') /\ issued'[NewAct].by = p
  <2>1. /\ Len(issued) \in Nat /\ Len(issued') = Len(issued) + 1 /\ NewAct = Len(issued')
        /\ issued'[NewAct] = [type |-> type, by |-> p, obj |-> obj]
    BY <1>3, <1>4, IssueAppends DEF Core, FedTypes
  <2>2. IssuedGrows
    BY <1>3, <1>4, IssueGrows DEF Core, FedTypes
  <2> HIDE DEF NewAct
  <2> QED BY <2>1, <2>2
<1>6. OnlyNew
  BY <1>1 DEF OnlyNew
<1>7. ActsOK'
  BY <1>3, <1>4, <1>6, ActsIssue DEF Core
<1>8. TableGrows /\ JobsGrow /\ HandlersKeep /\ EditsKeep /\ HeldKeep
  BY <1>1, Kept
<1>9. QueueOK'
  BY <1>1, <1>2, <1>5, <1>8, QueueStays DEF Core, FedTypes
<1>10. RequestsRouted'
  <2> HIDE DEF NewAct
  <2> QED BY <1>1, <1>2, <1>5, PostRouted DEF Core
<1> QED BY <1>2, <1>5, <1>7, <1>8, <1>9, <1>10, CoreGrows

LEMMA RejectCore ==
  ASSUME Core, NEW p \in Peers, RejectFollow(p)
  PROVE  Core' /\ Grows
<1>1. UNCHANGED <<edit, handler, worker, request>> /\ Issue("Reject", Origin, follows[p].uri)
  BY DEF RejectFollow
<1>2. FedTypes' /\ UsedGrows /\ follows[p].uri \in Nat
  BY RejectTypes DEF Core
<1>3. "Reject" \in ActTypes /\ Origin \in Servers
  BY ServersFact DEF ActTypes
<1>4. /\ IssuedGrows /\ NewAct \in 1 .. Len(issued') /\ issued'[NewAct].by = Origin
  <2>1. /\ Len(issued) \in Nat /\ Len(issued') = Len(issued) + 1 /\ NewAct = Len(issued')
        /\ issued'[NewAct] = [type |-> "Reject", by |-> Origin, obj |-> follows[p].uri]
    BY <1>1, <1>2, <1>3, IssueAppends DEF Core, FedTypes
  <2>2. IssuedGrows
    BY <1>1, <1>2, <1>3, IssueGrows DEF Core, FedTypes
  <2> HIDE DEF NewAct
  <2> QED BY <2>1, <2>2
<1>5. NewAct \in Acts
  BY <1>1, NewIsAbsent DEF Core, Issue
<1>6. RequestsKeep /\ EditsKeep /\ HeldKeep /\ HandlersKeep
  BY <1>1, Kept
<1> HIDE DEF NewAct
<1>7. TableGrows /\ JobsGrow /\ QueueOK' /\ OnlyNew
  <2>1. CASE QueueOutbound(NewAct, p)
    <3>1. /\ QueueOK' /\ TableGrows /\ JobsGrow
          /\ \A s \in Servers, b \in Acts : b # NewAct => table'[s][b] = table[s][b]
          /\ \A k \in JobIds : k # <<NewAct, p>> => jobs'[k] = jobs[k]
      BY <1>2, <1>4, <1>5, <2>1, QueueAdds DEF Core, FedTypes
    <3>2. \A b \in Acts, q \in Peers : <<b, q>> \in JobIds
      BY DEF JobIds
    <3> QED BY <3>1, <3>2 DEF OnlyNew
  <2>2. CASE QueueOutboundFails(NewAct)
    <3>1. /\ TableGrows /\ JobsGrow /\ UNCHANGED jobs
          /\ \A s \in Servers, b \in Acts : s # Origin \/ b # NewAct => table'[s][b] = table[s][b]
      BY <1>5, <2>2, QueueFailsGrows DEF Core, FedTypes
    <3> QED BY <1>2, <1>4, <3>1, QueueStays DEF Core, FedTypes, OnlyNew
  <2> QED BY <2>1, <2>2 DEF RejectFollow
<1>8. ActsOK'
  BY <1>1, <1>2, <1>3, <1>7, ActsIssue DEF Core
<1> QED BY <1>2, <1>4, <1>6, <1>7, <1>8, CoreGrows

LEMMA CoreStep ==
  ASSUME Core, [Next]_vars
  PROVE  Core' /\ Grows
<1>1. CASE UNCHANGED vars
  <2>1. FedTypes' /\ UsedGrows
    BY <1>1, SameOK DEF vars, Core, FedTypes
  <2> QED BY <1>1, <2>1, Kept, CoreQuiet DEF vars
<1>2. ASSUME NEW e \in Editors, EditorStep(e) \/ EditRead(e) PROVE Core' /\ Grows
  BY <1>2, EditReadCore, EditUpdateCore, PublishCore, PublishFailsCore, BroadcastCore
     DEF EditorStep
<1>3. ASSUME NEW w \in Workers, WorkerStep(w) \/ TimeOut(w) PROVE Core' /\ Grows
  BY <1>3, SelectCore, SkipCore, DeliverCore, MarkDeliveredCore, MarkAttemptCore, TimeOutCore
     DEF WorkerStep
<1>4. ASSUME NEW s \in Slots, InboxStep(s) PROVE Core' /\ Grows
  BY <1>4, InboxCheckCore, InboxStoreCore DEF InboxStep
<1>5. CASE SystemNext
  BY <1>2, <1>3, <1>4, <1>5, HandleCore, QueueAcceptCore DEF SystemNext
<1>6. CASE Environment
  BY <1>2, <1>3, <1>6, PeerSendCore, RejectCore, PeerRepostCore, ModerationCore, RetryCore,
     RestartCore DEF Environment
<1> QED BY <1>1, <1>5, <1>6 DEF Next

LEMMA InitCore == Init => Core
<1> SUFFICES ASSUME Init PROVE Core
  OBVIOUS
<1>1. FedTypes
  BY InitTypes
<1>2. /\ \A s \in Servers, a \in Acts : table[s][a] = "absent" /\ handler[s][a] = "none"
      /\ \A k \in JobIds : jobs[k].st = "absent"
      /\ \A s \in Slots : request[s].at = "free"
      /\ \A e \in Editors : edit[e].at = "new"
      /\ \A w \in Workers : worker[w].batch = {} /\ worker[w].job = None
      /\ Len(issued) = 0
  BY DEF Init, FreeSlot, IdleEdit, IdleWorker
<1>3. \A a \in Acts, p \in Peers : <<a, p>> \in JobIds
  BY DEF JobIds
<1>4. ActsOK /\ QueueOK
  BY <1>2, <1>3 DEF ActsOK, QueueOK
<1>5. HeldOK
  BY <1>2, HeldMeans DEF HeldOK, InBatch, InHand
<1>6. RequestsRouted /\ HandlersRouted /\ EditsRouted
  BY <1>2 DEF RequestsRouted, HandlersRouted, EditsRouted
<1> QED BY <1>1, <1>4, <1>5, <1>6 DEF Core

LEMMA CoreInvariant == Spec => []Core
<1>1. Core /\ [Next]_vars => Core'
  BY CoreStep
<1> QED BY <1>1, InitCore, PTL DEF Spec

\* Every table keeps its columns' types, every loop and task its states, and no worker
\* takes on more than a batch.
THEOREM FederationType == Spec => []TypeOK
<1>1. Core => TypeOK
  <2> SUFFICES ASSUME Core PROVE TypeOK
    OBVIOUS
  <2>1. video \in [vis : {"public", "local_only"}, ver : Nat, uri : BOOLEAN]
    BY DEF Core, FedTypes, VideoOK, Visibilities
  <2>2. \A e \in Editors :
          /\ edit[e].at \in {"new", "update", "Create", "Update", "Delete", "queue", "done"}
          /\ edit[e].act \in 0 .. MaxActs
          /\ edit[e].todo \in Seq(Peers)
    BY DEF Core, FedTypes, EditOK
  <2>3. issued \in Seq([type : {"Create", "Update", "Delete", "Follow", "Undo", "Accept",
                               "Reject"}, by : Servers, obj : Nat])
    BY DEF Core, FedTypes, IssuedOK, ActTypes
  <2>4. \A w \in Workers :
          /\ worker[w].at \in {"idle", "next", "wait", "ok", "err"}
          /\ worker[w].at \in {"idle", "next"} <=> worker[w].job = None
          /\ Cardinality(worker[w].batch) <= BatchSize
          /\ \A j \in worker[w].batch : j.id \in JobIds /\ j.tries \in 0 .. MaxAttempts
    <3>1. \A j \in WorkJobs : j.id \in JobIds /\ j.tries \in 0 .. MaxAttempts
      BY NumbersFact DEF WorkJobs
    <3> QED BY <3>1 DEF Core, FedTypes, WorkerOK
  <2> QED BY <2>1, <2>2, <2>3, <2>4
          DEF TypeOK, Core, FedTypes, TableOK, HandlerOK, JobsOK, RequestOK, FollowsOK,
              CatalogOK, RulesOK
<1> QED BY <1>1, CoreInvariant, PTL
-----------------------------------------------------------------------------
(* Every inbox applies an activity once, and handles what it has acknowledged. *)

\* What edits and workers note.
LEMMA EditorHistory ==
  ASSUME NEW e \in Editors, EditorStep(e)
  PROVE  UNCHANGED history \/ \E l : history' = [history EXCEPT !.lost = l]
<1>1. EditUpdate(e) => UNCHANGED history \/ \E l : history' = [history EXCEPT !.lost = l]
  BY DEF EditUpdate
<1>2. Publish(e) => \E l : history' = [history EXCEPT !.lost = l]
  BY DEF Publish
<1> QED BY <1>1, <1>2 DEF EditorStep, PublishFails, Broadcast

LEMMA WorkerHistory ==
  ASSUME NEW w \in Workers, WorkerStep(w) \/ TimeOut(w)
  PROVE  \/ SelectDueJobs(w)
         \/ UNCHANGED history
         \/ \E O : history' = [history EXCEPT !.orphaned = O]
<1>1. DeliverJob(w) => UNCHANGED history \/ \E O : history' = [history EXCEPT !.orphaned = O]
  BY DEF DeliverJob
<1>2. MarkDelivered(w) \/ MarkAttempt(w) =>
         UNCHANGED history \/ \E O : history' = [history EXCEPT !.orphaned = O]
  BY DEF MarkDelivered, MarkAttempt, JobUnmarked
<1> QED BY <1>1, <1>2 DEF WorkerStep, SkipBlocked, TimeOut

\* Only the task that handles an activity counts it as applied; what was left
\* unmarked stays so.
LEMMA AppliedSame ==
  ASSUME Core, [Next]_vars, \A s \in Servers, a \in Acts : ~HandleActivity(s, a)
  PROVE  /\ history'.applied = history.applied /\ history'.overtaken = history.overtaken
         /\ history.unmarked \subseteq history'.unmarked
<1> DEFINE Goal == /\ history'.applied = history.applied
                   /\ history'.overtaken = history.overtaken
                   /\ history.unmarked \subseteq history'.unmarked
<1>1. UNCHANGED history => Goal
  OBVIOUS
<1>2. HistoryOK
  BY DEF Core, FedTypes
<1>3. ASSUME NEW e \in Editors, EditorStep(e) \/ EditRead(e) PROVE Goal
  <2>1. CASE EditRead(e)
    <3>1. PICK t : history' = [history EXCEPT !.tangled = t]
      BY <2>1 DEF EditRead
    <3> QED BY <1>2, <3>1 DEF HistoryOK, HistoryRecs
  <2>2. CASE \E t : history' = [history EXCEPT !.lost = t]
    BY <1>2, <2>2 DEF HistoryOK, HistoryRecs
  <2> QED BY <1>1, <1>3, <2>1, <2>2, EditorHistory
<1>4. ASSUME NEW w \in Workers, WorkerStep(w) \/ TimeOut(w) PROVE Goal
  <2>1. CASE SelectDueJobs(w)
    <3>1. PICK R : history' = [history EXCEPT !.raced = R]
      BY <2>1 DEF SelectDueJobs
    <3> QED BY <1>2, <3>1 DEF HistoryOK, HistoryRecs
  <2>2. CASE \E O : history' = [history EXCEPT !.orphaned = O]
    BY <1>2, <2>2 DEF HistoryOK, HistoryRecs
  <2> QED BY <1>1, <1>4, <2>1, <2>2, WorkerHistory
<1>5. ASSUME NEW s \in Slots, InboxStep(s) PROVE Goal
  <2>1. CASE UNCHANGED history
    BY <1>1, <2>1
  <2>2. ASSUME NEW good \in BOOLEAN, Answer(s, good) PROVE Goal
    <3>1. UNCHANGED history \/ \E A : history' = [history EXCEPT !.acked = A]
      BY <2>2 DEF Answer
    <3> QED BY <1>1, <1>2, <3>1 DEF HistoryOK, HistoryRecs
  <2>3. CASE Admit(s)
    <3>1. \/ UNCHANGED history
          \/ \E x : history' = [history EXCEPT !.admitted[request[s].srv] = x]
      BY <2>3 DEF Admit
    <3> QED BY <1>1, <1>2, <3>1 DEF HistoryOK, HistoryRecs
  <2> QED BY <1>5, <2>1, <2>2, <2>3 DEF InboxStep, InboxCheck, InboxStore
<1>6. ASSUME NEW s, NEW d, SetDomainRule(s, d) PROVE Goal
  <2>1. CASE UNCHANGED history
    BY <1>1, <2>1
  <2>2. CASE history' = [history EXCEPT !.admitted[s] = Admitted(s, d)]
    BY <1>2, <2>2 DEF HistoryOK, HistoryRecs
  <2> QED BY <1>6, <2>1, <2>2 DEF SetDomainRule
<1>7. ASSUME NEW s, NEW d, DeleteDomainRule(s, d) PROVE Goal
  <2>1. CASE UNCHANGED history
    BY <1>1, <2>1
  <2>2. CASE history' = [history EXCEPT !.purged[s] = "free"]
    BY <1>2, <2>2 DEF HistoryOK, HistoryRecs
  <2> QED BY <1>7, <2>1, <2>2 DEF DeleteDomainRule
<1>8. ASSUME NEW p \in Peers, PurgeRemoteVideos(p) PROVE Goal
  <2>1. PICK x : history' = [history EXCEPT !.purged[p] = x]
    BY <1>8 DEF PurgeRemoteVideos
  <2> QED BY <1>2, <2>1 DEF HistoryOK, HistoryRecs
<1>9. CASE RestartOrigin
  <2>1. PICK t, O : history' = [history EXCEPT !.unmarked = @ \cup Unfinished(Origin),
                                               !.orphaned = O, !.tangled = t]
    BY <1>9 DEF RestartOrigin
  <2> QED BY <1>2, <2>1 DEF HistoryOK, HistoryRecs
<1>10. ASSUME NEW p \in Peers, RestartPeer(p) PROVE Goal
  BY <1>2, <1>10 DEF RestartPeer, HistoryOK, HistoryRecs
<1>11. CASE SystemNext
  BY <1>1, <1>3, <1>4, <1>5, <1>11 DEF SystemNext, QueueAccept
<1>12. CASE Environment
  BY <1>1, <1>3, <1>4, <1>6, <1>7, <1>8, <1>9, <1>10, <1>12
     DEF Environment, PeerSend, RejectFollow, PeerRepost, RetryDeliveryJob
<1> QED BY <1>1, <1>11, <1>12 DEF Next, vars

\* A task that a stop ends is noted, unless it had but an answer to queue.
TaskEnds(s, a) ==
    \/ handler'[s][a] = handler[s][a]
    \/ handler'[s][a] = "none" /\ <<s, a>> \in history'.unmarked
    \/ /\ handler'[s][a] = "none" /\ s = Origin /\ handler[s][a] = "accept"
       /\ table'[s][a] # "pending"

LEMMA StopEnds ==
  ASSUME Core, NEW srv \in Servers,
         handler' = [handler EXCEPT ![srv] = [b \in Acts |-> "none"]],
         Unfinished(srv) \subseteq history'.unmarked, UNCHANGED table,
         NEW s \in Servers, NEW a \in Acts
  PROVE  TaskEnds(s, a)
<1>1. CASE handler'[s][a] = handler[s][a]
  BY <1>1 DEF TaskEnds
<1>2. CASE handler'[s][a] # handler[s][a]
  <2>1. s = srv /\ handler'[s][a] = "none" /\ handler[s][a] \in {"apply", "accept"}
    BY <1>2 DEF Core, FedTypes, HandlerOK
  <2>2. CASE handler[s][a] = "apply"
    <3>1. <<s, a>> \in Unfinished(srv)
      BY <2>1, <2>2 DEF Unfinished
    <3> QED BY <2>1, <3>1 DEF TaskEnds
  <2>3. CASE handler[s][a] = "accept"
    BY <2>1, <2>3 DEF Core, HandlersRouted, TaskEnds
  <2> QED BY <2>1, <2>2, <2>3
<1> QED BY <1>1, <1>2

LEMMA UnmarkedGrow ==
  ASSUME HistoryOK, NEW U, NEW t, NEW O,
         \/ history' = [history EXCEPT !.unmarked = @ \cup U, !.orphaned = O, !.tangled = t]
         \/ history' = [history EXCEPT !.unmarked = @ \cup U]
  PROVE  U \subseteq history'.unmarked
<1>1. CASE history' = [history EXCEPT !.unmarked = @ \cup U, !.orphaned = O, !.tangled = t]
  BY <1>1 DEF HistoryOK, HistoryRecs
<1>2. CASE history' = [history EXCEPT !.unmarked = @ \cup U]
  BY <1>2 DEF HistoryOK, HistoryRecs
<1> QED BY <1>1, <1>2

LEMMA RestartEnds ==
  ASSUME Core, NEW s \in Servers, NEW a \in Acts
  PROVE  /\ RestartOrigin => TaskEnds(s, a)
         /\ \A p \in Peers : RestartPeer(p) => TaskEnds(s, a)
<1> DEFINE U(srv) == Unfinished(srv)
<1>1. HistoryOK
  BY DEF Core, FedTypes
<1>2. ASSUME RestartOrigin PROVE TaskEnds(s, a)
  <2>1. PICK t, O : history' = [history EXCEPT !.unmarked = @ \cup U(Origin), !.orphaned = O,
                                               !.tangled = t]
    BY <1>2 DEF RestartOrigin
  <2>2. /\ handler' = [handler EXCEPT ![Origin] = [b \in Acts |-> "none"]]
        /\ UNCHANGED table /\ Origin \in Servers
    BY <1>2, ServersFact DEF RestartOrigin
  <2> HIDE DEF U
  <2>3. U(Origin) \subseteq history'.unmarked
    BY <1>1, <2>1, UnmarkedGrow
  <2> QED BY <2>2, <2>3, StopEnds DEF U
<1>3. ASSUME NEW p \in Peers, RestartPeer(p) PROVE TaskEnds(s, a)
  <2>1. history' = [history EXCEPT !.unmarked = @ \cup U(p)]
    BY <1>3 DEF RestartPeer
  <2>2. /\ handler' = [handler EXCEPT ![p] = [b \in Acts |-> "none"]]
        /\ UNCHANGED table /\ p \in Servers
    BY <1>3, ServersFact DEF RestartPeer
  <2> HIDE DEF U
  <2>3. U(p) \subseteq history'.unmarked
    BY <1>1, <2>1, UnmarkedGrow
  <2> QED BY <2>2, <2>3, StopEnds DEF U
<1> QED BY <1>2, <1>3

\* The tasks that handle activities: who starts, ends or moves them.
LEMMA HandlerView ==
  ASSUME Core, [Next]_vars, \A z \in Servers, b \in Acts : ~HandleActivity(z, b),
         NEW s \in Servers, NEW a \in Acts
  PROVE  \/ TaskEnds(s, a)
         \/ /\ handler'[s][a] = "apply" /\ table[s][a] = "absent" /\ table'[s][a] = "pending"
            /\ \E z \in Slots : /\ request[z].srv = s /\ request[z].act = a
                                /\ request[z].at = "store"
<1>1. ASSUME NEW z \in Slots, InboxStore(z)
      PROVE  \/ handler'[s][a] = handler[s][a]
             \/ /\ handler'[s][a] = "apply" /\ table[s][a] = "absent" /\ table'[s][a] = "pending"
                /\ request[z].srv = s /\ request[z].act = a /\ request[z].at = "store"
  <2>1. CASE UNCHANGED handler
    BY <2>1
  <2>2. CASE handler' # handler
    <3> DEFINE srv == request[z].srv
               act == request[z].act
    <3>1. /\ request[z].at = "store" /\ table[srv][act] = "absent"
          /\ table' = [table EXCEPT ![srv][act] = "pending"]
          /\ handler' = [handler EXCEPT ![srv][act] = "apply"]
      BY <1>1, <2>2 DEF InboxStore
    <3>2. srv \in Servers /\ act \in Acts
      BY <3>1 DEF Core, FedTypes, RequestOK
    <3>3. /\ handler'[srv][act] = "apply" /\ table'[srv][act] = "pending"
          /\ \A x \in Servers, c \in Acts : <<x, c>> # <<srv, act>> => handler'[x][c] = handler[x][c]
      <4>1. HandlerOK /\ TableOK
        BY DEF Core, FedTypes
      <4> HIDE DEF srv, act
      <4>2. /\ handler'[srv][act] = "apply"
            /\ \A x \in Servers, c \in Acts :
                  <<x, c>> # <<srv, act>> => handler'[x][c] = handler[x][c]
        BY <3>1, <3>2, <4>1, HandlerCell
      <4>3. table'[srv][act] = "pending"
        BY <3>1, <3>2, <4>1, TableAddGrows
      <4> QED BY <4>2, <4>3
    <3> QED BY <3>1, <3>3
  <2> QED BY <2>1, <2>2
<1>2. ASSUME NEW b \in Acts, QueueAccept(b)
      PROVE  \/ handler'[s][a] = handler[s][a]
             \/ /\ handler'[s][a] = "none" /\ s = Origin /\ handler[s][a] = "accept"
                /\ table'[s][a] # "pending"
  <2>1. /\ handler[Origin][b] = "accept" /\ handler' = [handler EXCEPT ![Origin][b] = "none"]
    BY <1>2 DEF QueueAccept
  <2>2. table[Origin][b] \notin {"absent", "pending"}
    BY <2>1, ServersFact DEF Core, HandlersRouted
  <2>3. table'[Origin][b] # "pending"
    BY <1>2, <2>2, QueueAcceptCore, ServersFact DEF Grows, TableGrows
  <2> QED BY <2>1, <2>3, HandlerCell, ServersFact DEF Core, FedTypes
<1>3. \/ UNCHANGED handler
      \/ \E z \in Slots : InboxStore(z)
      \/ \E b \in Acts : QueueAccept(b)
      \/ RestartOrigin
      \/ \E p \in Peers : RestartPeer(p)
  BY DEF Next, vars, SystemNext, Environment, EditorStep, EditUpdate, Publish, PublishFails,
         Broadcast, EditRead, WorkerStep, SelectDueJobs, SkipBlocked, DeliverJob, MarkDelivered,
         MarkAttempt, TimeOut, InboxStep, InboxCheck, PeerSend, RejectFollow, PurgeRemoteVideos, PeerRepost,
         SetDomainRule, DeleteDomainRule, RetryDeliveryJob
<1>4. CASE UNCHANGED handler
  BY <1>4 DEF TaskEnds
<1>5. ASSUME NEW b \in Acts, QueueAccept(b) PROVE TaskEnds(s, a)
  BY <1>2, <1>5 DEF TaskEnds
<1>6. ASSUME NEW z \in Slots, InboxStore(z)
      PROVE  \/ TaskEnds(s, a)
             \/ /\ handler'[s][a] = "apply" /\ table[s][a] = "absent"
                /\ table'[s][a] = "pending"
                /\ request[z].srv = s /\ request[z].act = a /\ request[z].at = "store"
  BY <1>1, <1>6 DEF TaskEnds
<1> QED BY <1>3, <1>4, <1>5, <1>6, RestartEnds

\* What is noted of an activity that is handled.
LEMMA HandleHistory ==
  ASSUME Core, NEW s \in Servers, NEW a \in Acts, HandleActivity(s, a)
  PROVE  /\ history'.applied \in {history.applied, [history.applied EXCEPT ![s][a] = @ + 1]}
         /\ history'.overtaken = history.overtaken
               \/ history'.overtaken = IF Overtakes(s, a) THEN history.overtaken \cup {s}
                                                          ELSE history.overtaken
         /\ history'.applied = history.applied => history'.overtaken = history.overtaken
         /\ history.unmarked \subseteq history'.unmarked
         /\ history'.admitted = history.admitted /\ history'.purged = history.purged
         /\ history'.raced = history.raced /\ history'.acked = history.acked
         /\ history'.orphaned = history.orphaned
         /\ history'.tangled = history.tangled /\ history'.lost = history.lost
         /\ \/ <<s, a>> \in history'.unmarked
            \/ \E st \in {"processed", "failed"} : MarkActivity(s, a, st)
<1> DEFINE O == IF Overtakes(s, a) THEN history.overtaken \cup {s} ELSE history.overtaken
           f == [history.applied EXCEPT ![s][a] = @ + 1]
           U == history.unmarked \cup {<<s, a>>}
<1>1. history \in HistoryRecs
  BY DEF Core, FedTypes, HistoryOK
<1>2. \/ /\ \/ history' = history
            \/ history' = [history EXCEPT !.applied = f, !.overtaken = O]
         /\ \E st \in {"processed", "failed"} : MarkActivity(s, a, st)
      \/ history' = [history EXCEPT !.unmarked = U]
      \/ history' = [history EXCEPT !.applied = f, !.overtaken = O, !.unmarked = U]
  BY <1>1 DEF HandleActivity, HandleError, HistoryRecs
<1>3. <<s, a>> \in U /\ history.unmarked \subseteq U
  OBVIOUS
<1> HIDE DEF f, O, U
<1>4. /\ history'.applied \in {history.applied, f}
      /\ history'.overtaken \in {history.overtaken, O}
      /\ history.unmarked \subseteq history'.unmarked
      /\ history'.admitted = history.admitted /\ history'.purged = history.purged
      /\ history'.raced = history.raced /\ history'.acked = history.acked
      /\ history'.orphaned = history.orphaned
      /\ history'.tangled = history.tangled /\ history'.lost = history.lost
      /\ \/ <<s, a>> \in history'.unmarked
         \/ \E st \in {"processed", "failed"} : MarkActivity(s, a, st)
      /\ history'.applied = f \/ history'.overtaken = history.overtaken
  BY <1>1, <1>2, <1>3 DEF HistoryRecs
<1>5. f # history.applied
  BY <1>1 DEF f, HistoryRecs
<1> QED BY <1>4, <1>5 DEF f, O

\* The effect is noted, whatever goes wrong after it.
LEMMA HandleEffect ==
  ASSUME Core, NEW s \in Servers, NEW a \in Acts, HandleActivity(s, a)
  PROVE  \/ /\ Effect(s, a)
            /\ history'.applied = [history.applied EXCEPT ![s][a] = @ + 1]
            /\ history'.overtaken = IF Overtakes(s, a) THEN history.overtaken \cup {s}
                                                       ELSE history.overtaken
         \/ /\ UNCHANGED catalog
            /\ history'.applied = history.applied /\ history'.overtaken = history.overtaken
            /\ UNCHANGED table \/ MarkActivity(s, a, "failed")
<1> DEFINE O == IF Overtakes(s, a) THEN history.overtaken \cup {s} ELSE history.overtaken
           f == [history.applied EXCEPT ![s][a] = @ + 1]
           U == history.unmarked \cup {<<s, a>>}
           Done == \/ history' = [history EXCEPT !.applied = f, !.overtaken = O]
                   \/ history' = [history EXCEPT !.applied = f, !.overtaken = O, !.unmarked = U]
           Undone == history' = history \/ history' = [history EXCEPT !.unmarked = U]
<1>1. history \in HistoryRecs
  BY DEF Core, FedTypes, HistoryOK
<1>2. \/ Effect(s, a) /\ Done
      \/ UNCHANGED catalog /\ Undone /\ (UNCHANGED table \/ MarkActivity(s, a, "failed"))
  BY <1>1 DEF HandleActivity, HandleError, HistoryRecs
<1>3. Done => history'.applied = f /\ history'.overtaken = O
  <2> HIDE DEF f, O, U
  <2> QED BY <1>1 DEF HistoryRecs
<1>4. Undone => history'.applied = history.applied /\ history'.overtaken = history.overtaken
  <2> HIDE DEF U
  <2> QED BY <1>1 DEF HistoryRecs
<1> HIDE DEF Done, Undone
<1> QED BY <1>2, <1>3, <1>4

\* What the task that handles an activity does.
LEMMA HandleView ==
  ASSUME Core, NEW s \in Servers, NEW a \in Acts, HandleActivity(s, a)
  PROVE  /\ handler[s][a] = "apply" /\ handler'[s][a] # "apply"
         /\ \A z \in Servers, b \in Acts :
               <<z, b>> # <<s, a>> => /\ handler'[z][b] = handler[z][b]
                                      /\ table'[z][b] = table[z][b]
                                      /\ history'.applied[z][b] = history.applied[z][b]
         /\ history'.applied[s][a] <= history.applied[s][a] + 1
         /\ history.unmarked \subseteq history'.unmarked
         /\ history'.admitted = history.admitted /\ history'.purged = history.purged
         /\ history'.raced = history.raced /\ history'.acked = history.acked
         /\ history'.orphaned = history.orphaned
         /\ history'.tangled = history.tangled /\ history'.lost = history.lost
         /\ table'[s][a] \in {"processed", "failed"}
               \/ (table'[s][a] = table[s][a] /\ <<s, a>> \in history'.unmarked)
<1>1. handler[s][a] = "apply" /\ table[s][a] # "absent"
  BY HandlerFacts DEF HandleActivity
<1>2. /\ handler'[s][a] # "apply"
      /\ \A z \in Servers, b \in Acts : <<z, b>> # <<s, a>> => handler'[z][b] = handler[z][b]
  <2>1. PICK st \in {"none", "accept"} : handler' = [handler EXCEPT ![s][a] = st]
    BY DEF HandleActivity, HandleError
  <2>2. HandlerOK
    BY DEF Core, FedTypes
  <2>3. /\ handler'[s][a] = st
        /\ \A z \in Servers, b \in Acts : <<z, b>> # <<s, a>> => handler'[z][b] = handler[z][b]
    <3>1. handler' = [handler EXCEPT ![s][a] = st]
      BY <2>1
    <3> QED BY <2>2, <3>1 DEF HandlerOK
  <2> QED BY <2>1, <2>3
<1>3. /\ \A z \in Servers, b \in Acts :
            <<z, b>> # <<s, a>> => history'.applied[z][b] = history.applied[z][b]
      /\ history'.applied[s][a] <= history.applied[s][a] + 1
      /\ history.unmarked \subseteq history'.unmarked
      /\ history'.admitted = history.admitted /\ history'.purged = history.purged
      /\ history'.raced = history.raced /\ history'.acked = history.acked
      /\ history'.orphaned = history.orphaned
      /\ history'.tangled = history.tangled /\ history'.lost = history.lost
  <2>1. history.applied \in [Servers -> [Acts -> Nat]] /\ history.applied[s][a] \in Nat
    BY DEF Core, FedTypes, HistoryOK, HistoryRecs
  <2>2. /\ history'.applied \in {history.applied, [history.applied EXCEPT ![s][a] = @ + 1]}
        /\ history.unmarked \subseteq history'.unmarked
        /\ history'.admitted = history.admitted /\ history'.purged = history.purged
        /\ history'.raced = history.raced /\ history'.acked = history.acked
        /\ history'.orphaned = history.orphaned
        /\ history'.tangled = history.tangled /\ history'.lost = history.lost
    BY HandleHistory
  <2> QED BY <2>1, <2>2
<1>4. /\ \A z \in Servers, b \in Acts : <<z, b>> # <<s, a>> => table'[z][b] = table[z][b]
      /\ table'[s][a] \in {"processed", "failed"}
            \/ (table'[s][a] = table[s][a] /\ <<s, a>> \in history'.unmarked)
  <2>1. ASSUME NEW st \in {"processed", "failed"}, MarkActivity(s, a, st)
        PROVE  /\ \A z \in Servers, b \in Acts : <<z, b>> # <<s, a>> => table'[z][b] = table[z][b]
               /\ table'[s][a] \in {"processed", "failed"}
    BY <1>1, <2>1, TableMarkGrows DEF MarkActivity, Core, FedTypes
  <2>2. \/ UNCHANGED table /\ <<s, a>> \in history'.unmarked
        \/ \E st \in {"processed", "failed"} : MarkActivity(s, a, st)
    BY HandleHistory DEF HandleActivity, HandleError
  <2> QED BY <2>1, <2>2
<1> QED BY <1>1, <1>2, <1>3, <1>4

LEMMA HandleElsewhere ==
  ASSUME Core, NEW z \in Servers, NEW b \in Acts, HandleActivity(z, b),
         NEW s \in Servers, NEW a \in Acts, ~(z = s /\ b = a)
  PROVE  /\ handler'[s][a] = handler[s][a] /\ table'[s][a] = table[s][a]
         /\ history'.applied[s][a] = history.applied[s][a]
<1>1. <<s, a>> # <<z, b>>
  OBVIOUS
<1>2. \A x \in Servers, c \in Acts :
         <<x, c>> # <<z, b>> => /\ handler'[x][c] = handler[x][c]
                                /\ table'[x][c] = table[x][c]
                                /\ history'.applied[x][c] = history.applied[x][c]
  BY HandleView
<1> QED BY <1>1, <1>2

LEMMA AppliedStep ==
  ASSUME Core, AppliedOK, [Next]_vars
  PROVE  AppliedOK'
<1>1. Core' /\ Grows
  BY CoreStep
<1>2. \A s \in Servers, a \in Acts : history.applied[s][a] \in Nat /\ history'.applied[s][a] \in Nat
  BY <1>1 DEF Core, FedTypes, HistoryOK, HistoryRecs
<1> SUFFICES ASSUME NEW s \in Servers, NEW a \in Acts
             PROVE  /\ history'.applied[s][a] <= 1
                    /\ table'[s][a] = "absent" \/ handler'[s][a] = "apply" =>
                          history'.applied[s][a] = 0
  BY DEF AppliedOK
<1>3. table'[s][a] = "absent" => table[s][a] = "absent"
  BY <1>1 DEF Grows, TableGrows
<1>4. /\ history.applied[s][a] <= 1
      /\ table[s][a] = "absent" \/ handler[s][a] = "apply" => history.applied[s][a] = 0
  BY DEF AppliedOK
<1>5. CASE \A z \in Servers, b \in Acts : ~HandleActivity(z, b)
  <2>1. history'.applied = history.applied
    BY <1>5, AppliedSame
  <2>2. handler'[s][a] = "apply" => handler[s][a] = "apply" \/ table[s][a] = "absent"
    BY <1>3, <1>5, HandlerView DEF TaskEnds
  <2> QED BY <1>3, <1>4, <2>1, <2>2
<1>6. ASSUME NEW z \in Servers, NEW b \in Acts, HandleActivity(z, b)
      PROVE  /\ history'.applied[s][a] <= 1
             /\ table'[s][a] = "absent" \/ handler'[s][a] = "apply" => history'.applied[s][a] = 0
  <2>1. CASE z = s /\ b = a
    <3>1. /\ handler[s][a] = "apply" /\ handler'[s][a] # "apply"
          /\ history'.applied[s][a] <= history.applied[s][a] + 1
      BY <1>6, <2>1, HandleView
    <3>2. table'[s][a] # "absent"
      BY <1>3, <3>1, HandlerFacts
    <3> QED BY <1>2, <1>4, <3>1, <3>2
  <2>2. CASE ~(z = s /\ b = a)
    <3>1. /\ handler'[s][a] = handler[s][a] /\ table'[s][a] = table[s][a]
          /\ history'.applied[s][a] = history.applied[s][a]
      BY <1>3, <1>6, <2>2, HandleElsewhere
    <3> QED BY <1>3, <1>4, <3>1
  <2> QED BY <2>1, <2>2
<1> QED BY <1>5, <1>6

\* No inbox applies an activity twice, however often workers and peers post it, however
\* the posts interleave, and whatever fails or restarts in between.
THEOREM FederationAppliedOnce == Spec => []AppliedOnce
<1>1. Init => AppliedOK
  BY DEF Init, AppliedOK
<1>2. Core /\ AppliedOK /\ [Next]_vars => AppliedOK'
  BY AppliedStep
<1>3. AppliedOK => AppliedOnce
  BY DEF AppliedOK, AppliedOnce
<1> QED BY <1>1, <1>2, <1>3, CoreInvariant, PTL DEF Spec
-----------------------------------------------------------------------------
(* What an inbox has acknowledged is handled. *)

LEMMA PendingCell ==
  ASSUME TableOK, NEW s, NEW a, NEW st, table' = [table EXCEPT ![s][a] = st]
  PROVE  \A z \in Servers, b \in Acts :
            table'[z][b] = "pending" =>
               table[z][b] = "pending" \/ (z = s /\ b = a /\ st = "pending")
BY DEF TableOK

\* A row is pending when the inbox has stored it and spawned its task, or when its own
\* instance has queued it.
LEMMA TableView ==
  ASSUME Core, [Next]_vars
  PROVE  \A s \in Servers, a \in Acts :
            table'[s][a] = "pending" =>
               \/ table[s][a] = "pending"
               \/ handler'[s][a] = "apply"
               \/ s = Origin /\ issued'[a].by = Origin
<1> DEFINE Goal == \A s \in Servers, a \in Acts :
                      table'[s][a] = "pending" =>
                         \/ table[s][a] = "pending"
                         \/ handler'[s][a] = "apply"
                         \/ s = Origin /\ issued'[a].by = Origin
<1>1. FedTypes /\ TableOK /\ IssuedOK
  BY DEF Core, FedTypes
<1>2. UNCHANGED table => Goal
  OBVIOUS
<1>3. ASSUME NEW s, NEW a, NEW st, st # "pending", table' = [table EXCEPT ![s][a] = st]
      PROVE  Goal
  BY <1>1, <1>3, PendingCell
<1>4. ASSUME NEW a, table' = [table EXCEPT ![Origin][a] = "pending"], issued'[a].by = Origin
      PROVE  Goal
  BY <1>1, <1>4, PendingCell
<1>5. ASSUME NEW e \in Editors, Broadcast(e) PROVE Goal
  <2>1. issued'[edit[e].act].by = Origin
    BY <1>5 DEF Broadcast, Core, EditsRouted
  <2> QED BY <1>2, <1>4, <1>5, <2>1 DEF Broadcast, QueueOutbound, QueueOutboundFails
<1>6. ASSUME NEW w \in Workers, MarkDelivered(w) \/ MarkAttempt(w) PROVE Goal
  <2>1. \/ UNCHANGED table
        \/ table' = [table EXCEPT ![Origin][worker[w].job.id[1]] = "processed"]
        \/ table' = [table EXCEPT ![Origin][worker[w].job.id[1]] = "failed"]
    BY <1>6 DEF MarkDelivered, MarkAttempt
  <2> HIDE DEF Goal
  <2> QED BY <1>2, <1>3, <2>1
<1>7. ASSUME NEW z \in Slots, InboxStore(z) PROVE Goal
  <2> DEFINE srv == request[z].srv
             act == request[z].act
  <2>1. CASE UNCHANGED table
    BY <1>2, <2>1
  <2>2. CASE table' # table
    <3>1. /\ table' = [table EXCEPT ![srv][act] = "pending"]
          /\ handler' = [handler EXCEPT ![srv][act] = "apply"]
          /\ request[z].at # "free"
      BY <1>7, <2>2 DEF InboxStore
    <3>2. srv \in Servers /\ act \in Acts /\ HandlerOK
      BY <3>1 DEF Core, FedTypes, RequestOK
    <3> HIDE DEF srv, act
    <3>3. handler'[srv][act] = "apply"
      BY <3>1, <3>2 DEF HandlerOK
    <3> QED BY <1>1, <3>1, <3>3, PendingCell
  <2> QED BY <2>1, <2>2
<1>8. ASSUME NEW s \in Servers, NEW a \in Acts, HandleActivity(s, a) PROVE Goal
  <2>1. \/ UNCHANGED table
        \/ table' = [table EXCEPT ![s][a] = "processed"]
        \/ table' = [table EXCEPT ![s][a] = "failed"]
    BY <1>8 DEF HandleActivity, HandleError, MarkActivity
  <2> HIDE DEF Goal
  <2> QED BY <1>2, <1>3, <2>1
<1>9. ASSUME NEW b \in Acts, QueueAccept(b) PROVE Goal
  <2>0. "Accept" \in ActTypes /\ b \in Nat
    BY NumbersFact DEF ActTypes
  <2>1. issued'[NewAct].by = Origin
    <3>1. Issue("Accept", Origin, b)
      BY <1>9 DEF QueueAccept
    <3>2. issued'[NewAct] = [type |-> "Accept", by |-> Origin, obj |-> b]
      BY <1>1, <2>0, <3>1, IssueAppends, ServersFact
    <3> QED BY <3>2
  <2>2. CASE QueueOutbound(NewAct, issued[b].by)
    BY <1>4, <2>1, <2>2 DEF QueueOutbound
  <2>3. CASE \E stored \in {"absent", "pending"}, mark \in {"failed", "processed"} :
                table' = [table EXCEPT ![Origin][b] = mark, ![Origin][NewAct] = stored]
    <3>1. PICK stored \in {"absent", "pending"}, mark \in {"failed", "processed"} :
             table' = [table EXCEPT ![Origin][b] = mark, ![Origin][NewAct] = stored]
      BY <2>3
    <3>2. \A z \in Servers, c \in Acts : table'[z][c] = "pending" =>
             table[z][c] = "pending" \/ (z = Origin /\ c = NewAct)
      BY <1>1, <3>1 DEF TableOK
    <3> QED BY <2>1, <3>2
  <2> QED BY <1>9, <2>2, <2>3 DEF QueueAccept
<1>10. ASSUME NEW p \in Peers, RejectFollow(p) PROVE Goal
  <2>0. "Reject" \in ActTypes /\ follows[p].uri \in Nat
    BY <1>1, <1>10, RejectTypes DEF ActTypes
  <2>1. issued'[NewAct].by = Origin
    <3>1. Issue("Reject", Origin, follows[p].uri)
      BY <1>10 DEF RejectFollow
    <3>2. issued'[NewAct] = [type |-> "Reject", by |-> Origin, obj |-> follows[p].uri]
      BY <1>1, <2>0, <3>1, IssueAppends, ServersFact
    <3> QED BY <3>2
  <2> QED BY <1>2, <1>4, <1>10, <2>1 DEF RejectFollow, QueueOutbound, QueueOutboundFails
<1>11. ASSUME SystemNext PROVE Goal
  <2> HIDE DEF Goal
  <2> QED BY <1>2, <1>5, <1>6, <1>7, <1>8, <1>9, <1>11
             DEF SystemNext, EditorStep, EditUpdate, Publish, PublishFails, WorkerStep,
                 SelectDueJobs, SkipBlocked, DeliverJob, InboxStep, InboxCheck
<1>12. ASSUME Environment PROVE Goal
  <2> HIDE DEF Goal
  <2> QED BY <1>2, <1>10, <1>12
             DEF Environment, EditRead, TimeOut, PeerSend, PurgeRemoteVideos, PeerRepost, SetDomainRule,
                 DeleteDomainRule, RetryDeliveryJob, RestartOrigin, RestartPeer
<1> QED BY <1>2, <1>11, <1>12 DEF Next, vars

LEMMA AcceptedStep ==
  ASSUME Core, AcceptedIsHandled, [Next]_vars
  PROVE  AcceptedIsHandled'
<1>1. Core' /\ Grows
  BY CoreStep
<1> SUFFICES ASSUME NEW s \in Servers, NEW a \in 1 .. Len(issued'), issued'[a].by # s,
                    table'[s][a] = "pending"
             PROVE  handler'[s][a] # "none" \/ <<s, a>> \in history'.unmarked
  BY DEF AcceptedIsHandled
<1>3. a \in Acts
  <2>1. IssuedOK'
    BY <1>1 DEF Core, FedTypes
  <2>2. Len(issued') \in Nat /\ Len(issued') <= MaxActs
    BY <2>1 DEF IssuedOK
  <2> QED BY <2>2, NumbersFact
<1>4. CASE handler'[s][a] = "apply"
  BY <1>4
<1>5. CASE handler'[s][a] # "apply"
  <2>1. table[s][a] = "pending"
    BY <1>3, <1>5, TableView
  <2>2. a \in 1 .. Len(issued) /\ issued'[a] = issued[a]
    <3>1. Len(issued) \in Nat /\ a \in Nat /\ a >= 1
      BY LengthIsNat DEF Core, FedTypes
    <3>2. a <= Len(issued)
      BY <1>3, <2>1, <3>1 DEF Core, ActsOK
    <3> QED BY <1>1, <3>1, <3>2 DEF Grows, IssuedGrows
  <2>3. handler[s][a] # "none" \/ <<s, a>> \in history.unmarked
    BY <2>1, <2>2 DEF AcceptedIsHandled
  <2>4. CASE \A z \in Servers, b \in Acts : ~HandleActivity(z, b)
    <3>1. history.unmarked \subseteq history'.unmarked
      BY <2>4, AppliedSame
    <3>2. handler'[s][a] = handler[s][a] \/ <<s, a>> \in history'.unmarked
      BY <1>3, <1>5, <2>4, HandlerView DEF TaskEnds
    <3> QED BY <2>3, <3>1, <3>2
  <2>5. ASSUME NEW z \in Servers, NEW b \in Acts, HandleActivity(z, b)
        PROVE  handler'[s][a] # "none" \/ <<s, a>> \in history'.unmarked
    <3>1. CASE z = s /\ b = a
      BY <2>5, <3>1, HandleView
    <3>2. CASE ~(z = s /\ b = a)
      <4>1. handler'[s][a] = handler[s][a]
        BY <1>3, <2>5, <3>2, HandleElsewhere
      <4>2. history.unmarked \subseteq history'.unmarked
        BY <2>5, HandleView
      <4> QED BY <2>3, <4>1, <4>2
    <3> QED BY <3>1, <3>2
  <2> QED BY <2>4, <2>5
<1> QED BY <1>4, <1>5

\* An activity an inbox has acknowledged is being handled until it is marked: only a
\* stop of its own task, or its own marking that fails, leaves its row pending.
THEOREM FederationAcceptedIsHandled == Spec => []AcceptedIsHandled
<1>1. Init => AcceptedIsHandled
  BY DEF Init, AcceptedIsHandled
<1>2. Core /\ AcceptedIsHandled /\ [Next]_vars => AcceptedIsHandled'
  BY AcceptedStep
<1> QED BY <1>1, <1>2, CoreInvariant, PTL DEF Spec
-----------------------------------------------------------------------------
(* Who has which delivery job, step by step. *)

SameHands(v) ==
    \A k \in JobIds : /\ InBatch(v, k)' <=> InBatch(v, k)
                      /\ InHand(v, k)' <=> InHand(v, k)
Others(w) == \A v \in Workers \ {w} : SameHands(v) /\ worker'[v].at = worker[v].at
SameJobs == \A k \in JobIds : jobs'[k].st = jobs[k].st
OnlyJob(i) == \A k \in JobIds \ {i} : jobs'[k].st = jobs[k].st
KeptRace == history'.raced = history.raced /\ history'.acked = history.acked
SameRace == KeptRace /\ history'.orphaned = history.orphaned

\* No worker takes or leaves a job; jobs may be queued, and waiting may end badly.
Waits ==
    /\ \A k \in JobIds : \/ jobs'[k].st = jobs[k].st
                         \/ jobs[k].st \in {"absent", "failed"} /\ jobs'[k].st = "queued"
    /\ \A v \in Workers : /\ SameHands(v)
                          /\ \/ worker'[v].at = worker[v].at
                             \/ worker[v].at = "wait" /\ worker'[v].at = "err"
    /\ SameRace

\* The good answer to worker w's POST.
Acks(w) ==
    /\ worker[w].at = "wait" /\ worker'[w].at = "ok"
    /\ SameJobs /\ Others(w) /\ SameHands(w)
    /\ history'.raced = history.raced /\ history'.orphaned = history.orphaned
    /\ \E k \in JobIds : InHand(w, k) /\ history'.acked = history.acked \cup {k}

\* Worker w begins a round with the jobs ids.
Selects(w, ids) ==
    /\ \A k \in ids : jobs[k].st = "queued"
    /\ SameJobs /\ Others(w)
    /\ \A k \in JobIds : ~InBatch(w, k) /\ ~InHand(w, k)
    /\ \A k \in JobIds : (InBatch(w, k)' <=> k \in ids) /\ ~InHand(w, k)'
    /\ history'.acked = history.acked /\ history'.orphaned = history.orphaned
    /\ history'.raced = history.raced \cup {k \in ids : \E x \in Workers \ {w} : k \in Held(x)}

\* Worker w fails job i, or claims it, or ends its attempt.
Skips(w, i) ==
    /\ InBatch(w, i) /\ jobs'[i].st = "failed" /\ OnlyJob(i) /\ Others(w) /\ SameRace
    /\ \A k \in JobIds : /\ InBatch(w, k)' <=> InBatch(w, k) /\ k # i
                         /\ ~InHand(w, k) /\ ~InHand(w, k)'
Takes(w, i) ==
    /\ InBatch(w, i) /\ jobs'[i].st = "processing" /\ OnlyJob(i) /\ Others(w) /\ KeptRace
    /\ history'.orphaned = history.orphaned \ {i}
    /\ \A k \in JobIds : /\ InBatch(w, k)' <=> InBatch(w, k) /\ k # i
                         /\ ~InHand(w, k)
                         /\ InHand(w, k)' <=> k = i
    /\ worker'[w].at \in {"wait", "err"}
Ends(w, i) ==
    /\ InHand(w, i) /\ OnlyJob(i) /\ Others(w) /\ SameRace
    /\ \/ worker[w].at = "ok" /\ jobs'[i].st = "delivered"
       \/ worker[w].at = "err" /\ jobs'[i].st \in {"queued", "failed"}
    /\ \A k \in JobIds : /\ InBatch(w, k)' <=> InBatch(w, k)
                         /\ InHand(w, k) => k = i
                         /\ ~InHand(w, k)'

\* A failure makes worker w drop its round, before or after the mark on the job in hand;
\* before it, that job is orphaned.
Drops(w) ==
    /\ Others(w) /\ KeptRace
    /\ history.orphaned \subseteq history'.orphaned
    /\ \A k \in JobIds : ~InBatch(w, k)' /\ ~InHand(w, k)'
    /\ \/ SameJobs /\ \A k \in JobIds : InHand(w, k) => k \in history'.orphaned
       \/ \E i \in JobIds :
             /\ InHand(w, i) /\ OnlyJob(i)
             /\ \A k \in JobIds : InHand(w, k) => k = i
             /\ \/ worker[w].at = "ok" /\ jobs'[i].st = "delivered"
                \/ worker[w].at = "err" /\ jobs'[i].st \in {"queued", "failed"}

\* A restart of the origin ends every round, and orphans the jobs in hand.
Halts ==
    /\ KeptRace /\ SameJobs
    /\ history.orphaned \subseteq history'.orphaned
    /\ \A v \in Workers : \A k \in JobIds :
          /\ ~InBatch(v, k)' /\ ~InHand(v, k)'
          /\ InHand(v, k) => k \in history'.orphaned

WorkView ==
    \/ Waits
    \/ Halts
    \/ \E w \in Workers : \/ Acks(w) \/ Drops(w)
                          \/ \E ids \in SUBSET JobIds : Selects(w, ids)
                          \/ \E i \in JobIds : Skips(w, i) \/ Takes(w, i) \/ Ends(w, i)

LEMMA SameHandsFact ==
  ASSUME NEW v \in Workers, worker'[v].job = worker[v].job, worker'[v].batch = worker[v].batch
  PROVE  SameHands(v)
BY DEF SameHands, InBatch, InHand

LEMMA OthersFact ==
  ASSUME NEW w \in Workers, \A v \in Workers : v # w => worker'[v] = worker[v]
  PROVE  Others(w)
BY DEF Others, SameHands, InBatch, InHand

LEMMA IdleHands ==
  ASSUME NEW w \in Workers, worker'[w] = IdleWorker
  PROVE  \A k \in JobIds : ~InBatch(w, k)' /\ ~InHand(w, k)'
BY DEF IdleWorker, InBatch, InHand

LEMMA EmptyHand ==
  ASSUME NEW w \in Workers
  PROVE  /\ worker[w].job = None => \A k \in JobIds : ~InHand(w, k)
         /\ worker'[w].job = None => \A k \in JobIds : ~InHand(w, k)'
BY DEF InHand

LEMMA BatchWithout ==
  ASSUME WorkerOK, NEW w \in Workers, NEW j \in worker[w].batch,
         worker'[w].batch = worker[w].batch \ {j}
  PROVE  /\ InBatch(w, j.id)
         /\ \A k \in JobIds : InBatch(w, k)' <=> InBatch(w, k) /\ k # j.id
BY DEF WorkerOK, InBatch

LEMMA SelectView ==
  ASSUME Core, NEW w \in Workers, SelectDueJobs(w)
  PROVE  \E ids \in SUBSET JobIds : Selects(w, ids)
<1>1. PICK ids \in SUBSET {k \in JobIds : jobs[k].st = "queued"} :
               /\ \A k : InBatch(w, k)' <=> k \in ids
               /\ \A k : ~InHand(w, k)'
               /\ history' = [history EXCEPT !.raced =
                                 @ \cup {k \in ids : \E x \in Workers \ {w} : k \in Held(x)}]
               /\ \A v \in Workers : v # w => worker'[v] = worker[v]
  BY SelectCore
<1>2. Others(w)
  BY <1>1, OthersFact
<1>3. \A k \in JobIds : ~InBatch(w, k) /\ ~InHand(w, k)
  BY DEF SelectDueJobs, Core, FedTypes, WorkerOK, InBatch, InHand
<1>4. SameJobs
  BY DEF SelectDueJobs, SameJobs
<1>5. /\ history'.acked = history.acked /\ history'.orphaned = history.orphaned
      /\ history'.raced = history.raced \cup {k \in ids : \E x \in Workers \ {w} : k \in Held(x)}
  <2> DEFINE R == {k \in ids : \E x \in Workers \ {w} : k \in Held(x)}
  <2>1. history' = [history EXCEPT !.raced = @ \cup R]
    BY <1>1
  <2> HIDE DEF R
  <2>2. /\ history'.acked = history.acked /\ history'.raced = history.raced \cup R
        /\ history'.orphaned = history.orphaned
    BY <2>1 DEF Core, FedTypes, HistoryOK, HistoryRecs
  <2> QED BY <2>2 DEF R
<1>6. ids \in SUBSET JobIds /\ \A k \in ids : jobs[k].st = "queued"
  OBVIOUS
<1>7. Selects(w, ids)
  BY <1>1, <1>2, <1>3, <1>4, <1>5, <1>6 DEF Selects
<1> QED BY <1>6, <1>7

LEMMA NextHand ==
  ASSUME Core, NEW w \in Workers, worker[w].at = "next"
  PROVE  \A k \in JobIds : ~InHand(w, k)
BY DEF Core, FedTypes, WorkerOK, InHand

LEMMA DropView ==
  ASSUME Core, NEW w \in Workers, worker[w].at = "next",
         worker' = [worker EXCEPT ![w] = IdleWorker], UNCHANGED <<jobs, history>>
  PROVE  Drops(w)
<1>1. worker'[w] = IdleWorker /\ \A v \in Workers : v # w => worker'[v] = worker[v]
  BY DEF Core, FedTypes, WorkerOK
<1> QED BY <1>1, OthersFact, IdleHands, NextHand DEF Drops, KeptRace, SameJobs

LEMMA SkipView ==
  ASSUME Core, NEW w \in Workers, SkipBlocked(w)
  PROVE  Drops(w) \/ \E i \in JobIds : Skips(w, i)
<1>1. UNCHANGED history /\ worker[w].at = "next"
  BY DEF SkipBlocked
<1>2. ASSUME NEW j \in worker[w].batch,
             jobs' = [jobs EXCEPT ![j.id].st = "failed"],
             worker' = [worker EXCEPT ![w] = Rest([worker[w] EXCEPT !.batch = @ \ {j}])]
      PROVE  \E i \in JobIds : Skips(w, i)
  <2>1. j.id \in JobIds /\ jobs[j.id].st # "absent"
    BY HeldFacts
  <2>2. jobs'[j.id].st = "failed" /\ OnlyJob(j.id)
    <3>1. /\ jobs'[j.id].st = "failed" /\ \A i \in JobIds : i # j.id => jobs'[i] = jobs[i]
      BY <1>2, <2>1, JobMarkGrows DEF Core, FedTypes
    <3> QED BY <3>1 DEF OnlyJob
  <2> DEFINE y == [worker[w] EXCEPT !.batch = @ \ {j}]
  <2>3. Rest(y).batch = worker[w].batch \ {j} /\ Rest(y).job = None
    <3>1. GoodWorker(worker[w])
      BY WorkersAreGood DEF Core, FedTypes
    <3>2. y \in WorkerRecs /\ y.batch = worker[w].batch \ {j}
      BY <3>1 DEF GoodWorker, WorkerRecs
    <3> HIDE DEF y
    <3> QED BY <3>1, <3>2, RestIsGood
  <2>4. /\ worker'[w].batch = worker[w].batch \ {j} /\ worker'[w].job = None
        /\ \A v \in Workers : v # w => worker'[v] = worker[v]
    <3>1. worker' = [worker EXCEPT ![w] = Rest(y)]
      BY <1>2
    <3> HIDE DEF y
    <3> QED BY <2>3, <3>1 DEF Core, FedTypes, WorkerOK
  <2>5. /\ InBatch(w, j.id)
        /\ \A k \in JobIds : InBatch(w, k)' <=> InBatch(w, k) /\ k # j.id
    BY <2>4, BatchWithout DEF Core, FedTypes
  <2>6. \A k \in JobIds : ~InHand(w, k) /\ ~InHand(w, k)'
    BY <1>1, <2>4, NextHand, EmptyHand
  <2>7. Others(w)
    BY <2>4, OthersFact
  <2>8. SameRace
    BY <1>1 DEF SameRace, KeptRace
  <2>9. Skips(w, j.id)
    BY <2>2, <2>5, <2>6, <2>7, <2>8 DEF Skips
  <2> QED BY <2>1, <2>9
<1>3. CASE Failed /\ worker' = [worker EXCEPT ![w] = IdleWorker] /\ UNCHANGED jobs
  BY <1>1, <1>3, DropView
<1> QED BY <1>2, <1>3 DEF SkipBlocked

LEMMA DeliverView ==
  ASSUME Core, NEW w \in Workers, DeliverJob(w)
  PROVE  Drops(w) \/ \E i \in JobIds : Takes(w, i)
<1>1. worker[w].at = "next"
  BY DEF DeliverJob
<1>2. ASSUME NEW j \in worker[w].batch, NEW at \in {"wait", "err"}, Claims(w, j, at)
      PROVE  \E i \in JobIds : Takes(w, i)
  <2>1. j.id \in JobIds /\ jobs[j.id].st # "absent"
    BY HeldFacts
  <2>2. jobs'[j.id].st = "processing" /\ OnlyJob(j.id)
    <3>1. /\ jobs'[j.id].st = "processing" /\ \A i \in JobIds : i # j.id => jobs'[i] = jobs[i]
      BY <1>2, <2>1, JobMarkGrows DEF Core, FedTypes, Claims
    <3> QED BY <3>1 DEF OnlyJob
  <2>3. /\ worker'[w] = [at |-> at, job |-> j, batch |-> worker[w].batch \ {j}]
        /\ \A v \in Workers : v # w => worker'[v] = worker[v]
    BY <1>2, ClaimTypes DEF Core
  <2>4. /\ InBatch(w, j.id)
        /\ \A k \in JobIds : InBatch(w, k)' <=> InBatch(w, k) /\ k # j.id
    BY <2>3, BatchWithout DEF Core, FedTypes
  <2>5. j # None
    BY NoneIsNoJob DEF Core, FedTypes, WorkerOK
  <2>6. \A k \in JobIds : ~InHand(w, k) /\ (InHand(w, k)' <=> k = j.id)
    BY <1>1, <2>3, <2>5, NextHand DEF InHand
  <2>7. Others(w) /\ worker'[w].at \in {"wait", "err"}
    BY <2>3, OthersFact
  <2>8. KeptRace /\ history'.orphaned = history.orphaned \ {j.id}
    BY <1>2 DEF Claims, KeptRace, Core, FedTypes, HistoryOK, HistoryRecs
  <2>9. Takes(w, j.id)
    BY <2>2, <2>4, <2>6, <2>7, <2>8 DEF Takes
  <2> QED BY <2>1, <2>9
<1>3. CASE worker' = [worker EXCEPT ![w] = IdleWorker] /\ UNCHANGED <<jobs, history>>
  BY <1>1, <1>3, DropView
<1> QED BY <1>2, <1>3, DeliverCases

LEMMA MarkView ==
  ASSUME Core, NEW w \in Workers, MarkDelivered(w) \/ MarkAttempt(w)
  PROVE  Drops(w) \/ \E i \in JobIds : Ends(w, i)
<1> DEFINE i == worker[w].job.id
           tries == worker[w].job.tries + 1
           Moved == /\ OnlyJob(i)
                    /\ \/ worker[w].at = "ok" /\ jobs'[i].st = "delivered"
                       \/ worker[w].at = "err" /\ jobs'[i].st \in {"queued", "failed"}
           Back == worker' = [worker EXCEPT ![w] = Rest(@)]
           Idle == worker' = [worker EXCEPT ![w] = IdleWorker]
           Unmarked == /\ UNCHANGED jobs
                       /\ history' = [history EXCEPT !.orphaned = @ \cup {i}]
<1>1. worker[w].at \in {"ok", "err"}
  BY DEF MarkDelivered, MarkAttempt
<1>2. /\ i \in JobIds /\ jobs[i].st # "absent" /\ InHand(w, i)
      /\ \A k \in JobIds : InHand(w, k) => k = i
  BY <1>1, InHandFacts DEF InHand
<1>3. ASSUME NEW st \in {"queued", "processing", "delivered", "failed"},
             \/ jobs' = [jobs EXCEPT ![i].st = st]
             \/ jobs' = [jobs EXCEPT ![i] = [st |-> st, tries |-> tries]]
      PROVE  OnlyJob(i) /\ jobs'[i].st = st
  <2> HIDE DEF i, tries
  <2>1. jobs'[i].st = st /\ \A k \in JobIds : k # i => jobs'[k] = jobs[k]
    BY <1>2, <1>3, JobMarkGrows DEF Core, FedTypes
  <2> QED BY <2>1 DEF OnlyJob
<1>4. \/ Moved /\ UNCHANGED history /\ (Back \/ Idle)
      \/ Unmarked /\ Idle
  <2>1. CASE MarkDelivered(w)
    <3>1. worker[w].at = "ok"
      BY <2>1 DEF MarkDelivered
    <3>2. jobs' = [jobs EXCEPT ![i].st = "delivered"] => Moved
      BY <1>3, <3>1
    <3> HIDE DEF Moved
    <3> QED BY <2>1, <3>2 DEF MarkDelivered, JobUnmarked
  <2>2. CASE MarkAttempt(w)
    <3>1. worker[w].at = "err"
      BY <2>2 DEF MarkAttempt
    <3>2. ASSUME NEW st \in {"queued", "failed"},
                 jobs' = [jobs EXCEPT ![i] = [st |-> st, tries |-> tries]]
          PROVE  Moved
      BY <1>3, <3>1, <3>2
    <3>3. \/ /\ Back \/ Idle
             /\ UNCHANGED history
             /\ \E st \in {"queued", "failed"} :
                   jobs' = [jobs EXCEPT ![i] = [st |-> st, tries |-> tries]]
          \/ Unmarked /\ Idle
      BY <2>2 DEF MarkAttempt, JobUnmarked
    <3> HIDE DEF Moved, Back, Idle
    <3> QED BY <3>2, <3>3
  <2> QED BY <2>1, <2>2
<1>5. CASE Moved /\ UNCHANGED history /\ Back
  <2>1. /\ worker'[w].job = None /\ worker'[w].batch = worker[w].batch
        /\ \A v \in Workers : v # w => worker'[v] = worker[v]
    BY <1>5, RoundEndsHeld DEF Core, FedTypes
  <2>2. \A k \in JobIds : (InBatch(w, k)' <=> InBatch(w, k)) /\ ~InHand(w, k)'
    BY <2>1 DEF InBatch, InHand
  <2>3. Others(w) /\ SameRace
    BY <1>5, <2>1, OthersFact DEF SameRace, KeptRace
  <2> HIDE DEF i
  <2>4. Ends(w, i)
    BY <1>2, <1>5, <2>2, <2>3 DEF Ends
  <2> QED BY <1>2, <2>4
<1>6. CASE Idle /\ ((Moved /\ UNCHANGED history) \/ Unmarked)
  <2>1. worker'[w] = IdleWorker /\ \A v \in Workers : v # w => worker'[v] = worker[v]
    BY <1>6 DEF Core, FedTypes, WorkerOK
  <2>2. Others(w) /\ \A k \in JobIds : ~InBatch(w, k)' /\ ~InHand(w, k)'
    BY <2>1, OthersFact, IdleHands
  <2>3. CASE Moved /\ UNCHANGED history
    <3>1. KeptRace /\ history.orphaned \subseteq history'.orphaned
      BY <2>3 DEF KeptRace
    <3> HIDE DEF i
    <3> QED BY <1>2, <2>2, <2>3, <3>1 DEF Drops
  <2>4. CASE Unmarked
    <3> HIDE DEF i
    <3>1. KeptRace /\ history'.orphaned = history.orphaned \cup {i}
      BY <2>4 DEF KeptRace, Core, FedTypes, HistoryOK, HistoryRecs
    <3> QED BY <1>2, <2>2, <2>4, <3>1 DEF Drops, SameJobs
  <2> QED BY <1>6, <2>3, <2>4
<1> HIDE DEF Moved, Back, Idle, Unmarked
<1> QED BY <1>4, <1>5, <1>6

LEMMA WaitsSame ==
  ASSUME UNCHANGED <<jobs, worker>>, SameRace
  PROVE  Waits
BY DEF Waits, SameHands, InBatch, InHand

LEMMA WaitsJobs ==
  ASSUME UNCHANGED worker, SameRace,
         \A k \in JobIds : \/ jobs'[k].st = jobs[k].st
                           \/ jobs[k].st \in {"absent", "failed"} /\ jobs'[k].st = "queued"
  PROVE  Waits
BY DEF Waits, SameHands, InBatch, InHand

LEMMA WaitsWorkers ==
  ASSUME UNCHANGED jobs, SameRace,
         \A v \in Workers : /\ worker'[v].job = worker[v].job
                            /\ worker'[v].batch = worker[v].batch
                            /\ \/ worker'[v].at = worker[v].at
                               \/ worker[v].at = "wait" /\ worker'[v].at = "err"
  PROVE  Waits
<1>1. \A v \in Workers : SameHands(v)
  BY SameHandsFact
<1> QED BY <1>1 DEF Waits

LEMMA AnswerView ==
  ASSUME Core, NEW s \in Slots, NEW good \in BOOLEAN, request[s].at # "free", Answer(s, good),
         UNCHANGED jobs
  PROVE  Waits \/ \E w \in Workers : Acks(w)
<1> DEFINE w == request[s].by
<1>1. /\ \A v \in Workers : /\ worker'[v].job = worker[v].job
                            /\ worker'[v].batch = worker[v].batch
                            /\ worker'[v].at = IF v = w THEN IF good THEN "ok" ELSE "err"
                                                        ELSE worker[v].at
      /\ history' = [history EXCEPT !.acked =
                       IF good /\ w \in Workers
                         THEN @ \cup {<<request[s].act, request[s].srv>>} ELSE @]
  BY AnswerFrees DEF Core, FedTypes
<1>2. w \in Workers => /\ worker[w].at = "wait" /\ worker[w].job # None
                       /\ worker[w].job.id = <<request[s].act, request[s].srv>>
                       /\ <<request[s].act, request[s].srv>> \in JobIds
  <2> SUFFICES ASSUME w \in Workers
               PROVE  /\ worker[w].at = "wait" /\ worker[w].job # None
                      /\ worker[w].job.id = <<request[s].act, request[s].srv>>
                      /\ <<request[s].act, request[s].srv>> \in JobIds
    OBVIOUS
  <2>1. worker[w].at = "wait" /\ worker[w].job.id = <<request[s].act, request[s].srv>>
    BY DEF Core, FedTypes, RequestOK
  <2>2. worker[w].job # None /\ worker[w].job.id \in JobIds
    BY <2>1, InHandFacts
  <2> QED BY <2>1, <2>2
<1>3. CASE good /\ w \in Workers
  <2>1. SameJobs /\ history'.raced = history.raced /\ history'.orphaned = history.orphaned
        /\ history'.acked = history.acked \cup {<<request[s].act, request[s].srv>>}
    BY <1>1, <1>3 DEF SameJobs, Core, FedTypes, HistoryOK, HistoryRecs
  <2>2. \A v \in Workers : SameHands(v)
    BY <1>1, SameHandsFact
  <2>3. Others(w) /\ SameHands(w) /\ worker'[w].at = "ok"
    BY <1>1, <1>3, <2>2 DEF Others
  <2>4. InHand(w, <<request[s].act, request[s].srv>>)
    BY <1>2, <1>3 DEF InHand
  <2>5. Acks(w)
    <3> HIDE DEF w
    <3> QED BY <1>2, <1>3, <2>1, <2>3, <2>4 DEF Acks
  <2> QED BY <1>3, <2>5
<1>4. CASE ~(good /\ w \in Workers)
  <2>1. SameRace
    BY <1>1, <1>4 DEF SameRace, KeptRace, Core, FedTypes, HistoryOK, HistoryRecs
  <2>2. \A v \in Workers : \/ worker'[v].at = worker[v].at
                           \/ worker[v].at = "wait" /\ worker'[v].at = "err"
    BY <1>1, <1>2, <1>4
  <2> QED BY <1>1, <2>1, <2>2, WaitsWorkers
<1> QED BY <1>3, <1>4

LEMMA InboxView ==
  ASSUME Core, NEW s \in Slots, InboxStep(s)
  PROVE  Waits \/ \E w \in Workers : Acks(w)
<1>1. UNCHANGED jobs /\ request[s].at # "free"
  BY DEF InboxStep, InboxCheck, InboxStore
<1>2. CASE Admit(s)
  <2>1. \/ UNCHANGED history
        \/ \E x : history' = [history EXCEPT !.admitted[request[s].srv] = x]
    BY <1>2 DEF Admit
  <2>2. SameRace /\ UNCHANGED worker
    BY <1>2, <2>1 DEF Admit, SameRace, KeptRace, Core, FedTypes, HistoryOK, HistoryRecs
  <2> QED BY <1>1, <2>2, WaitsSame
<1>3. ASSUME NEW good \in BOOLEAN, Answer(s, good)
      PROVE  Waits \/ \E w \in Workers : Acks(w)
  BY <1>1, <1>3, AnswerView
<1> QED BY <1>2, <1>3 DEF InboxStep, InboxCheck, InboxStore

\* A new job.
LEMMA QueueView ==
  ASSUME Core, UNCHANGED <<worker, history>>, NEW a \in Acts, NEW p \in Peers, QueueOutbound(a, p)
  PROVE  Waits
<1> DEFINE i == <<a, p>>
<1>1. i \in JobIds /\ jobs[i].st = "absent" /\ jobs' = [jobs EXCEPT ![i] = [st |-> "queued", tries |-> 0]]
  BY DEF QueueOutbound, Core, QueueOK, JobIds
<1> HIDE DEF i
<1>2. jobs'[i].st = "queued" /\ \A k \in JobIds : k # i => jobs'[k] = jobs[k]
  BY <1>1 DEF Core, FedTypes, JobsOK
<1> QED BY <1>1, <1>2, WaitsJobs DEF SameRace, KeptRace

LEMMA RetryView ==
  ASSUME Core, NEW k \in JobIds, RetryDeliveryJob(k)
  PROVE  Waits
<1>1. jobs[k].st = "failed" /\ jobs' = [jobs EXCEPT ![k] = [st |-> "queued", tries |-> 0]]
      /\ UNCHANGED <<worker, history>>
  BY DEF RetryDeliveryJob
<1>2. jobs'[k].st = "queued" /\ \A i \in JobIds : i # k => jobs'[i] = jobs[i]
  BY <1>1 DEF Core, FedTypes, JobsOK
<1> QED BY <1>1, <1>2, WaitsJobs DEF SameRace, KeptRace

LEMMA QueuersView ==
  ASSUME Core,
         \/ \E e \in Editors : Broadcast(e)
         \/ \E a \in Acts : QueueAccept(a)
         \/ \E p \in Peers : RejectFollow(p)
  PROVE  Waits
<1>1. UNCHANGED <<worker, history>>
  BY DEF Broadcast, QueueAccept, RejectFollow
<1>2. CASE UNCHANGED jobs
  BY <1>1, <1>2, WaitsSame DEF SameRace, KeptRace
<1>3. ASSUME NEW e \in Editors, Broadcast(e) PROVE Waits
  <2>1. edit[e].act \in Acts /\ Head(edit[e].todo) \in Peers
    BY <1>3 DEF Broadcast, Core, FedTypes, EditOK
  <2> QED BY <1>1, <1>2, <1>3, <2>1, QueueView DEF Broadcast, QueueOutboundFails
<1>4. ASSUME NEW a \in Acts, QueueAccept(a) PROVE Waits
  <2>1. handler[Origin][a] = "accept" /\ CanIssue
    BY <1>4 DEF QueueAccept, Issue
  <2>2. issued[a].by \in Peers
    BY <2>1, HandlerFacts, ServersFact DEF Routed
  <2>3. NewAct \in Acts
    BY <2>1, NewIsAbsent DEF Core
  <2> QED BY <1>1, <1>2, <1>4, <2>2, <2>3, QueueView DEF QueueAccept
<1>5. ASSUME NEW p \in Peers, RejectFollow(p) PROVE Waits
  <2>1. CanIssue
    BY <1>5 DEF RejectFollow, Issue
  <2>2. NewAct \in Acts
    BY <2>1, NewIsAbsent DEF Core
  <2> QED BY <1>1, <1>2, <1>5, <2>2, QueueView DEF RejectFollow, QueueOutboundFails
<1> QED BY <1>3, <1>4, <1>5

\* Steps that leave the jobs and the workers alone.
LEMMA QuietView ==
  ASSUME Core,
         \/ \E e \in Editors : EditUpdate(e) \/ Publish(e) \/ PublishFails(e) \/ EditRead(e)
         \/ \E s \in Servers, a \in Acts : HandleActivity(s, a)
         \/ \E p \in Peers : PeerSend(p) \/ PurgeRemoteVideos(p)
         \/ \E a \in Acts : PeerRepost(a)
         \/ \E p \in Peers : SetDomainRule(Origin, p) \/ SetDomainRule(p, Origin)
         \/ \E p \in Peers : DeleteDomainRule(Origin, p) \/ DeleteDomainRule(p, Origin)
  PROVE  Waits
<1>1. HistoryOK
  BY DEF Core, FedTypes
<1>2. UNCHANGED <<jobs, worker>>
  BY DEF EditUpdate, Publish, PublishFails, EditRead, HandleActivity, PeerSend, PurgeRemoteVideos, PeerRepost,
         SetDomainRule, DeleteDomainRule
<1>3. UNCHANGED history => SameRace
  BY DEF SameRace, KeptRace
<1>4. ASSUME NEW e \in Editors, EditRead(e) PROVE SameRace
  BY <1>1, <1>4 DEF EditRead, HistoryOK, HistoryRecs, SameRace, KeptRace
<1>5. ASSUME NEW s \in Servers, NEW a \in Acts, HandleActivity(s, a) PROVE SameRace
  BY <1>5, HandleView DEF SameRace, KeptRace
<1>6. ASSUME NEW p \in Peers, PurgeRemoteVideos(p) PROVE SameRace
  BY <1>1, <1>6 DEF PurgeRemoteVideos, HistoryOK, HistoryRecs, SameRace, KeptRace
<1>7. ASSUME NEW s, NEW d, SetDomainRule(s, d) PROVE SameRace
  BY <1>1, <1>7 DEF SetDomainRule, HistoryOK, HistoryRecs, SameRace, KeptRace
<1>8. ASSUME NEW s, NEW d, DeleteDomainRule(s, d) PROVE SameRace
  BY <1>1, <1>8 DEF DeleteDomainRule, HistoryOK, HistoryRecs, SameRace, KeptRace
<1>9. SameRace
  <2>1. ASSUME NEW e \in Editors, EditUpdate(e) \/ Publish(e) \/ PublishFails(e)
        PROVE  SameRace
    <3>1. UNCHANGED history \/ \E l : history' = [history EXCEPT !.lost = l]
      <4>1. EditUpdate(e) => UNCHANGED history \/ \E l : history' = [history EXCEPT !.lost = l]
        BY DEF EditUpdate
      <4>2. Publish(e) => \E l : history' = [history EXCEPT !.lost = l]
        BY DEF Publish
      <4> QED BY <2>1, <4>1, <4>2 DEF PublishFails
    <3> QED BY <1>1, <1>3, <3>1 DEF HistoryOK, HistoryRecs, SameRace, KeptRace
  <2>2. ASSUME NEW p \in Peers, PeerSend(p) PROVE SameRace
    BY <1>3, <2>2 DEF PeerSend
  <2>3. ASSUME NEW a \in Acts, PeerRepost(a) PROVE SameRace
    BY <1>3, <2>3 DEF PeerRepost
  <2> QED BY <1>4, <1>5, <1>6, <1>7, <1>8, <2>1, <2>2, <2>3
<1> QED BY <1>2, <1>9, WaitsSame

LEMMA RestartView ==
  ASSUME Core
  PROVE  /\ RestartOrigin => Halts
         /\ \A p \in Peers : RestartPeer(p) => Waits
         /\ \A w \in Workers : TimeOut(w) => Waits
<1>1. ASSUME RestartOrigin PROVE Halts
  <2>1. \A v \in Workers : worker'[v] = IdleWorker
    BY <1>1 DEF RestartOrigin
  <2> DEFINE O == {worker[w].job.id : w \in {x \in Workers : worker[x].job # None}}
             U == Unfinished(Origin)
  <2>2. \A v \in Workers, k \in JobIds : InHand(v, k) => k \in O
    BY DEF InHand
  <2>3. /\ KeptRace /\ history.orphaned \subseteq history'.orphaned
        /\ O \subseteq history'.orphaned
    <3>1. PICK t : history' = [history EXCEPT !.unmarked = @ \cup U, !.orphaned = @ \cup O,
                                              !.tangled = t]
      BY <1>1 DEF RestartOrigin
    <3> HIDE DEF O, U
    <3> QED BY <3>1 DEF Core, FedTypes, HistoryOK, HistoryRecs, KeptRace
  <2>4. SameJobs
    BY <1>1 DEF RestartOrigin, SameJobs
  <2> QED BY <2>1, <2>2, <2>3, <2>4, IdleHands DEF Halts
<1>2. ASSUME NEW p \in Peers, RestartPeer(p) PROVE Waits
  <2>1. SameRace /\ UNCHANGED jobs
    BY <1>2 DEF RestartPeer, Core, FedTypes, HistoryOK, HistoryRecs, SameRace, KeptRace
  <2>2. \A w \in Workers : /\ worker'[w].job = worker[w].job
                           /\ worker'[w].batch = worker[w].batch
                           /\ worker'[w].at = worker[w].at
                                 \/ (worker[w].at = "wait" /\ worker'[w].at = "err")
    BY <1>2, RestartPeerTypes DEF Core
  <2> QED BY <2>1, <2>2, WaitsWorkers
<1>3. ASSUME NEW w \in Workers, TimeOut(w) PROVE Waits
  <2>1. SameRace /\ UNCHANGED jobs
    BY <1>3 DEF TimeOut, SameRace, KeptRace
  <2> QED BY <1>3, <2>1, TimeOutCore, WaitsWorkers
<1> QED BY <1>1, <1>2, <1>3

\* Every step is one of the views above.
LEMMA WorkStep ==
  ASSUME Core, [Next]_vars
  PROVE  WorkView
<1>1. CASE SystemNext
  <2>1. ASSUME NEW e \in Editors, EditorStep(e) PROVE WorkView
    BY <2>1, QuietView, QueuersView DEF EditorStep, WorkView
  <2>2. ASSUME NEW w \in Workers, WorkerStep(w) PROVE WorkView
    BY <2>2, SelectView, SkipView, DeliverView, MarkView DEF WorkerStep, WorkView
  <2>3. ASSUME NEW s \in Slots, InboxStep(s) PROVE WorkView
    BY <2>3, InboxView DEF WorkView
  <2> QED BY <1>1, <2>1, <2>2, <2>3, QuietView, QueuersView DEF SystemNext, WorkView
<1>2. CASE Environment
  BY <1>2, QuietView, QueuersView, RetryView, RestartView DEF Environment, WorkView
<1>3. CASE UNCHANGED vars
  BY <1>3, WaitsSame DEF vars, SameRace, KeptRace, WorkView
<1> QED BY <1>1, <1>2, <1>3 DEF Next
-----------------------------------------------------------------------------
(* Claimed jobs are held, and answered ones are not taken back. *)

\* Not only in its batch: its own claim put a job in processing.
ClaimOK ==
    \A k \in JobIds :
        jobs[k].st = "processing" =>
            (\E w \in Workers : InHand(w, k)) \/ k \in history.orphaned

LEMMA ClaimedStep ==
  ASSUME Core, ClaimOK, [Next]_vars
  PROVE  ClaimOK'
<1> SUFFICES ASSUME NEW k \in JobIds, jobs'[k].st = "processing", k \notin history'.orphaned
             PROVE  \E w \in Workers : InHand(w, k)'
  BY DEF ClaimOK
<1>1. k \notin history.orphaned /\ jobs[k].st = "processing" => \E w \in Workers : InHand(w, k)
  BY DEF ClaimOK
<1>2. CASE Waits
  BY <1>1, <1>2 DEF Waits, SameHands, SameRace
<1>3. CASE Halts
  BY <1>1, <1>3 DEF Halts, SameJobs
<1>4. ASSUME NEW w \in Workers, Acks(w) PROVE \E v \in Workers : InHand(v, k)'
  BY <1>1, <1>4 DEF Acks, SameHands, SameJobs, Others
<1>5. ASSUME NEW w \in Workers, Drops(w) PROVE \E v \in Workers : InHand(v, k)'
  <2>1. jobs[k].st = "processing" /\ k \notin history.orphaned
    BY <1>5 DEF Drops, SameJobs, OnlyJob
  <2>2. PICK v \in Workers : InHand(v, k)
    BY <1>1, <2>1
  <2>3. v # w
    BY <1>5, <2>2 DEF Drops
  <2> QED BY <1>5, <2>2, <2>3 DEF Drops, Others, SameHands
<1>6. ASSUME NEW w \in Workers, NEW ids \in SUBSET JobIds, Selects(w, ids)
      PROVE  \E v \in Workers : InHand(v, k)'
  BY <1>1, <1>6 DEF Selects, SameHands, SameJobs, Others
<1>7. ASSUME NEW w \in Workers, NEW i \in JobIds, Skips(w, i)
      PROVE  \E v \in Workers : InHand(v, k)'
  <2>1. k # i /\ jobs[k].st = "processing"
    BY <1>7 DEF Skips, OnlyJob
  <2> QED BY <1>1, <1>7, <2>1 DEF Skips, SameHands, Others, SameRace
<1>8. ASSUME NEW w \in Workers, NEW i \in JobIds, Takes(w, i)
      PROVE  \E v \in Workers : InHand(v, k)'
  <2>1. CASE k = i
    BY <1>8, <2>1 DEF Takes
  <2>2. CASE k # i
    <3>1. jobs[k].st = "processing" /\ k \notin history.orphaned
      BY <1>8, <2>2 DEF Takes, OnlyJob
    <3> QED BY <1>1, <1>8, <2>2, <3>1 DEF Takes, SameHands, Others
  <2> QED BY <2>1, <2>2
<1>9. ASSUME NEW w \in Workers, NEW i \in JobIds, Ends(w, i)
      PROVE  \E v \in Workers : InHand(v, k)'
  <2>1. k # i /\ jobs[k].st = "processing"
    BY <1>9 DEF Ends, OnlyJob
  <2> QED BY <1>1, <1>9, <2>1 DEF Ends, SameHands, Others, SameRace
<1>10. WorkView
  BY WorkStep
<1> QED BY <1>2, <1>3, <1>4, <1>5, <1>6, <1>7, <1>8, <1>9, <1>10 DEF WorkView

\* No delivery job is lost: one in 'processing' is in a worker's hands until the worker
\* that claimed it last is stopped with it or cannot record how its delivery ended,
\* however many workers poll the table.
THEOREM FederationClaimedJobsAreHeld == Spec => []ClaimedJobsAreHeld
<1>1. Init => ClaimOK
  BY DEF Init, ClaimOK
<1>2. Core /\ ClaimOK /\ [Next]_vars => ClaimOK'
  BY ClaimedStep
<1>3. ClaimOK => ClaimedJobsAreHeld
  BY HeldMeans DEF ClaimOK, ClaimedJobsAreHeld
<1> QED BY <1>1, <1>2, <1>3, CoreInvariant, PTL DEF Spec

\* What RaceOK says of one job that was not raced for, and its primed form.
RaceFree(k) ==
    /\ \A w, x \in Workers : (InBatch(w, k) \/ InHand(w, k)) /\ (InBatch(x, k) \/ InHand(x, k)) => w = x
    /\ \A w \in Workers : InBatch(w, k) => jobs[k].st = "queued" /\ k \notin history.acked
    /\ \A w \in Workers : InHand(w, k) => jobs[k].st = "processing"
    /\ \A w \in Workers : InHand(w, k) /\ worker[w].at \in {"wait", "err"} => k \notin history.acked
    /\ k \in history.acked => jobs[k].st \in {"processing", "delivered"}

LEMMA RaceMeans ==
  /\ HistoryOK => (RaceOK <=> \A k \in JobIds : k \notin history.raced => RaceFree(k))
  /\ HistoryOK' => (RaceOK' <=> \A k \in JobIds : k \notin history'.raced => RaceFree(k)')
<1>1. HistoryOK => (RaceOK <=> \A k \in JobIds : k \notin history.raced => RaceFree(k))
  BY HeldMeans DEF HistoryOK, HistoryRecs, RaceOK, RaceFree
<1>2. HistoryOK' => (RaceOK' <=> \A k \in JobIds : k \notin history'.raced => RaceFree(k)')
  BY HeldMeans DEF HistoryOK, HistoryRecs, RaceOK, RaceFree
<1> QED BY <1>1, <1>2

LEMMA RaceStep ==
  ASSUME Core, RaceOK, [Next]_vars
  PROVE  RaceOK'
<1>1. Core' /\ HistoryOK /\ HistoryOK'
  BY CoreStep DEF Core, FedTypes
<1> SUFFICES ASSUME NEW k \in JobIds, k \notin history'.raced
             PROVE  RaceFree(k)'
  BY <1>1, RaceMeans
<1>2. ASSUME k \notin history.raced PROVE RaceFree(k)
  BY <1>1, <1>2, RaceMeans
<1>3. CASE Waits
  <2>1. \A w \in Workers : ~(jobs[k].st = "absent" /\ (InBatch(w, k) \/ InHand(w, k)))
    BY HeldMeans DEF Core, HeldOK
  <2>2. RaceFree(k)
    BY <1>2, <1>3 DEF Waits, SameRace, KeptRace
  <2> QED BY <1>3, <2>1, <2>2 DEF Waits, SameRace, KeptRace, SameHands, RaceFree
<1>4. CASE Halts
  <2>1. RaceFree(k)
    BY <1>2, <1>4 DEF Halts, SameRace, KeptRace
  <2> QED BY <1>4, <2>1 DEF Halts, SameRace, KeptRace, SameJobs, RaceFree
<1>5. ASSUME NEW w \in Workers, Acks(w) PROVE RaceFree(k)'
  <2>1. RaceFree(k)
    BY <1>2, <1>5 DEF Acks
  <2>2. PICK i \in JobIds : InHand(w, i) /\ history'.acked = history.acked \cup {i}
    BY <1>5 DEF Acks
  <2>3. \A v \in Workers : SameHands(v)
    BY <1>5 DEF Acks, Others
  <2> QED BY <1>5, <2>1, <2>2, <2>3 DEF Acks, SameHands, SameJobs, Others, RaceFree
<1>6. ASSUME NEW w \in Workers, Drops(w) PROVE RaceFree(k)'
  <2>1. RaceFree(k)
    BY <1>2, <1>6 DEF Drops, SameRace, KeptRace
  <2>2. CASE SameJobs
    BY <1>6, <2>1, <2>2 DEF Drops, SameHands, SameJobs, SameRace, KeptRace, Others, RaceFree
  <2>3. ASSUME NEW i \in JobIds, InHand(w, i), OnlyJob(i),
               \/ worker[w].at = "ok" /\ jobs'[i].st = "delivered"
               \/ worker[w].at = "err" /\ jobs'[i].st \in {"queued", "failed"}
        PROVE  RaceFree(k)'
    BY <1>6, <2>1, <2>3 DEF Drops, SameHands, OnlyJob, SameRace, KeptRace, Others, RaceFree
  <2> QED BY <1>6, <2>2, <2>3 DEF Drops
<1>7. ASSUME NEW w \in Workers, NEW ids \in SUBSET JobIds, Selects(w, ids) PROVE RaceFree(k)'
  <2>1. RaceFree(k)
    BY <1>2, <1>7 DEF Selects
  <2>2. k \in ids => \A x \in Workers \ {w} : ~InBatch(x, k) /\ ~InHand(x, k)
    BY <1>7, HeldMeans DEF Selects
  <2> QED BY <1>7, <2>1, <2>2 DEF Selects, SameHands, SameJobs, Others, RaceFree
<1>8. ASSUME NEW w \in Workers, NEW i \in JobIds, Skips(w, i) PROVE RaceFree(k)'
  <2>1. RaceFree(k)
    BY <1>2, <1>8 DEF Skips, SameRace, KeptRace
  <2> QED BY <1>8, <2>1 DEF Skips, SameHands, OnlyJob, SameRace, KeptRace, Others, RaceFree
<1>9. ASSUME NEW w \in Workers, NEW i \in JobIds, Takes(w, i) PROVE RaceFree(k)'
  <2>1. RaceFree(k)
    BY <1>2, <1>9 DEF Takes, SameRace, KeptRace
  <2> QED BY <1>9, <2>1 DEF Takes, SameHands, OnlyJob, SameRace, KeptRace, Others, RaceFree
<1>10. ASSUME NEW w \in Workers, NEW i \in JobIds, Ends(w, i) PROVE RaceFree(k)'
  <2>1. RaceFree(k)
    BY <1>2, <1>10 DEF Ends, SameRace, KeptRace
  <2> QED BY <1>10, <2>1 DEF Ends, SameHands, OnlyJob, SameRace, KeptRace, Others, RaceFree
<1>11. WorkView
  BY WorkStep
<1> QED BY <1>3, <1>4, <1>5, <1>6, <1>7, <1>8, <1>9, <1>10, <1>11 DEF WorkView

\* A job whose POST was answered with success is not queued or failed again, unless two
\* workers had it in their batches at the same time.
THEOREM FederationDeliveredStaysDelivered == Spec => []DeliveredStaysDelivered
<1>1. Init => RaceOK
  <2> SUFFICES ASSUME Init PROVE RaceOK
    OBVIOUS
  <2>1. \A w \in Workers : \A k \in JobIds : ~InBatch(w, k) /\ ~InHand(w, k)
    BY DEF Init, IdleWorker, InBatch, InHand
  <2>2. HistoryOK
    BY InitTypes DEF FedTypes
  <2>3. \A k \in JobIds : RaceFree(k)
    BY <2>1 DEF RaceFree, Init
  <2> QED BY <2>2, <2>3, RaceMeans
<1>2. Core /\ RaceOK /\ [Next]_vars => RaceOK'
  BY RaceStep
<1>3. Core /\ RaceOK => DeliveredStaysDelivered
  BY DEF Core, FedTypes, HistoryOK, HistoryRecs, RaceOK, DeliveredStaysDelivered
<1> QED BY <1>1, <1>2, <1>3, CoreInvariant, PTL DEF Spec
-----------------------------------------------------------------------------
(* A purge under a rule holds. *)

\* Only the inbox check lets a POST through to the INSERT; past a rule, that is noted.
LetPast(z) ==
    Refuses(z) /\ request[z].srv \in Peers =>
        request[z].act \in history'.admitted[request[z].srv]

LEMMA StoreView ==
  ASSUME Core, [Next]_vars, NEW z \in Slots, request'[z].at = "store"
  PROVE  /\ request'[z].srv = request[z].srv /\ request'[z].act = request[z].act
         /\ \/ request[z].at = "store"
            \/ request[z].at = "check" /\ LetPast(z)
<1> DEFINE Goal == /\ request'[z].srv = request[z].srv /\ request'[z].act = request[z].act
                   /\ \/ request[z].at = "store"
                      \/ request[z].at = "check" /\ LetPast(z)
<1>1. request \in [Slots -> [at : {"free", "check", "store"}, srv : Servers \cup {None},
                             act : 0 .. MaxActs, by : Workers \cup {None}]]
  BY DEF Core, FedTypes, RequestOK
<1>2. UNCHANGED request => Goal
  OBVIOUS
<1>3. ASSUME NEW srv, NEW a, NEW by, Post(srv, a, by) PROVE Goal
  <2>1. PICK s \in Slots : request' = [request EXCEPT ![s] =
                              [at |-> "check", srv |-> srv, act |-> a, by |-> by]]
    BY <1>3, PostTakes
  <2>2. z # s
    BY <1>1, <2>1
  <2> QED BY <1>1, <2>1, <2>2
<1>4. ASSUME NEW s \in Slots, request' = [request EXCEPT ![s] = FreeSlot] PROVE Goal
  <2>1. z # s
    BY <1>1, <1>4 DEF FreeSlot
  <2> QED BY <1>1, <1>4, <2>1
<1>5. ASSUME NEW s \in Slots, InboxStep(s) PROVE Goal
  <2>1. CASE request[s].at = "check" /\ LetPast(s) /\ request' = [request EXCEPT ![s].at = "store"]
    <3>1. CASE z = s
      BY <1>1, <2>1, <3>1
    <3>2. CASE z # s
      BY <1>1, <2>1, <3>2
    <3> QED BY <3>1, <3>2
  <2>2. ASSUME NEW good, Answer(s, good) PROVE Goal
    BY <1>4, <2>2 DEF Answer
  <2>3. ASSUME request[s].at = "check", Admit(s)
        PROVE  LetPast(s) /\ request' = [request EXCEPT ![s].at = "store"]
    <3>1. request[s].srv \in Servers
      BY <2>3 DEF Core, FedTypes, RequestOK
    <3>2. CASE Refuses(s) /\ request[s].srv \in Peers
      <4> DEFINE A == history.admitted[request[s].srv] \cup {request[s].act}
      <4>1. history' = [history EXCEPT !.admitted[request[s].srv] = A]
        BY <2>3, <3>2 DEF Admit
      <4> HIDE DEF A
      <4>2. history'.admitted[request[s].srv] = A
        BY <3>2, <4>1 DEF Core, FedTypes, HistoryOK, HistoryRecs
      <4> QED BY <2>3, <4>2 DEF A, Admit, LetPast
    <3> QED BY <2>3, <3>2 DEF Admit, LetPast
  <2> HIDE DEF Goal
  <2> QED BY <1>5, <2>1, <2>2, <2>3 DEF InboxStep, InboxCheck, InboxStore
<1>6. ASSUME NEW w \in Workers, DeliverJob(w) PROVE Goal
  <2>1. UNCHANGED request \/ \E j \in worker[w].batch : Post(j.id[2], j.id[1], w)
    BY <1>6, DeliverCases
  <2> HIDE DEF Goal
  <2> QED BY <1>2, <1>3, <2>1
<1>7. ASSUME NEW w \in Workers, TimeOut(w) PROVE Goal
  <2>1. request'[z] = request[z] \/ request'[z] = [request[z] EXCEPT !.by = None]
    BY <1>7 DEF TimeOut
  <2> QED BY <1>1, <2>1
<1>8. ASSUME RestartOrigin PROVE Goal
  <2>1. request'[z] = FreeSlot \/ request'[z] = [request[z] EXCEPT !.by = None]
    BY <1>8 DEF RestartOrigin
  <2>2. request'[z] # FreeSlot
    BY DEF FreeSlot
  <2> QED BY <1>1, <2>1, <2>2
<1>9. ASSUME NEW p \in Peers, RestartPeer(p) PROVE Goal
  <2>1. request'[z] = FreeSlot \/ request'[z] = request[z]
    BY <1>9 DEF RestartPeer
  <2>2. request'[z] # FreeSlot
    BY DEF FreeSlot
  <2> QED BY <2>1, <2>2
<1>10. ASSUME SystemNext PROVE Goal
  <2> HIDE DEF Goal
  <2> QED BY <1>2, <1>5, <1>6, <1>10
             DEF SystemNext, EditorStep, EditUpdate, Publish, PublishFails, Broadcast, WorkerStep, SelectDueJobs,
                 SkipBlocked, MarkDelivered, MarkAttempt, HandleActivity, QueueAccept
<1>11. ASSUME Environment PROVE Goal
  <2> HIDE DEF Goal
  <2> QED BY <1>2, <1>3, <1>7, <1>8, <1>9, <1>11
             DEF Environment, EditRead, PeerSend, RejectFollow, PurgeRemoteVideos, PeerRepost,
                 SetDomainRule, DeleteDomainRule, RetryDeliveryJob
<1> QED BY <1>2, <1>10, <1>11 DEF Next, vars

\* Nothing of the origin's is admitted unnoted by an instance that has a rule against it.
LEMMA AdmittedShrinks ==
  ASSUME Core, [Next]_vars, NEW p \in Peers, <<p, Origin>> \in rules
  PROVE  Admitted(p, Origin)' \subseteq Admitted(p, Origin) \cup history'.admitted[p]
<1>1. Core'
  BY CoreStep
<1> SUFFICES ASSUME NEW a \in 1 .. Len(issued'),
                    \/ handler'[p][a] = "apply"
                    \/ \E s \in Slots : /\ request'[s].srv = p /\ request'[s].act = a
                                        /\ request'[s].at = "store"
             PROVE  a \in Admitted(p, Origin) \cup history'.admitted[p]
  BY DEF Admitted
<1>2. p \in Servers /\ p # Origin
  BY ServersFact
<1>3. a \in Acts
  <2>1. IssuedOK'
    BY <1>1 DEF Core, FedTypes
  <2>2. Len(issued') \in Nat /\ Len(issued') <= MaxActs
    BY <2>1 DEF IssuedOK
  <2> QED BY <2>2, NumbersFact
<1>4. ASSUME NEW s \in Slots, request[s].srv = p, request[s].act = a, request[s].at # "free"
      PROVE  a \in 1 .. Len(issued) /\ issued[a].by = Origin
  BY <1>2, <1>4 DEF Core, RequestsRouted, Routed
<1>5. ASSUME NEW s \in Slots, request[s].srv = p, request[s].act = a, request[s].at = "store"
      PROVE  a \in Admitted(p, Origin)
  BY <1>4, <1>5 DEF Admitted
<1>6. CASE handler'[p][a] = "apply"
  <2>1. CASE \A s \in Servers, b \in Acts : ~HandleActivity(s, b)
    <3>1. \/ handler[p][a] = "apply"
          \/ \E s \in Slots : /\ request[s].srv = p /\ request[s].act = a
                              /\ request[s].at = "store"
      BY <1>2, <1>3, <1>6, <2>1, HandlerView DEF TaskEnds
    <3>2. CASE handler[p][a] = "apply"
      <4>1. Routed(p, a)
        BY <1>2, <1>3, <3>2, HandlerFacts
      <4> QED BY <1>2, <3>2, <4>1 DEF Routed, Admitted
    <3> QED BY <1>5, <3>1, <3>2
  <2>2. ASSUME NEW s \in Servers, NEW b \in Acts, HandleActivity(s, b)
        PROVE  a \in Admitted(p, Origin)
    <3>1. handler[p][a] = "apply"
      <4>1. CASE s = p /\ b = a
        <5>1. handler[s][b] = "apply"
          BY <2>2 DEF HandleActivity
        <5> QED BY <4>1, <5>1
      <4>2. CASE ~(s = p /\ b = a)
        <5>1. handler'[p][a] = handler[p][a]
          BY <1>2, <1>3, <2>2, <4>2, HandleElsewhere
        <5> QED BY <1>6, <5>1
      <4> QED BY <4>1, <4>2
    <3>2. Routed(p, a)
      BY <1>2, <1>3, <3>1, HandlerFacts
    <3> QED BY <1>2, <3>1, <3>2 DEF Routed, Admitted
  <2> QED BY <2>1, <2>2
<1>7. ASSUME NEW s \in Slots, request'[s].srv = p, request'[s].act = a, request'[s].at = "store"
      PROVE  a \in Admitted(p, Origin) \cup history'.admitted[p]
  <2>1. /\ request[s].srv = p /\ request[s].act = a
        /\ request[s].at = "store" \/ (request[s].at = "check" /\ LetPast(s))
    BY <1>7, StoreView
  <2>2. Refuses(s) \/ request[s].at = "store"
    BY <1>4, <2>1 DEF Refuses
  <2> QED BY <1>5, <2>1, <2>2 DEF LetPast
<1> QED BY <1>6, <1>7

Moderates ==
    \/ \E p \in Peers : SetDomainRule(Origin, p) \/ SetDomainRule(p, Origin)
    \/ \E p \in Peers : DeleteDomainRule(Origin, p) \/ DeleteDomainRule(p, Origin)
    \/ \E p \in Peers : PurgeRemoteVideos(p)

\* The other steps leave rules, catalogues and the record of purges alone.
LEMMA RulesSame ==
  ASSUME Core, [Next]_vars, ~Moderates, \A s \in Servers, a \in Acts : ~HandleActivity(s, a)
  PROVE  /\ UNCHANGED <<rules, catalog>>
         /\ \A p \in Peers : history.admitted[p] \subseteq history'.admitted[p]
         /\ history'.purged = history.purged
<1> DEFINE Goal == /\ \A p \in Peers : history.admitted[p] \subseteq history'.admitted[p]
                   /\ history'.purged = history.purged
<1>1. UNCHANGED history => Goal
  OBVIOUS
<1>2. HistoryOK
  BY DEF Core, FedTypes
<1>3. ASSUME NEW e \in Editors, EditRead(e) PROVE Goal
  <2>1. PICK t : history' = [history EXCEPT !.tangled = t]
    BY <1>3 DEF EditRead
  <2> QED BY <1>2, <2>1 DEF HistoryOK, HistoryRecs
<1>4. ASSUME NEW w \in Workers, SelectDueJobs(w) PROVE Goal
  <2>1. PICK R : history' = [history EXCEPT !.raced = R]
    BY <1>4 DEF SelectDueJobs
  <2> QED BY <1>2, <2>1 DEF HistoryOK, HistoryRecs
<1>5. ASSUME NEW s \in Slots, InboxStep(s) PROVE Goal
  <2>1. CASE UNCHANGED history \/ \E A : history' = [history EXCEPT !.acked = A]
    BY <1>2, <2>1 DEF HistoryOK, HistoryRecs
  <2>2. CASE history' = [history EXCEPT !.admitted[request[s].srv] = @ \cup {request[s].act}]
    BY <1>2, <2>2 DEF HistoryOK, HistoryRecs
  <2>3. \/ UNCHANGED history \/ \E A : history' = [history EXCEPT !.acked = A]
        \/ history' = [history EXCEPT !.admitted[request[s].srv] = @ \cup {request[s].act}]
    BY <1>5 DEF InboxStep, InboxCheck, InboxStore, Answer, Admit
  <2> QED BY <2>1, <2>2, <2>3
<1>6. ASSUME RestartOrigin PROVE Goal
  <2>1. PICK U, O, t : history' = [history EXCEPT !.unmarked = U, !.orphaned = O, !.tangled = t]
    BY <1>6 DEF RestartOrigin
  <2> QED BY <1>2, <2>1 DEF HistoryOK, HistoryRecs
<1>7. ASSUME NEW p \in Peers, RestartPeer(p) PROVE Goal
  <2>1. PICK U : history' = [history EXCEPT !.unmarked = U]
    BY <1>7 DEF RestartPeer
  <2> QED BY <1>2, <2>1 DEF HistoryOK, HistoryRecs
<1>8. ASSUME NEW e \in Editors, EditorStep(e) PROVE Goal
  <2>1. UNCHANGED history \/ \E l : history' = [history EXCEPT !.lost = l]
    BY <1>8, EditorHistory
  <2> QED BY <1>2, <2>1 DEF HistoryOK, HistoryRecs
<1>9. ASSUME NEW w \in Workers, WorkerStep(w) PROVE Goal
  <2>1. CASE UNCHANGED history \/ \E O : history' = [history EXCEPT !.orphaned = O]
    BY <1>2, <2>1 DEF HistoryOK, HistoryRecs
  <2> QED BY <1>4, <1>9, <2>1, WorkerHistory
<1>10. ASSUME SystemNext PROVE Goal /\ UNCHANGED <<rules, catalog>>
  <2> HIDE DEF Goal
  <2> QED BY <1>1, <1>5, <1>8, <1>9, <1>10
             DEF SystemNext, EditorStep, EditUpdate, Publish, PublishFails, Broadcast, WorkerStep,
                 SelectDueJobs, SkipBlocked, DeliverJob, MarkDelivered, MarkAttempt, QueueAccept,
                 InboxStep, InboxCheck, InboxStore
<1>11. ASSUME Environment PROVE Goal /\ UNCHANGED <<rules, catalog>>
  <2> HIDE DEF Goal
  <2> QED BY <1>1, <1>3, <1>6, <1>7, <1>11
             DEF Environment, Moderates, EditRead, TimeOut, PeerSend, RejectFollow, PeerRepost,
                 RetryDeliveryJob, RestartOrigin, RestartPeer
<1> QED BY <1>1, <1>10, <1>11 DEF Next, vars

\* What moderation does at peer p; at the other peers it does nothing.
LEMMA ModerateView ==
  ASSUME Core, Moderates
  PROVE  /\ UNCHANGED <<issued, handler, request>>
         /\ \A p \in Peers :
               \/ /\ (<<p, Origin>> \in rules' <=> <<p, Origin>> \in rules)
                  /\ catalog'[p] = catalog[p]
                  /\ history'.admitted[p] = history.admitted[p]
                  /\ history'.purged[p] = history.purged[p]
               \/ /\ <<p, Origin>> \notin rules /\ catalog'[p] = catalog[p]
                  /\ history'.admitted[p] = Admitted(p, Origin)
                  /\ history'.purged[p] = history.purged[p]
               \/ <<p, Origin>> \notin rules' /\ history'.purged[p] # "ruled"
               \/ /\ (<<p, Origin>> \in rules' <=> <<p, Origin>> \in rules)
                  /\ catalog'[p].st = "deleted"
                  /\ history'.admitted[p] = history.admitted[p]
                  /\ history'.purged[p] = "ruled" => <<p, Origin>> \in rules
<1> DEFINE Same(p) == /\ (<<p, Origin>> \in rules' <=> <<p, Origin>> \in rules)
                      /\ catalog'[p] = catalog[p]
                      /\ history'.admitted[p] = history.admitted[p]
                      /\ history'.purged[p] = history.purged[p]
           Set(p) == /\ <<p, Origin>> \notin rules /\ catalog'[p] = catalog[p]
                     /\ history'.admitted[p] = Admitted(p, Origin)
                     /\ history'.purged[p] = history.purged[p]
           Deleted(p) == <<p, Origin>> \notin rules' /\ history'.purged[p] # "ruled"
           Purged(p) == /\ (<<p, Origin>> \in rules' <=> <<p, Origin>> \in rules)
                        /\ catalog'[p].st = "deleted"
                        /\ history'.admitted[p] = history.admitted[p]
                        /\ history'.purged[p] = "ruled" => <<p, Origin>> \in rules
           View == \A p \in Peers : Same(p) \/ Set(p) \/ Deleted(p) \/ Purged(p)
<1>1. UNCHANGED <<issued, handler, request>>
  BY DEF Moderates, SetDomainRule, DeleteDomainRule, PurgeRemoteVideos
<1>2. HistoryOK /\ CatalogOK /\ Origin \notin Peers
  BY ServersFact DEF Core, FedTypes
<1>3. ASSUME NEW p \in Peers, SetDomainRule(Origin, p) \/ DeleteDomainRule(Origin, p)
      PROVE  \A q \in Peers : Same(q)
  <2>1. UNCHANGED <<catalog, history>>
        /\ (rules' = rules \cup {<<Origin, p>>} \/ rules' = rules \ {<<Origin, p>>})
    BY <1>2, <1>3 DEF SetDomainRule, DeleteDomainRule
  <2>2. \A q \in Peers : <<q, Origin>> # <<Origin, p>>
    BY <1>2
  <2> QED BY <2>1, <2>2
<1>4. ASSUME NEW p \in Peers, SetDomainRule(p, Origin)
      PROVE  Set(p) /\ \A q \in Peers : q # p => Same(q)
  <2> DEFINE A == Admitted(p, Origin)
  <2>1. /\ <<p, Origin>> \notin rules /\ UNCHANGED catalog /\ rules' = rules \cup {<<p, Origin>>}
        /\ history' = [history EXCEPT !.admitted[p] = A]
    BY <1>4 DEF SetDomainRule
  <2> HIDE DEF A
  <2>2. history'.admitted[p] = A /\ history'.purged = history.purged
        /\ \A q \in Peers : q # p => history'.admitted[q] = history.admitted[q]
    BY <1>2, <2>1 DEF HistoryOK, HistoryRecs
  <2>3. \A q \in Peers : q # p => <<q, Origin>> # <<p, Origin>>
    OBVIOUS
  <2> QED BY <2>1, <2>2, <2>3 DEF A
<1>5. ASSUME NEW p \in Peers, DeleteDomainRule(p, Origin)
      PROVE  Deleted(p) /\ \A q \in Peers : q # p => Same(q)
  <2>1. /\ UNCHANGED catalog /\ rules' = rules \ {<<p, Origin>>}
        /\ history' = IF history.purged[p] = "ruled" THEN [history EXCEPT !.purged[p] = "free"]
                                                     ELSE history
    BY <1>5 DEF DeleteDomainRule
  <2>2. history'.purged[p] # "ruled" /\ history'.admitted = history.admitted
        /\ \A q \in Peers : q # p => history'.purged[q] = history.purged[q]
    BY <1>2, <2>1 DEF HistoryOK, HistoryRecs
  <2>3. \A q \in Peers : q # p => <<q, Origin>> # <<p, Origin>>
    OBVIOUS
  <2> QED BY <2>1, <2>2, <2>3
<1>6. ASSUME NEW p \in Peers, PurgeRemoteVideos(p)
      PROVE  Purged(p) /\ \A q \in Peers : q # p => Same(q)
  <2> DEFINE x == IF <<p, Origin>> \in rules THEN "ruled" ELSE "free"
  <2>1. /\ UNCHANGED rules /\ catalog' = [catalog EXCEPT ![p].st = "deleted"]
        /\ history' = [history EXCEPT !.purged[p] = x]
    BY <1>6 DEF PurgeRemoteVideos
  <2>2. x = "ruled" => <<p, Origin>> \in rules
    OBVIOUS
  <2> HIDE DEF x
  <2>3. history'.purged[p] = x /\ history'.admitted = history.admitted
        /\ \A q \in Peers : q # p => history'.purged[q] = history.purged[q]
    BY <1>2, <2>1 DEF HistoryOK, HistoryRecs
  <2>4. catalog'[p].st = "deleted" /\ \A q \in Peers : q # p => catalog'[q] = catalog[q]
    BY <1>2, <2>1 DEF CatalogOK
  <2> QED BY <2>1, <2>2, <2>3, <2>4
<1>7. View
  <2> HIDE DEF Same, Set, Deleted, Purged
  <2> QED BY <1>3, <1>4, <1>5, <1>6 DEF Moderates
<1> QED BY <1>1, <1>7

\* The catalogue a peer's task writes: what makes the video available was admitted.
LEMMA EffectView ==
  ASSUME Core, NEW s \in Servers, NEW a \in Acts, HandleActivity(s, a)
  PROVE  /\ UNCHANGED rules
         /\ \A p \in Peers : \/ catalog'[p] = catalog[p]
                             \/ catalog'[p].st # "available"
                             \/ catalog'[p].act = a /\ a \in Admitted(p, Origin)
<1>1. UNCHANGED rules /\ handler[s][a] = "apply"
  BY DEF HandleActivity
<1>2. Routed(s, a)
  BY <1>1, HandlerFacts
<1>3. UNCHANGED catalog \/ Effect(s, a)
  BY DEF HandleActivity
<1>4. CatalogOK /\ Origin \notin Peers
  BY ServersFact DEF Core, FedTypes
<1>5. CASE Effect(s, a)
  <2>1. CASE issued[a].type \in {"Create", "Update"}
    <3>1. issued[a].by = Origin
      BY <1>2, <2>1 DEF Routed, Core, ActsOK
    <3>2. s \in Peers /\ a \in Admitted(s, Origin)
      BY <1>1, <1>2, <1>4, <3>1 DEF Routed, Servers, Admitted
    <3>3. catalog' = [catalog EXCEPT ![s] = [st |-> "available", ver |-> issued[a].obj, act |-> a]]
      BY <1>5, <2>1 DEF Effect, UpsertVideo
    <3>4. catalog'[s].act = a /\ \A p \in Peers : p # s => catalog'[p] = catalog[p]
      BY <1>4, <3>2, <3>3 DEF CatalogOK
    <3> QED BY <1>1, <3>2, <3>4
  <2>2. CASE issued[a].type = "Delete"
    <3>1. PICK st \in {"none", "deleted"} : catalog' = [catalog EXCEPT ![s].st = st]
      BY <1>5, <2>2 DEF Effect, DeleteVideo
    <3>2. \A p \in Peers : catalog'[p] = catalog[p] \/ catalog'[p].st = st
      BY <1>4, <3>1 DEF CatalogOK
    <3> QED BY <1>1, <3>1, <3>2
  <2>3. CASE issued[a].type \notin {"Create", "Update", "Delete"}
    <3>1. UNCHANGED catalog
      BY <1>5, <2>3 DEF Effect, FollowAnswered
    <3> QED BY <1>1, <3>1
  <2> QED BY <2>1, <2>2, <2>3
<1> QED BY <1>1, <1>3, <1>5

LEMMA PurgeStep ==
  ASSUME Core, RuleOK, PurgeHolds, [Next]_vars
  PROVE  RuleOK' /\ PurgeHolds'
<1> SUFFICES ASSUME NEW p \in Peers
             PROVE  /\ <<p, Origin>> \in rules' => Admitted(p, Origin)' \subseteq history'.admitted[p]
                    /\ history'.purged[p] = "ruled" => <<p, Origin>> \in rules'
                    /\ history'.purged[p] = "ruled" /\ catalog'[p].st = "available"
                          => catalog'[p].act \in history'.admitted[p]
  BY DEF RuleOK, PurgeHolds
<1>1. /\ <<p, Origin>> \in rules => Admitted(p, Origin) \subseteq history.admitted[p]
      /\ history.purged[p] = "ruled" => <<p, Origin>> \in rules
      /\ history.purged[p] = "ruled" /\ catalog[p].st = "available"
            => catalog[p].act \in history.admitted[p]
  BY DEF RuleOK, PurgeHolds
<1>2. <<p, Origin>> \in rules =>
         Admitted(p, Origin)' \subseteq Admitted(p, Origin) \cup history'.admitted[p]
  BY AdmittedShrinks
<1>3. CASE Moderates
  <2>1. Admitted(p, Origin)' = Admitted(p, Origin)
    BY <1>3, ModerateView DEF Admitted
  <2> QED BY <1>1, <1>3, <2>1, ModerateView
<1>4. ASSUME NEW s \in Servers, NEW a \in Acts, HandleActivity(s, a)
      PROVE  /\ <<p, Origin>> \in rules' => Admitted(p, Origin)' \subseteq history'.admitted[p]
             /\ history'.purged[p] = "ruled" => <<p, Origin>> \in rules'
             /\ history'.purged[p] = "ruled" /\ catalog'[p].st = "available"
                   => catalog'[p].act \in history'.admitted[p]
  <2>1. history'.admitted = history.admitted /\ history'.purged = history.purged
    BY <1>4, HandleView
  <2>2. /\ UNCHANGED rules
        /\ \/ catalog'[p] = catalog[p]
           \/ catalog'[p].st # "available"
           \/ catalog'[p].act = a /\ a \in Admitted(p, Origin)
    BY <1>4, EffectView
  <2> QED BY <1>1, <1>2, <2>1, <2>2
<1>5. CASE ~Moderates /\ \A s \in Servers, a \in Acts : ~HandleActivity(s, a)
  <2>1. /\ UNCHANGED <<rules, catalog>>
        /\ history.admitted[p] \subseteq history'.admitted[p] /\ history'.purged = history.purged
    BY <1>5, RulesSame
  <2> QED BY <1>1, <1>2, <2>1
<1> QED BY <1>3, <1>4, <1>5

\* After a rule against the origin and a purge, whatever is in flight and however the
\* tasks interleave, the origin's video is available at the peer again only through an
\* activity its inbox had let in before the rule, or because its look-up of the rule failed.
THEOREM FederationPurgeHolds == Spec => []PurgeHolds
<1>1. Init => RuleOK /\ PurgeHolds
  BY DEF Init, RuleOK, PurgeHolds
<1>2. Core /\ RuleOK /\ PurgeHolds /\ [Next]_vars => RuleOK' /\ PurgeHolds'
  BY PurgeStep
<1> QED BY <1>1, <1>2, CoreInvariant, PTL DEF Spec
-----------------------------------------------------------------------------
(* What a peer shows, once it has handled every publication. *)

\* The publications, and those that peer p has applied.
VideoActs == {a \in 1 .. Len(issued) : IsVideoAct(a)}
SeenActs(p) == {a \in VideoActs : history.applied[p][a] > 0}
IsLast(a, S) == a \in S /\ \A b \in S : b <= a

InFlight(e) == edit[e].at \notin {"new", "done"}
Publishing(e) == edit[e].at \in {"Create", "Update", "Delete"}

\* What an edit has read and is about to publish agrees with the video.
EditFits(e) ==
    /\ edit[e].at = "update" => edit[e].prev \in {video.vis, "local_only"}
    /\ edit[e].at \in {"Create", "Update"} => video.vis = "public"
    /\ edit[e].at = "Delete" => video.vis = "local_only"

\* With no edit about to publish, and the last one not lost, the last publication is
\* the video as it is.
LastFits ==
    /\ VideoActs = {} => video.vis = InitialVis /\ (video.vis = "public" => video.ver = 0)
    /\ \A a : IsLast(a, VideoActs) =>
          IF issued[a].type = "Delete" THEN video.vis = "local_only"
          ELSE video.vis = "public" /\ video.ver = issued[a].obj

\* As long as no edits overlapped or were cut off: one is in flight at most.
EditsFit ==
    /\ ~video.uri => InitialVis = "local_only"
    /\ ~history.tangled =>
          /\ \A e, f \in Editors : InFlight(e) /\ InFlight(f) => e = f
          /\ \A e \in Editors : EditFits(e)
          /\ (\A e \in Editors : ~Publishing(e)) /\ ~history.lost => LastFits

\* What the catalogue of peer p shows after activity a.
Shows(p, a) ==
    IF issued[a].type = "Delete" THEN catalog[p].st # "available"
    ELSE catalog[p].st = "available" /\ catalog[p].ver = issued[a].obj

\* A peer shows the last publication it applied, or what it had at first.
CatalogFitsAt(p) ==
    /\ SeenActs(p) = {} =>
          /\ catalog[p].st = "available" <=> p \in Followers /\ InitialVis = "public"
          /\ catalog[p].ver = 0
    /\ \A a : IsLast(a, SeenActs(p)) => Shows(p, a)

\* Unless it applied them out of order, or its administrator purged the catalogue.
CatalogFits ==
    \A p \in Peers : p \notin history.overtaken /\ history.purged[p] = "never" => CatalogFitsAt(p)

\* An activity that a peer has marked processed was applied there.
ProcessedOK ==
    \A p \in Peers, a \in Acts : table[p][a] = "processed" => history.applied[p][a] > 0

-----------------------------------------------------------------------------
LEMMA VideoActsAre ==
  ASSUME IssuedOK
  PROVE  VideoActs \subseteq Acts /\ VideoActs \subseteq 1 .. Len(issued) /\ Len(issued) \in Nat
BY LengthIsNat DEF VideoActs

\* Everything but an edit leaves the edits, the video and the publications alone.
EditorMoves == \E e \in Editors : EditRead(e) \/ EditorStep(e)

NoPublication ==
    /\ IssuedGrows
    /\ \A a \in 1 .. Len(issued') :
          a \notin 1 .. Len(issued) => issued'[a].type \notin {"Create", "Update", "Delete"}

LEMMA NoneIssued == ASSUME IssuedOK, UNCHANGED issued PROVE NoPublication
BY SameGrows DEF NoPublication

LEMMA OtherIssued ==
  ASSUME IssuedOK, NEW type \in ActTypes \ {"Create", "Update", "Delete"}, NEW by \in Servers,
         NEW obj \in Nat, Issue(type, by, obj)
  PROVE  NoPublication
<1>1. /\ Len(issued) \in Nat /\ Len(issued') = Len(issued) + 1 /\ NewAct = Len(issued')
      /\ issued'[NewAct] = [type |-> type, by |-> by, obj |-> obj]
      /\ \A a \in 1 .. Len(issued) : issued'[a] = issued[a]
  BY IssueAppends
<1> HIDE DEF NewAct
<1>2. \A a \in 1 .. Len(issued') : a \notin 1 .. Len(issued) => a = NewAct
  BY <1>1
<1>3. issued'[NewAct].type = type
  BY <1>1
<1> QED BY <1>1, <1>2, <1>3 DEF NoPublication, IssuedGrows

LEMMA SameVideoActs ==
  ASSUME IssuedOK, IssuedOK', NoPublication
  PROVE  /\ VideoActs' = VideoActs
         /\ \A a \in VideoActs : issued'[a] = issued[a]
<1>1. /\ Len(issued) \in Nat /\ Len(issued') \in Nat /\ Len(issued) <= Len(issued')
      /\ \A a \in 1 .. Len(issued) : issued'[a] = issued[a]
  BY DEF IssuedOK, NoPublication, IssuedGrows
<1>2. \A a \in 1 .. Len(issued) : a \in 1 .. Len(issued')
  BY <1>1
<1> QED BY <1>1, <1>2 DEF VideoActs, IsVideoAct, NoPublication

\* The steps that are not of an edit, nor a restart, leave edits and publications alone.
LEMMA EditorsSame ==
  ASSUME Core, [Next]_vars, ~EditorMoves, ~RestartOrigin
  PROVE  /\ UNCHANGED <<video, edit>> /\ NoPublication
         /\ history'.tangled = history.tangled /\ history'.lost = history.lost
<1> DEFINE Same == history'.tangled = history.tangled /\ history'.lost = history.lost
<1>1. HistoryOK /\ IssuedOK
  BY DEF Core, FedTypes
<1>2. UNCHANGED history => Same
  OBVIOUS
<1>3. ASSUME NEW w \in Workers, WorkerStep(w) \/ TimeOut(w) PROVE Same
  <2>1. CASE SelectDueJobs(w)
    <3>1. PICK R : history' = [history EXCEPT !.raced = R]
      BY <2>1 DEF SelectDueJobs
    <3> QED BY <1>1, <3>1 DEF HistoryOK, HistoryRecs
  <2>2. CASE \E O : history' = [history EXCEPT !.orphaned = O]
    BY <1>1, <2>2 DEF HistoryOK, HistoryRecs
  <2> QED BY <1>2, <1>3, <2>1, <2>2, WorkerHistory
<1>4. ASSUME NEW s \in Slots, InboxStep(s) PROVE Same
  <2>1. CASE UNCHANGED history \/ \E A : history' = [history EXCEPT !.acked = A]
    BY <1>1, <2>1 DEF HistoryOK, HistoryRecs
  <2>2. CASE \E x : history' = [history EXCEPT !.admitted[request[s].srv] = x]
    BY <1>1, <2>2 DEF HistoryOK, HistoryRecs
  <2>3. \/ UNCHANGED history \/ \E A : history' = [history EXCEPT !.acked = A]
        \/ \E x : history' = [history EXCEPT !.admitted[request[s].srv] = x]
    BY <1>4 DEF InboxStep, InboxCheck, InboxStore, Answer, Admit
  <2> QED BY <2>1, <2>2, <2>3
<1>5. ASSUME NEW s \in Servers, NEW a \in Acts, HandleActivity(s, a) PROVE Same
  BY <1>5, HandleView
<1>6. ASSUME NEW s, NEW d, SetDomainRule(s, d) PROVE Same
  <2>1. UNCHANGED history \/ \E A : history' = [history EXCEPT !.admitted[s] = A]
    BY <1>6 DEF SetDomainRule
  <2> QED BY <1>1, <2>1 DEF HistoryOK, HistoryRecs
<1>7. ASSUME NEW s, NEW d, DeleteDomainRule(s, d) \/ PurgeRemoteVideos(s) PROVE Same
  <2>1. UNCHANGED history \/ \E x : history' = [history EXCEPT !.purged[s] = x]
    BY <1>7 DEF DeleteDomainRule, PurgeRemoteVideos
  <2> QED BY <1>1, <2>1 DEF HistoryOK, HistoryRecs
<1>8. ASSUME NEW p \in Peers, RestartPeer(p) PROVE Same
  <2>1. PICK U : history' = [history EXCEPT !.unmarked = U]
    BY <1>8 DEF RestartPeer
  <2> QED BY <1>1, <2>1 DEF HistoryOK, HistoryRecs
<1>9. Same
  <2>1. ASSUME SystemNext PROVE Same
    <3> HIDE DEF Same
    <3> QED BY <1>2, <1>3, <1>4, <1>5, <2>1 DEF SystemNext, QueueAccept, EditorMoves
  <2>2. ASSUME Environment PROVE Same
    <3> HIDE DEF Same
    <3> QED BY <1>2, <1>3, <1>6, <1>7, <1>8, <2>2
               DEF Environment, PeerSend, RejectFollow, PeerRepost, RetryDeliveryJob, EditorMoves
  <2> QED BY <1>2, <2>1, <2>2 DEF Next, vars
<1>10. UNCHANGED <<video, edit>>
  BY DEF EditorMoves, Next, vars, SystemNext, Environment,
         WorkerStep, SelectDueJobs, SkipBlocked, DeliverJob, MarkDelivered, MarkAttempt, TimeOut,
         InboxStep, InboxCheck, InboxStore, HandleActivity, QueueAccept, PeerSend, PeerRepost,
         SetDomainRule, DeleteDomainRule, PurgeRemoteVideos, RetryDeliveryJob, RejectFollow,
         RestartPeer
<1>11. ASSUME NEW a \in Acts, QueueAccept(a) PROVE NoPublication
  <2>1. "Accept" \in ActTypes \ {"Create", "Update", "Delete"} /\ a \in Nat
    BY NumbersFact DEF ActTypes
  <2>2. Issue("Accept", Origin, a)
    BY <1>11 DEF QueueAccept
  <2> QED BY <1>1, <2>1, <2>2, OtherIssued, ServersFact
<1>12. ASSUME NEW p \in Peers, RejectFollow(p) PROVE NoPublication
  <2>1. "Reject" \in ActTypes \ {"Create", "Update", "Delete"} /\ follows[p].uri \in Nat
    BY NumbersFact DEF ActTypes, Core, FedTypes, FollowsOK
  <2>2. Issue("Reject", Origin, follows[p].uri)
    BY <1>12 DEF RejectFollow
  <2> QED BY <1>1, <2>1, <2>2, OtherIssued, ServersFact
<1>13. ASSUME NEW p \in Peers, PeerSend(p) PROVE NoPublication
  <2>1. PICK last \in Nat : Issue("Follow", p, 0) \/ Issue("Undo", p, last)
    <3> DEFINE mine == {a \in 1 .. Len(issued) : issued[a].by = p}
               last == IF mine = {} THEN 0 ELSE CHOOSE a \in mine : \A b \in mine : b <= a
    <3>1. last \in Nat
      <4>1. Len(issued) \in Nat
        BY <1>1, LengthIsNat
      <4>2. mine \subseteq 1 .. Len(issued)
        OBVIOUS
      <4>3. CASE mine # {}
        <5> HIDE DEF mine
        <5>1. \E a \in mine : \A b \in mine : b <= a
          BY <4>1, <4>2, <4>3, LastExists
        <5>2. last \in mine
          BY <4>3, <5>1
        <5> HIDE DEF last
        <5>3. 1 .. Len(issued) \subseteq Nat
          BY <4>1
        <5> QED BY <4>2, <5>2, <5>3
      <4>4. CASE mine = {}
        <5> HIDE DEF mine
        <5> QED BY <4>4
      <4> QED BY <4>3, <4>4
    <3>2. Issue("Follow", p, 0) \/ Issue("Undo", p, last)
      BY <1>13 DEF PeerSend
    <3> QED BY <3>1, <3>2
  <2>2. {"Follow", "Undo"} \subseteq ActTypes \ {"Create", "Update", "Delete"} /\ p \in Servers
    BY ServersFact DEF ActTypes
  <2> QED BY <1>1, <2>1, <2>2, OtherIssued
<1>14. NoPublication
  <2>1. \/ UNCHANGED issued
        \/ \E a \in Acts : QueueAccept(a)
        \/ \E p \in Peers : RejectFollow(p) \/ PeerSend(p)
    BY DEF EditorMoves, Next, vars, SystemNext, Environment,
           WorkerStep, SelectDueJobs, SkipBlocked, DeliverJob, MarkDelivered, MarkAttempt, TimeOut,
           InboxStep, InboxCheck, InboxStore, HandleActivity, PeerRepost,
           SetDomainRule, DeleteDomainRule, PurgeRemoteVideos, RetryDeliveryJob, RestartPeer
  <2> QED BY <1>1, <1>11, <1>12, <1>13, <2>1, NoneIssued
<1> QED BY <1>9, <1>10, <1>14

LEMMA EditsStay ==
  ASSUME Core, Core', EditsFit, NoPublication, history'.tangled = history.tangled,
         history'.lost = history.lost, UNCHANGED <<video, edit>>
  PROVE  EditsFit'
<1>1. VideoActs' = VideoActs /\ \A a \in VideoActs : issued'[a] = issued[a]
  BY SameVideoActs DEF Core, FedTypes
<1>2. LastFits => LastFits'
  BY <1>1 DEF LastFits, IsLast
<1> QED BY <1>2 DEF EditsFit, EditFits, InFlight, Publishing

LEMMA RestartFits ==
  ASSUME Core, Core', EditsFit, RestartOrigin
  PROVE  EditsFit'
<1>1. /\ UNCHANGED <<video, issued>>
      /\ edit' = [e \in Editors |-> IF edit[e].at = "new" THEN edit[e] ELSE DoneEdit]
  BY DEF RestartOrigin
<1>2. NoPublication
  BY <1>1, NoneIssued DEF Core, FedTypes
<1>3. VideoActs' = VideoActs /\ \A a \in VideoActs : issued'[a] = issued[a]
  BY <1>2, SameVideoActs DEF Core, FedTypes
<1>4. LastFits => LastFits'
  BY <1>1, <1>3 DEF LastFits, IsLast
<1>5. \A e \in Editors : edit'[e].at \in {"new", "done"}
  BY <1>1, DoneEditIsDone
<1>6. /\ history'.tangled = (history.tangled \/ \E e \in Editors : edit[e].at \notin {"new", "done"})
      /\ history'.lost = history.lost
  <2> DEFINE t == history.tangled \/ \E e \in Editors : edit[e].at \notin {"new", "done"}
  <2>1. PICK U, O : history' = [history EXCEPT !.unmarked = U, !.orphaned = O, !.tangled = t]
    BY DEF RestartOrigin
  <2> HIDE DEF t
  <2>2. history'.tangled = t /\ history'.lost = history.lost
    BY <2>1 DEF Core, FedTypes, HistoryOK, HistoryRecs
  <2> QED BY <2>2 DEF t
<1>7. ~video'.uri => InitialVis = "local_only"
  BY <1>1 DEF EditsFit
<1> SUFFICES ASSUME ~history'.tangled, ~history'.lost
             PROVE  LastFits'
  BY <1>5, <1>7 DEF EditsFit, EditFits, InFlight, Publishing
<1>8. /\ ~history.tangled /\ ~history.lost
      /\ \A e \in Editors : edit[e].at \in {"new", "done"}
  BY <1>6
<1> QED BY <1>4, <1>8 DEF EditsFit, Publishing

\* One edit moves: what the others have to do with it.
LEMMA OneMoves ==
  ASSUME EditOK, NEW e \in Editors, NEW x, edit' = [edit EXCEPT ![e] = x]
  PROVE  edit'[e] = x /\ \A f \in Editors : f # e => edit'[f] = edit[f]
BY DEF EditOK

LEMMA ReadFits ==
  ASSUME Core, Core', EditsFit, NEW e \in Editors, EditRead(e)
  PROVE  EditsFit'
<1>1. UNCHANGED <<video, issued>> /\ edit[e].at = "new"
  BY DEF EditRead
<1>2. NoPublication
  BY <1>1, NoneIssued DEF Core, FedTypes
<1>3. VideoActs' = VideoActs /\ \A a \in VideoActs : issued'[a] = issued[a]
  BY <1>2, SameVideoActs DEF Core, FedTypes
<1>4. LastFits => LastFits'
  BY <1>1, <1>3 DEF LastFits, IsLast
<1>5. PICK new \in {"public", "local_only", None}, prev \in {video.vis, "local_only"} :
         edit' = [edit EXCEPT ![e].at = "update", ![e].prev = prev, ![e].new = new]
  BY DEF EditRead
<1>6. /\ edit'[e].at = "update" /\ edit'[e].prev \in {video.vis, "local_only"}
      /\ \A f \in Editors : f # e => edit'[f] = edit[f]
  BY <1>5 DEF Core, FedTypes, EditOK
<1>7. /\ history'.tangled = (history.tangled \/ Overlaps(e))
      /\ history'.lost = history.lost
  <2> DEFINE t == history.tangled \/ Overlaps(e)
  <2>1. history' = [history EXCEPT !.tangled = t]
    BY DEF EditRead
  <2> HIDE DEF t
  <2>2. history'.tangled = t /\ history'.lost = history.lost
    BY <2>1 DEF Core, FedTypes, HistoryOK, HistoryRecs
  <2> QED BY <2>2 DEF t
<1>8. ~video'.uri => InitialVis = "local_only"
  BY <1>1 DEF EditsFit
<1> SUFFICES ASSUME ~history'.tangled
             PROVE  /\ \A g, f \in Editors : InFlight(g)' /\ InFlight(f)' => g = f
                    /\ \A f \in Editors : EditFits(f)'
                    /\ ~history'.lost => LastFits'
  BY <1>8 DEF EditsFit
<1>9. ~history.tangled /\ \A f \in Editors : f # e => edit[f].at \in {"new", "done"}
  BY <1>7 DEF Overlaps
<1>10. \A f \in Editors : edit[f].at \in {"new", "done"}
  BY <1>1, <1>9
<1>11. \A f \in Editors : f # e => edit'[f].at \in {"new", "done"}
  BY <1>6, <1>9
<1>12. ~history.lost => LastFits
  BY <1>9, <1>10 DEF EditsFit, Publishing
<1> QED BY <1>1, <1>4, <1>6, <1>7, <1>11, <1>12 DEF EditFits, InFlight

\* While an edit that no other has disturbed is in flight, the others are not.
LEMMA Alone ==
  ASSUME EditsFit, ~history.tangled, NEW e \in Editors, InFlight(e)
  PROVE  /\ \A f \in Editors : f # e => edit[f].at \in {"new", "done"}
         /\ EditFits(e)
BY DEF EditsFit, InFlight

\* What the visibilities before and after lead to.
LEMMA PublicationFits ==
  ASSUME NEW vis \in Visibilities, NEW prev \in {vis, "local_only"},
         NEW want \in Visibilities \cup {None}
  PROVE  LET new == IF want = None THEN vis ELSE want
             eff == IF want = None THEN prev ELSE want
             at == Publication(prev = "public", eff = "public")
         IN  /\ new \in Visibilities
             /\ at \in {"Create", "Update", "Delete", "done"}
             /\ at \in {"Create", "Update"} => new = "public"
             /\ at = "Delete" => new = "local_only"
BY DEF Publication, Visibilities

\* An edit whose UPDATE fails is over.
LEMMA UpdateFailsFits ==
  ASSUME Core, Core', EditsFit, NEW e \in Editors, edit[e].at = "update",
         UNCHANGED <<video, issued, history>>, edit' = [edit EXCEPT ![e] = DoneEdit]
  PROVE  EditsFit'
<1>1. VideoActs' = VideoActs /\ \A a \in VideoActs : issued'[a] = issued[a]
  BY NoneIssued, SameVideoActs DEF Core, FedTypes
<1>2. LastFits => LastFits'
  BY <1>1 DEF LastFits, IsLast
<1>3. edit'[e].at = "done" /\ \A f \in Editors : f # e => edit'[f] = edit[f]
  BY OneMoves, DoneEditIsDone DEF Core, FedTypes
<1>4. ~video'.uri => InitialVis = "local_only"
  BY DEF EditsFit
<1> SUFFICES ASSUME ~history.tangled
             PROVE  /\ \A g, f \in Editors : InFlight(g)' /\ InFlight(f)' => g = f
                    /\ \A f \in Editors : EditFits(f)'
                    /\ ~history.lost => LastFits'
  BY <1>4 DEF EditsFit
<1>5. \A f \in Editors : f # e => edit[f].at \in {"new", "done"}
  BY Alone DEF InFlight
<1>6. ~history.lost => LastFits
  BY <1>5 DEF EditsFit, Publishing
<1>7. \A f \in Editors : EditFits(f)'
  BY <1>3, <1>5 DEF EditFits
<1> QED BY <1>2, <1>3, <1>5, <1>6, <1>7 DEF InFlight

LEMMA UpdateFits ==
  ASSUME Core, Core', EditsFit, NEW e \in Editors, EditUpdate(e)
  PROVE  EditsFit'
<1> DEFINE new == IF edit[e].new = None THEN video.vis ELSE edit[e].new
           eff == IF edit[e].new = None THEN edit[e].prev ELSE edit[e].new
           at == Publication(edit[e].prev = "public", eff = "public")
           l == history.lost \/ (at = "done" /\ "public" \in {video.vis, new})
<1>1. edit[e].at = "update" /\ UNCHANGED issued
  BY DEF EditUpdate
<1>2. CASE UNCHANGED <<video, history>> /\ edit' = [edit EXCEPT ![e] = DoneEdit]
  BY <1>1, <1>2, UpdateFailsFits
<1>3. CASE /\ video' = [video EXCEPT !.vis = new, !.ver = @ + 1]
           /\ edit' = [edit EXCEPT ![e] = [IdleEdit EXCEPT !.at = at]]
           /\ history' = [history EXCEPT !.lost = l]
  <2>1. VideoActs' = VideoActs /\ \A a \in VideoActs : issued'[a] = issued[a]
    BY <1>1, NoneIssued, SameVideoActs DEF Core, FedTypes
  <2>2. history'.tangled = history.tangled /\ history'.lost = l
    <3> HIDE DEF l
    <3> QED BY <1>3 DEF Core, FedTypes, HistoryOK, HistoryRecs
  <2>3. video'.vis = new /\ video'.uri = video.uri
    <3> HIDE DEF new
    <3> QED BY <1>3 DEF Core, FedTypes, VideoOK
  <2>4. ~video'.uri => InitialVis = "local_only"
    BY <2>3 DEF EditsFit
  <2> SUFFICES ASSUME ~history.tangled
               PROVE  /\ \A g, f \in Editors : InFlight(g)' /\ InFlight(f)' => g = f
                      /\ \A f \in Editors : EditFits(f)'
                      /\ (\A f \in Editors : ~Publishing(f)') /\ ~l => LastFits'
    BY <2>2, <2>4 DEF EditsFit
  <2>5. /\ \A f \in Editors : f # e => edit[f].at \in {"new", "done"}
        /\ edit[e].prev \in {video.vis, "local_only"}
    BY <1>1, Alone DEF InFlight, EditFits
  <2>6. ~history.lost => LastFits
    BY <1>1, <2>5 DEF EditsFit, Publishing
  <2>7. /\ new \in Visibilities /\ video.vis \in Visibilities
        /\ at \in {"Create", "Update", "Delete", "done"}
        /\ at \in {"Create", "Update"} => new = "public"
        /\ at = "Delete" => new = "local_only"
    <3>1. video.vis \in Visibilities /\ edit[e].new \in Visibilities \cup {None}
      BY DEF Core, FedTypes, VideoOK, EditOK, Visibilities
    <3> QED BY <2>5, <3>1, PublicationFits
  <2>8. edit'[e].at = at /\ \A f \in Editors : f # e => edit'[f].at \in {"new", "done"}
    <3> DEFINE x == [IdleEdit EXCEPT !.at = at]
    <3>1. x.at = at
      <4> HIDE DEF at
      <4> QED BY <2>7, DoneEditIsDone
    <3>2. edit' = [edit EXCEPT ![e] = x]
      BY <1>3
    <3> HIDE DEF x, at
    <3>3. edit'[e] = x /\ \A f \in Editors : f # e => edit'[f] = edit[f]
      BY <3>2, OneMoves DEF Core, FedTypes
    <3> QED BY <2>5, <3>1, <3>3
  <2> HIDE DEF new, eff, at
  <2>9. \A g, f \in Editors : InFlight(g)' /\ InFlight(f)' => g = f
    BY <2>8 DEF InFlight
  <2>10. \A f \in Editors : EditFits(f)'
    <3>1. EditFits(e)'
      BY <2>3, <2>7, <2>8 DEF EditFits
    <3>2. \A f \in Editors : f # e => EditFits(f)'
      BY <2>8 DEF EditFits
    <3> QED BY <3>1, <3>2
  <2>11. ASSUME \A f \in Editors : ~Publishing(f)', ~l PROVE LastFits'
    <3>1. at = "done"
      BY <2>7, <2>8, <2>11 DEF Publishing
    <3>2. ~history.lost /\ new = "local_only" /\ video.vis = "local_only"
      BY <2>7, <2>11, <3>1 DEF Visibilities
    <3> QED BY <2>1, <2>3, <2>6, <3>2 DEF LastFits, IsLast
  <2> QED BY <2>9, <2>10, <2>11
<1> QED BY <1>2, <1>3 DEF EditUpdate

\* What a task that starts to broadcast leaves behind, or one that does not get there.
LEMMA TaskFits ==
  ASSUME Core, Core', EditsFit, NEW e \in Editors, Publishing(e),
         video'.vis = video.vis, video.uri => video'.uri,
         edit'[e].at \in {"queue", "done"}, \A f \in Editors : f # e => edit'[f] = edit[f],
         history'.tangled = history.tangled,
         ~history.tangled /\ ~history'.lost => LastFits'
  PROVE  EditsFit'
<1>1. ~video'.uri => InitialVis = "local_only"
  BY DEF EditsFit
<1> SUFFICES ASSUME ~history.tangled
             PROVE  /\ \A g, f \in Editors : InFlight(g)' /\ InFlight(f)' => g = f
                    /\ \A f \in Editors : EditFits(f)'
  BY <1>1 DEF EditsFit
<1>2. \A f \in Editors : f # e => edit[f].at \in {"new", "done"}
  BY Alone DEF InFlight, Publishing
<1>3. \A f \in Editors : EditFits(f)'
  BY <1>2 DEF EditFits
<1> QED BY <1>2, <1>3 DEF InFlight

LEMMA PublishFailsFits ==
  ASSUME Core, Core', EditsFit, NEW e \in Editors, PublishFails(e)
  PROVE  EditsFit'
<1>1. Publishing(e)
  BY DEF PublishFails, Publishing
<1>2. video'.vis = video.vis /\ (video.uri => video'.uri)
  BY DEF PublishFails, Core, FedTypes, VideoOK
<1>3. edit'[e].at = "done" /\ \A f \in Editors : f # e => edit'[f] = edit[f]
  BY OneMoves, DoneEditIsDone DEF PublishFails, Core, FedTypes
<1>4. history'.tangled = history.tangled /\ history'.lost
  BY DEF PublishFails, Core, FedTypes, HistoryOK, HistoryRecs
<1> QED BY <1>1, <1>2, <1>3, <1>4, TaskFits

LEMMA PublishFits ==
  ASSUME Core, Core', EditsFit, NEW e \in Editors, Publish(e)
  PROVE  EditsFit'
<1>1. edit[e].at \in {"Create", "Update", "Delete"} /\ Publishing(e)
  BY DEF Publish, Publishing
<1>2. video'.vis = video.vis /\ video'.ver = video.ver /\ (video.uri => video'.uri)
  <2> DEFINE t == video.uri \/ edit[e].at = "Create"
  <2>1. video' = [video EXCEPT !.uri = t]
    BY DEF Publish
  <2> HIDE DEF t
  <2>2. video'.vis = video.vis /\ video'.ver = video.ver /\ video'.uri = t
    BY <2>1 DEF Core, FedTypes, VideoOK
  <2> QED BY <2>2 DEF t
<1>3. ~history.tangled => /\ edit[e].at \in {"Create", "Update"} => video.vis = "public"
                          /\ edit[e].at = "Delete" => video.vis = "local_only"
  BY <1>1, Alone DEF InFlight, EditFits
<1>4. CASE HasObject(edit[e].at)
  <2>1. edit'[e].at \in {"queue", "done"} /\ \A f \in Editors : f # e => edit'[f] = edit[f]
    <3>1. PICK todo : edit' = [edit EXCEPT ![e] = IF todo = <<>> THEN DoneEdit
                                    ELSE [IdleEdit EXCEPT !.at = "queue", !.act = NewAct,
                                                          !.todo = todo]]
      BY <1>4 DEF Publish
    <3> DEFINE x == IF todo = <<>> THEN DoneEdit
                    ELSE [IdleEdit EXCEPT !.at = "queue", !.act = NewAct, !.todo = todo]
    <3>2. x.at \in {"queue", "done"}
      BY DEF DoneEdit, IdleEdit
    <3>3. edit' = [edit EXCEPT ![e] = x]
      BY <3>1
    <3> HIDE DEF x
    <3>4. edit'[e] = x /\ \A f \in Editors : f # e => edit'[f] = edit[f]
      BY <3>3, OneMoves DEF Core, FedTypes
    <3> QED BY <3>2, <3>4
  <2>2. history'.tangled = history.tangled
    BY <1>4 DEF Publish, Core, FedTypes, HistoryOK, HistoryRecs
  <2>3. ASSUME ~history.tangled PROVE LastFits'
    <3>1. Issue(edit[e].at, Origin, video.ver)
      BY <1>4 DEF Publish
    <3>2. edit[e].at \in ActTypes /\ Origin \in Servers /\ video.ver \in Nat
      BY <1>1, ServersFact DEF ActTypes, Core, FedTypes, VideoOK
    <3>3. /\ Len(issued') \in Nat /\ NewAct = Len(issued') /\ NewAct \in 1 .. Len(issued')
          /\ issued'[NewAct] = [type |-> edit[e].at, by |-> Origin, obj |-> video.ver]
      <4>1. /\ Len(issued) \in Nat /\ Len(issued') = Len(issued) + 1 /\ NewAct = Len(issued')
            /\ issued'[NewAct] = [type |-> edit[e].at, by |-> Origin, obj |-> video.ver]
        BY <3>1, <3>2, IssueAppends DEF Core, FedTypes
      <4> HIDE DEF NewAct
      <4> QED BY <4>1
    <3> HIDE DEF NewAct
    <3>4. issued'[NewAct].type = edit[e].at /\ issued'[NewAct].obj = video.ver
      BY <3>3
    <3>5. NewAct \in VideoActs' /\ \A b \in VideoActs' : b <= NewAct
      BY <1>1, <3>3, <3>4 DEF VideoActs, IsVideoAct
    <3>6. \A a : IsLast(a, VideoActs') => a = NewAct
      <4>1. VideoActs' \subseteq Int
        BY <3>3 DEF VideoActs
      <4> QED BY <3>5, <4>1 DEF IsLast
    <3> QED BY <1>1, <1>2, <1>3, <2>3, <3>4, <3>5, <3>6 DEF LastFits
  <2> QED BY <1>1, <1>2, <2>1, <2>2, <2>3, TaskFits
<1>5. CASE ~HasObject(edit[e].at)
  <2> DEFINE l == \E a \in 1 .. Len(issued) : IsVideoAct(a)
  <2>1. /\ UNCHANGED issued /\ edit' = [edit EXCEPT ![e] = DoneEdit]
        /\ history' = [history EXCEPT !.lost = l]
    BY <1>5 DEF Publish
  <2>2. edit'[e].at = "done" /\ \A f \in Editors : f # e => edit'[f] = edit[f]
    BY <2>1, OneMoves, DoneEditIsDone DEF Core, FedTypes
  <2>3. history'.tangled = history.tangled /\ history'.lost = l
    <3> HIDE DEF l
    <3> QED BY <2>1 DEF Core, FedTypes, HistoryOK, HistoryRecs
  <2>4. ASSUME ~history.tangled, ~l PROVE LastFits'
    <3>1. edit[e].at = "Delete" /\ ~video.uri /\ video.vis = "local_only"
      BY <1>1, <1>3, <1>5, <2>4 DEF HasObject
    <3>2. InitialVis = "local_only"
      BY <3>1 DEF EditsFit
    <3>3. VideoActs' = {}
      BY <2>1, <2>4 DEF VideoActs, IsVideoAct
    <3> QED BY <1>2, <3>1, <3>2, <3>3 DEF LastFits, IsLast
  <2> HIDE DEF l
  <2> QED BY <1>1, <1>2, <2>2, <2>3, <2>4, TaskFits
<1> QED BY <1>4, <1>5

LEMMA BroadcastFits ==
  ASSUME Core, Core', EditsFit, NEW e \in Editors, Broadcast(e)
  PROVE  EditsFit'
<1>1. UNCHANGED <<video, issued, history>> /\ edit[e].at = "queue"
  BY DEF Broadcast
<1>2. VideoActs' = VideoActs /\ \A a \in VideoActs : issued'[a] = issued[a]
  BY <1>1, NoneIssued, SameVideoActs DEF Core, FedTypes
<1>3. LastFits => LastFits'
  BY <1>1, <1>2 DEF LastFits, IsLast
<1>4. edit'[e].at \in {"queue", "done"} /\ \A f \in Editors : f # e => edit'[f] = edit[f]
  <2>1. PICK x : x.at \in {"queue", "done"} /\ edit' = [edit EXCEPT ![e] = x]
    <3>1. DoneEdit.at = "done"
      BY DoneEditIsDone
    <3>2. [edit[e] EXCEPT !.todo = Tail(edit[e].todo)].at = "queue"
      BY <1>1 DEF Core, FedTypes, EditOK
    <3>3. \/ edit' = [edit EXCEPT ![e] = DoneEdit]
          \/ edit' = [edit EXCEPT ![e] = [edit[e] EXCEPT !.todo = Tail(edit[e].todo)]]
      BY DEF Broadcast, Core, FedTypes, EditOK
    <3> DEFINE y == [edit[e] EXCEPT !.todo = Tail(edit[e].todo)]
    <3> HIDE DEF y
    <3>4. edit' = [edit EXCEPT ![e] = DoneEdit] \/ edit' = [edit EXCEPT ![e] = y]
      BY <3>3 DEF y
    <3>5. y.at = "queue"
      BY <3>2 DEF y
    <3> QED BY <3>1, <3>4, <3>5
  <2>2. edit'[e] = x /\ \A f \in Editors : f # e => edit'[f] = edit[f]
    BY <2>1, OneMoves DEF Core, FedTypes
  <2> QED BY <2>1, <2>2
<1>5. ~video'.uri => InitialVis = "local_only"
  BY <1>1 DEF EditsFit
<1> SUFFICES ASSUME ~history.tangled
             PROVE  /\ \A g, f \in Editors : InFlight(g)' /\ InFlight(f)' => g = f
                    /\ \A f \in Editors : EditFits(f)'
                    /\ ~history.lost => LastFits'
  BY <1>1, <1>5 DEF EditsFit
<1>6. \A f \in Editors : f # e => edit[f].at \in {"new", "done"}
  BY <1>1, Alone DEF InFlight
<1>7. ~history.lost => LastFits
  BY <1>1, <1>6 DEF EditsFit, Publishing
<1>8. \A f \in Editors : EditFits(f)'
  BY <1>4, <1>6 DEF EditFits
<1> QED BY <1>3, <1>4, <1>6, <1>7, <1>8 DEF InFlight

LEMMA FitStep ==
  ASSUME Core, EditsFit, [Next]_vars
  PROVE  EditsFit'
<1>1. Core'
  BY CoreStep
<1>2. CASE EditorMoves
  BY <1>1, <1>2, ReadFits, UpdateFits, PublishFits, PublishFailsFits, BroadcastFits
     DEF EditorMoves, EditorStep
<1>3. CASE ~EditorMoves /\ ~RestartOrigin
  <2>1. /\ UNCHANGED <<video, edit>> /\ NoPublication /\ history'.tangled = history.tangled
        /\ history'.lost = history.lost
    BY <1>3, EditorsSame
  <2> QED BY <1>1, <2>1, EditsStay
<1> QED BY <1>1, <1>2, <1>3, RestartFits

LEMMA InitFits == Init => EditsFit
<1> SUFFICES ASSUME Init PROVE EditsFit
  OBVIOUS
<1>1. /\ video.vis = InitialVis /\ video.ver = 0 /\ (~video.uri => InitialVis = "local_only")
      /\ \A e \in Editors : edit[e].at = "new"
      /\ Len(issued) = 0
  BY FederationAssumption DEF Init, IdleEdit
<1>2. VideoActs = {}
  BY <1>1 DEF VideoActs
<1>3. LastFits
  BY <1>1, <1>2 DEF LastFits, IsLast
<1> QED BY <1>1, <1>3 DEF EditsFit, EditFits, InFlight

-----------------------------------------------------------------------------
\* What is published but not handled has not been seen.
LEMMA SeenSame ==
  ASSUME Core, Core', AppliedOK, IssuedGrows, NEW p \in Peers,
         \A a \in VideoActs' : history'.applied[p][a] = history.applied[p][a]
  PROVE  /\ SeenActs(p)' = SeenActs(p)
         /\ \A a \in SeenActs(p) : issued'[a] = issued[a]
<1>1. /\ Len(issued) \in Nat /\ Len(issued') \in Nat /\ Len(issued) <= Len(issued')
      /\ 1 .. Len(issued) \subseteq Acts /\ 1 .. Len(issued') \subseteq Acts
      /\ \A a \in 1 .. Len(issued) : issued'[a] = issued[a]
  <2>1. IssuedOK /\ IssuedOK'
    BY DEF Core, FedTypes
  <2>2. Len(issued') \in Nat /\ 1 .. Len(issued') \subseteq Acts
    BY <2>1, NumbersFact DEF IssuedOK
  <2> QED BY <2>1, <2>2, LengthIsNat DEF IssuedGrows
<1>2. \A a \in 1 .. Len(issued) : a \in VideoActs' <=> a \in VideoActs
  BY <1>1 DEF VideoActs, IsVideoAct
<1>3. \A a \in 1 .. Len(issued') : a \notin 1 .. Len(issued) => history.applied[p][a] = 0
  <2> SUFFICES ASSUME NEW a \in 1 .. Len(issued'), a \notin 1 .. Len(issued)
               PROVE  history.applied[p][a] = 0
    OBVIOUS
  <2>1. a \in Acts /\ a > Len(issued)
    BY <1>1
  <2>2. p \in Servers /\ table[p][a] = "absent"
    BY <2>1, ServersFact DEF Core, ActsOK
  <2> QED BY <2>1, <2>2 DEF AppliedOK
<1>4. \A a : a \in VideoActs => a \in 1 .. Len(issued)
  BY DEF VideoActs
<1>5. \A a : a \in VideoActs' => a \in 1 .. Len(issued')
  BY DEF VideoActs
<1>6. \A a : a \in SeenActs(p)' => a \in SeenActs(p)
  BY <1>2, <1>3, <1>5 DEF SeenActs
<1>7. \A a : a \in SeenActs(p) => a \in SeenActs(p)'
  BY <1>2, <1>4 DEF SeenActs
<1>8. \A a \in SeenActs(p) : a \in 1 .. Len(issued)
  BY <1>4 DEF SeenActs
<1> QED BY <1>1, <1>6, <1>7, <1>8

\* Moderation: a peer never purged has the catalogue it had.
LEMMA NeverPurged ==
  ASSUME Core, Moderates, NEW p \in Peers, history'.purged[p] = "never"
  PROVE  history.purged[p] = "never" /\ catalog'[p] = catalog[p]
<1>1. HistoryOK /\ CatalogOK
  BY DEF Core, FedTypes
<1>2. ASSUME NEW s, NEW d, SetDomainRule(s, d)
      PROVE  UNCHANGED catalog /\ history'.purged = history.purged
  <2>1. UNCHANGED history \/ \E A : history' = [history EXCEPT !.admitted[s] = A]
    BY <1>2 DEF SetDomainRule
  <2> QED BY <1>1, <1>2, <2>1 DEF HistoryOK, HistoryRecs, SetDomainRule
<1>3. ASSUME NEW s, NEW d, DeleteDomainRule(s, d)
      PROVE  /\ UNCHANGED catalog
             /\ history'.purged[p] = history.purged[p] \/ history'.purged[p] = "free"
  <2>1. UNCHANGED history \/ history' = [history EXCEPT !.purged[s] = "free"]
    BY <1>3 DEF DeleteDomainRule
  <2> QED BY <1>1, <1>3, <2>1 DEF HistoryOK, HistoryRecs, DeleteDomainRule
<1>4. ASSUME NEW q \in Peers, PurgeRemoteVideos(q)
      PROVE  q # p /\ history'.purged[p] = history.purged[p] /\ catalog'[p] = catalog[p]
  <2> DEFINE x == IF <<q, Origin>> \in rules THEN "ruled" ELSE "free"
  <2>1. /\ catalog' = [catalog EXCEPT ![q].st = "deleted"]
        /\ history' = [history EXCEPT !.purged[q] = x]
    BY <1>4 DEF PurgeRemoteVideos
  <2>2. x # "never"
    OBVIOUS
  <2> HIDE DEF x
  <2>3. /\ history'.purged[q] = x
        /\ \A z \in Peers : z # q => history'.purged[z] = history.purged[z] /\ catalog'[z] = catalog[z]
    BY <1>1, <2>1 DEF HistoryOK, HistoryRecs, CatalogOK
  <2> QED BY <2>2, <2>3
<1> QED BY <1>2, <1>3, <1>4 DEF Moderates

\* What applying an activity leaves in the catalogues.
LEMMA EffectShows ==
  ASSUME Core, NEW s \in Servers, NEW a \in Acts, handler[s][a] = "apply", Effect(s, a),
         UNCHANGED issued
  PROVE  /\ a \in 1 .. Len(issued)
         /\ \A p \in Peers : p # s => catalog'[p] = catalog[p]
         /\ IsVideoAct(a) => issued[a].by = Origin /\ s \in Peers /\ Shows(s, a)'
         /\ ~IsVideoAct(a) => UNCHANGED catalog
<1>1. Routed(s, a) /\ a \in 1 .. Len(issued)
  BY HandlerFacts DEF Routed
<1>2. CatalogOK /\ Origin \notin Peers
  BY ServersFact DEF Core, FedTypes
<1>3. CASE ~IsVideoAct(a)
  <2>1. UNCHANGED catalog
    BY <1>3 DEF Effect, IsVideoAct, FollowAnswered
  <2> QED BY <1>1, <1>3, <2>1
<1>4. CASE IsVideoAct(a)
  <2>1. issued[a].by = Origin
    BY <1>1, <1>4 DEF IsVideoAct, Core, ActsOK
  <2>2. s \in Peers
    BY <1>1, <1>2, <2>1 DEF Routed, Servers
  <2>3. CASE issued[a].type \in {"Create", "Update"}
    <3>1. catalog' = [catalog EXCEPT ![s] = [st |-> "available", ver |-> issued[a].obj, act |-> a]]
      BY <2>3 DEF Effect, UpsertVideo
    <3>2. catalog'[s].st = "available" /\ catalog'[s].ver = issued[a].obj
          /\ \A p \in Peers : p # s => catalog'[p] = catalog[p]
      BY <1>2, <2>2, <3>1 DEF CatalogOK
    <3> QED BY <1>1, <1>4, <2>1, <2>2, <2>3, <3>2 DEF Shows
  <2>4. CASE issued[a].type = "Delete"
    <3>1. PICK st \in {"none", "deleted"} : catalog' = [catalog EXCEPT ![s].st = st]
      BY <2>4 DEF Effect, DeleteVideo
    <3>2. catalog'[s].st = st /\ \A p \in Peers : p # s => catalog'[p] = catalog[p]
      BY <1>2, <2>2, <3>1 DEF CatalogOK
    <3> QED BY <1>1, <1>4, <2>1, <2>2, <2>4, <3>1, <3>2 DEF Shows
  <2> QED BY <1>4, <2>3, <2>4 DEF IsVideoAct
<1> QED BY <1>3, <1>4

\* A step that applies nothing at p and leaves its catalogue keeps it in agreement.
LEMMA CatalogStays ==
  ASSUME Core, Core', AppliedOK, IssuedGrows, NEW p \in Peers, CatalogFitsAt(p),
         \A a \in VideoActs' : history'.applied[p][a] = history.applied[p][a],
         catalog'[p] = catalog[p]
  PROVE  CatalogFitsAt(p)'
<1>1. SeenActs(p)' = SeenActs(p) /\ \A a \in SeenActs(p) : issued'[a] = issued[a]
  BY SeenSame
<1>2. \A a : IsLast(a, SeenActs(p)) => a \in SeenActs(p)
  BY DEF IsLast
<1>3. \A a : IsLast(a, SeenActs(p))' <=> IsLast(a, SeenActs(p))
  BY <1>1 DEF IsLast
<1> QED BY <1>1, <1>2, <1>3 DEF CatalogFitsAt, Shows

LEMMA HandleFits ==
  ASSUME Core, Core', AppliedOK, CatalogFits, NEW s \in Servers, NEW a \in Acts,
         HandleActivity(s, a)
  PROVE  CatalogFits'
<1>1. UNCHANGED issued /\ handler[s][a] = "apply" /\ history'.purged = history.purged
  BY HandleView DEF HandleActivity
<1>2. HistoryOK /\ IssuedGrows
  BY <1>1, SameGrows DEF Core, FedTypes
<1>3. CASE /\ UNCHANGED catalog
           /\ history'.applied = history.applied /\ history'.overtaken = history.overtaken
  <2> SUFFICES ASSUME NEW p \in Peers, p \notin history.overtaken, history.purged[p] = "never"
               PROVE  CatalogFitsAt(p)'
    BY <1>1, <1>3 DEF CatalogFits, CatalogFitsAt
  <2>1. CatalogFitsAt(p)
    BY DEF CatalogFits, CatalogFitsAt
  <2> QED BY <1>2, <1>3, <2>1, CatalogStays
<1>4. CASE /\ Effect(s, a)
           /\ history'.applied = [history.applied EXCEPT ![s][a] = @ + 1]
           /\ history'.overtaken = IF Overtakes(s, a) THEN history.overtaken \cup {s}
                                                      ELSE history.overtaken
  <2>1. /\ history'.applied[s][a] = history.applied[s][a] + 1 /\ history.applied[s][a] \in Nat
        /\ \A z \in Servers, b \in Acts : <<z, b>> # <<s, a>> =>
              history'.applied[z][b] = history.applied[z][b]
    <3>1. history.applied \in [Servers -> [Acts -> Nat]]
      BY <1>2 DEF HistoryOK, HistoryRecs
    <3> QED BY <1>4, <3>1
  <2>2. /\ a \in 1 .. Len(issued)
        /\ \A p \in Peers : p # s => catalog'[p] = catalog[p]
        /\ IsVideoAct(a) => issued[a].by = Origin /\ s \in Peers /\ Shows(s, a)'
        /\ ~IsVideoAct(a) => UNCHANGED catalog
    BY <1>1, <1>4, EffectShows
  <2>3. VideoActs' = VideoActs /\ VideoActs \subseteq Acts /\ VideoActs \subseteq 1 .. Len(issued)
        /\ Len(issued) \in Nat
    BY <1>1, VideoActsAre DEF VideoActs, IsVideoAct, Core, FedTypes
  <2> SUFFICES ASSUME NEW p \in Peers, p \notin history'.overtaken, history'.purged[p] = "never"
               PROVE  CatalogFitsAt(p)'
    BY DEF CatalogFits, CatalogFitsAt
  <2>4. p \in Servers /\ p \notin history.overtaken /\ history.purged[p] = "never"
    BY <1>1, <1>4, ServersFact
  <2>5. CatalogFitsAt(p)
    BY <2>4 DEF CatalogFits, CatalogFitsAt
  <2>6. CASE p # s \/ ~IsVideoAct(a)
    <3>1. catalog'[p] = catalog[p]
      BY <2>2, <2>6
    <3>2. a \in VideoActs => IsVideoAct(a)
      BY DEF VideoActs
    <3>3. \A b \in VideoActs' : history'.applied[p][b] = history.applied[p][b]
      BY <2>1, <2>3, <2>4, <2>6, <3>2
    <3> QED BY <1>2, <2>5, <3>1, <3>3, CatalogStays
  <2>7. CASE p = s /\ IsVideoAct(a)
    <3>1. ~Overtakes(s, a)
      BY <1>4, <2>7
    <3>2. \A b \in VideoActs : history.applied[s][b] > 0 => ~(b > a)
      <4> SUFFICES ASSUME NEW b \in VideoActs, history.applied[s][b] > 0, b > a PROVE FALSE
        OBVIOUS
      <4>1. b \in 1 .. Len(issued) /\ IsVideoAct(b)
        BY DEF VideoActs
      <4>2. issued[b].by = Origin
        BY <4>1 DEF IsVideoAct, Core, ActsOK
      <4> QED BY <2>2, <2>7, <3>1, <4>1, <4>2 DEF Overtakes
    <3>3. a \in VideoActs
      BY <2>2, <2>7 DEF VideoActs
    <3>4. a \in SeenActs(p)'
      BY <2>1, <2>3, <2>7, <3>3 DEF SeenActs
    <3>5. \A b \in SeenActs(p)' : b = a \/ (b \in VideoActs /\ history.applied[s][b] > 0)
      BY <2>1, <2>3, <2>7 DEF SeenActs
    <3>6. \A b \in SeenActs(p)' : b <= a
      <4>1. \A b \in VideoActs : b \in Nat
        BY <2>3
      <4> QED BY <3>2, <3>3, <3>5, <4>1
    <3>7. \A b : IsLast(b, SeenActs(p)') => b = a
      <4>1. \A b \in SeenActs(p)' : b \in Nat
        BY <2>3 DEF SeenActs
      <4> QED BY <3>4, <3>6, <4>1 DEF IsLast
    <3> QED BY <2>2, <2>7, <3>4, <3>7 DEF CatalogFitsAt
  <2> QED BY <2>6, <2>7
<1> QED BY <1>3, <1>4, HandleEffect

LEMMA CatalogStep ==
  ASSUME Core, AppliedOK, CatalogFits, [Next]_vars
  PROVE  CatalogFits'
<1>1. Core' /\ IssuedGrows
  BY CoreStep DEF Grows
<1>2. CASE \A s \in Servers, a \in Acts : ~HandleActivity(s, a)
  <2>1. history'.applied = history.applied /\ history'.overtaken = history.overtaken
    BY <1>2, AppliedSame
  <2> SUFFICES ASSUME NEW p \in Peers, p \notin history'.overtaken, history'.purged[p] = "never"
               PROVE  CatalogFitsAt(p)'
    BY DEF CatalogFits, CatalogFitsAt
  <2>2. history.purged[p] = "never" /\ catalog'[p] = catalog[p]
    <3>1. CASE Moderates
      BY <3>1, NeverPurged
    <3>2. CASE ~Moderates
      <4>1. UNCHANGED catalog /\ history'.purged = history.purged
        BY <1>2, <3>2, RulesSame
      <4> QED BY <4>1
    <3> QED BY <3>1, <3>2
  <2>3. CatalogFitsAt(p)
    BY <2>1, <2>2 DEF CatalogFits, CatalogFitsAt
  <2> QED BY <1>1, <2>1, <2>2, <2>3, CatalogStays
<1> QED BY <1>1, <1>2, HandleFits

-----------------------------------------------------------------------------
\* A row of a peer becomes processed by its task alone.
LEMMA ProcessedView ==
  ASSUME Core, [Next]_vars, \A s \in Servers, a \in Acts : ~HandleActivity(s, a)
  PROVE  \A p \in Peers, a \in Acts : table'[p][a] = "processed" => table[p][a] = "processed"
<1> DEFINE Goal == \A p \in Peers, a \in Acts : table'[p][a] = "processed" => table[p][a] = "processed"
<1>1. TableOK /\ Origin \notin Peers /\ Origin \in Servers /\ Peers \subseteq Servers
  BY ServersFact DEF Core, FedTypes
<1>2. UNCHANGED table => Goal
  OBVIOUS
<1>3. ASSUME NEW a, NEW st, table' = [table EXCEPT ![Origin][a] = st] PROVE Goal
  BY <1>1, <1>3 DEF TableOK
<1>4. ASSUME NEW s, NEW a, table' = [table EXCEPT ![s][a] = "pending"] PROVE Goal
  BY <1>1, <1>4 DEF TableOK
<1>5. ASSUME NEW e \in Editors, Broadcast(e) PROVE Goal
  <2> HIDE DEF Goal
  <2> QED BY <1>2, <1>3, <1>5 DEF Broadcast, QueueOutbound, QueueOutboundFails
<1>6. ASSUME NEW w \in Workers, MarkDelivered(w) \/ MarkAttempt(w) PROVE Goal
  <2>1. \/ UNCHANGED table
        \/ \E st : table' = [table EXCEPT ![Origin][worker[w].job.id[1]] = st]
    BY <1>6 DEF MarkDelivered, MarkAttempt
  <2> HIDE DEF Goal
  <2> QED BY <1>2, <1>3, <2>1
<1>7. ASSUME NEW z \in Slots, InboxStore(z) PROVE Goal
  <2>1. \/ UNCHANGED table
        \/ \E s, a : table' = [table EXCEPT ![s][a] = "pending"]
    BY <1>7 DEF InboxStore
  <2> HIDE DEF Goal
  <2> QED BY <1>2, <1>4, <2>1
<1>8. ASSUME NEW b \in Acts, QueueAccept(b) PROVE Goal
  <2>1. \/ table' = [table EXCEPT ![Origin][NewAct] = "pending"]
        \/ \E stored \in {"absent", "pending"}, mark \in {"failed", "processed"} :
              table' = [table EXCEPT ![Origin][b] = mark, ![Origin][NewAct] = stored]
    BY <1>8 DEF QueueAccept, QueueOutbound
  <2>2. ASSUME NEW stored, NEW mark,
               table' = [table EXCEPT ![Origin][b] = mark, ![Origin][NewAct] = stored]
        PROVE  Goal
    BY <1>1, <2>2 DEF TableOK
  <2> HIDE DEF Goal
  <2> QED BY <1>3, <2>1, <2>2
<1>9. ASSUME NEW p \in Peers, RejectFollow(p) PROVE Goal
  <2> HIDE DEF Goal
  <2> QED BY <1>2, <1>3, <1>9 DEF RejectFollow, QueueOutbound, QueueOutboundFails
<1>10. ASSUME SystemNext PROVE Goal
  <2> HIDE DEF Goal
  <2> QED BY <1>2, <1>5, <1>6, <1>7, <1>8, <1>10
             DEF SystemNext, EditorStep, EditUpdate, Publish, PublishFails, WorkerStep, SelectDueJobs,
                 SkipBlocked, DeliverJob, InboxStep, InboxCheck
<1>11. ASSUME Environment PROVE Goal
  <2> HIDE DEF Goal
  <2> QED BY <1>2, <1>9, <1>11
             DEF Environment, EditRead, TimeOut, PeerSend, PurgeRemoteVideos, PeerRepost, SetDomainRule,
                 DeleteDomainRule, RetryDeliveryJob, RestartOrigin, RestartPeer
<1> QED BY <1>2, <1>10, <1>11 DEF Next, vars

LEMMA ProcessedStep ==
  ASSUME Core, ProcessedOK, [Next]_vars
  PROVE  ProcessedOK'
<1> SUFFICES ASSUME NEW p \in Peers, NEW a \in Acts, table'[p][a] = "processed"
             PROVE  history'.applied[p][a] > 0
  BY DEF ProcessedOK
<1>1. p \in Servers /\ HistoryOK /\ TableOK /\ history.applied[p][a] \in Nat
  BY ServersFact DEF Core, FedTypes, HistoryOK, HistoryRecs
<1>2. CASE \A s \in Servers, b \in Acts : ~HandleActivity(s, b)
  <2>1. table[p][a] = "processed" /\ history'.applied = history.applied
    BY <1>2, ProcessedView, AppliedSame
  <2> QED BY <2>1 DEF ProcessedOK
<1>3. ASSUME NEW s \in Servers, NEW b \in Acts, HandleActivity(s, b), ~(s = p /\ b = a)
      PROVE  history'.applied[p][a] > 0
  <2>1. table'[p][a] = table[p][a] /\ history'.applied[p][a] = history.applied[p][a]
    BY <1>1, <1>3, HandleElsewhere
  <2> QED BY <2>1 DEF ProcessedOK
<1>4. CASE HandleActivity(p, a)
  <2>1. CASE history'.applied = [history.applied EXCEPT ![p][a] = @ + 1]
    <3>1. history'.applied[p][a] = history.applied[p][a] + 1
      BY <1>1, <2>1 DEF HistoryOK, HistoryRecs
    <3> QED BY <1>1, <3>1
  <2>2. CASE table' = [table EXCEPT ![p][a] = "failed"]
    BY <1>1, <2>2 DEF TableOK
  <2>3. CASE UNCHANGED table /\ history'.applied = history.applied
    BY <2>3 DEF ProcessedOK
  <2> QED BY <1>1, <1>4, <2>1, <2>2, <2>3, HandleEffect DEF MarkActivity
<1> QED BY <1>1, <1>2, <1>3, <1>4

LEMMA FitsConverge ==
  ASSUME Core, EditsFit, CatalogFits, ProcessedOK
  PROVE  CatalogConverges
<1> SUFFICES ASSUME NEW p \in Peers, Quiet(p), ~history.tangled, ~history.lost,
                    p \notin history.overtaken, history.purged[p] = "never"
             PROVE  /\ catalog[p].st = "available" <=> video.vis = "public"
                    /\ catalog[p].st = "available" => catalog[p].ver = video.ver
  BY DEF CatalogConverges
<1>1. LastFits
  BY DEF Quiet, EditsFit, Publishing
<1>2. SeenActs(p) = VideoActs
  <2>1. \A a \in VideoActs : a \in Acts /\ table[p][a] = "processed"
    BY VideoActsAre DEF Quiet, VideoActs, Core, FedTypes
  <2> QED BY <2>1 DEF ProcessedOK, SeenActs
<1>3. CASE VideoActs = {}
  <2>1. p \in Followers \/ InitialVis = "local_only"
    BY <1>3 DEF Quiet, VideoActs
  <2> QED BY <1>1, <1>2, <1>3, <2>1 DEF LastFits, CatalogFits, CatalogFitsAt
<1>4. CASE VideoActs # {}
  <2>1. Len(issued) \in Nat /\ VideoActs \subseteq 1 .. Len(issued)
    BY VideoActsAre DEF Core, FedTypes
  <2>2. PICK a \in VideoActs : \A b \in VideoActs : b <= a
    BY <1>4, <2>1, LastExists
  <2>3. IsLast(a, VideoActs)
    BY <2>2 DEF IsLast
  <2>4. Shows(p, a)
    BY <1>2, <2>3 DEF CatalogFits, CatalogFitsAt
  <2>5. IF issued[a].type = "Delete" THEN video.vis = "local_only"
        ELSE video.vis = "public" /\ video.ver = issued[a].obj
    BY <1>1, <2>3 DEF LastFits
  <2> QED BY <2>4, <2>5 DEF Shows
<1> QED BY <1>3, <1>4

LEMMA InitCatalog == Init => CatalogFits /\ ProcessedOK
<1> SUFFICES ASSUME Init PROVE CatalogFits /\ ProcessedOK
  OBVIOUS
<1>1. Len(issued) = 0 /\ video.uri = (InitialVis = "public")
  BY DEF Init
<1>2. \A p \in Peers : /\ catalog[p].ver = 0
                       /\ catalog[p].st = IF p \in Followers /\ video.uri THEN "available" ELSE "none"
  BY DEF Init
<1>3. \A p \in Peers : SeenActs(p) = {}
  BY <1>1 DEF SeenActs, VideoActs
<1>4. CatalogFits
  BY <1>1, <1>2, <1>3 DEF CatalogFits, CatalogFitsAt, IsLast
<1>5. \A p \in Peers, a \in Acts : table[p][a] = "absent"
  BY ServersFact DEF Init
<1>6. ProcessedOK
  BY <1>5 DEF ProcessedOK
<1> QED BY <1>4, <1>6

\* A peer that was sent and has handled every publication shows the video exactly when
\* it is public, and in its last version: with update_video's read of the visibility, the
\* task's second read of the video and the peer's upserts all steps of their own, only an
\* overlapping, interrupted or lost edit, an overtaken activity or a purge can break this.
THEOREM FederationCatalogConverges == Spec => []CatalogConverges
<1>1. Init => AppliedOK /\ EditsFit /\ CatalogFits /\ ProcessedOK
  <2>1. Init => AppliedOK
    BY DEF Init, AppliedOK
  <2> QED BY <2>1, InitFits, InitCatalog
<1>2. /\ Core /\ AppliedOK /\ EditsFit /\ CatalogFits /\ ProcessedOK /\ [Next]_vars
      => AppliedOK' /\ EditsFit' /\ CatalogFits' /\ ProcessedOK'
  BY AppliedStep, FitStep, CatalogStep, ProcessedStep
<1>3. Core /\ EditsFit /\ CatalogFits /\ ProcessedOK => CatalogConverges
  BY FitsConverge
<1> QED BY <1>1, <1>2, <1>3, CoreInvariant, PTL DEF Spec
=============================================================================
