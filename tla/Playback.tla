------------------------------ MODULE Playback ------------------------------
(***************************************************************************)
(* Playback of one video.  request_play checks the login and the access,   *)
(* cleans up expired sessions, makes a directory, inserts a row, spawns    *)
(* ffmpeg and polls for the playlist; the ffmpeg task, the handler, the    *)
(* cleanup task, the cleanup at the start of every other request and       *)
(* serve_hls all write the row and remove the directory, each by itself.   *)
(*                                                                         *)
(* The row's TTL is an hour and the handler gives up after thirty seconds: *)
(* rows expire once their handler has ended, ffmpeg may still be at work.  *)
(* Aborting the task kills ffmpeg at once, but not a statement the task    *)
(* has already sent.  serve_hls asks for any file of the session; unsafe   *)
(* paths, refused before any state is read, are left out, and so is the    *)
(* federated catalog's refusal of remote videos.                           *)
(***************************************************************************)
EXTENDS Accounts

CONSTANTS
    Plays,      \* bound: playback_sessions
    Owner,      \* of the video
    Entitled    \* users in the allowlist or with a purchase, initially

ASSUME PlaybackAssumption ==
    /\ Owner \in Users /\ Entitled \subseteq Users
    /\ Plays \cap {None, "task"} = {}

VARIABLES
    play,       \* each request_play, its row, its directory and its ffmpeg task
    cleaner,    \* cleanup_expired_sessions: by the task, and in each request
    serving,    \* serve_hls
    free,       \* the video costs nothing
    entitled,   \* users in the allowlist or with a purchase
    served,     \* history: who was handed files of each session
    lost,       \* history: sessions whose directory was left without a row
    overtaken   \* history: sessions set 'ready' after ffmpeg had set them to 'error', or
                \* 'completed' after their handler had given up

playbackVars == <<play, cleaner, serving, free, entitled, served, lost, overtaken>>
vars == <<accountVars, playbackVars, used>>

NoPlay == [at |-> "new", user |-> None, granted |-> FALSE, row |-> "absent",
           expired |-> FALSE, dir |-> "none", ffmpeg |-> "none", late |-> "none",
           result |-> "none"]
NotCleaning == [todo |-> {}, removed |-> None]
NotServing == [at |-> "idle", user |-> None, play |-> None]
Cleaners == Plays \cup {"task"}

\* user_has_view_access
HasAccess(u) == free \/ u = Owner \/ account[u].admin \/ u \in entitled

ExpiredRows == {p \in Plays : play[p].row # "absent" /\ play[p].expired}

\* An UPDATE of a row that is gone does nothing.
SetRow(p, status) == IF play[p].row = "absent" THEN "absent" ELSE status

\* Directories that no row names.
Unnamed(p) == play[p].row = "absent" /\ play[p].dir # "none"
-----------------------------------------------------------------------------
(* request_play *)

\* Faulty variant: sessions that are still starting are not selected.
SelectExpiredFinished == {p \in ExpiredRows : play[p].row # "starting"}

\* The SELECT of cleanup_expired_sessions.
SelectExpired == ExpiredRows

\* A bound without loss: session ids are taken in a fixed order.
NextPlay == CHOOSE p \in Plays : play[p].at = "new"

\* The login, the access, the video and the cleanup's SELECT are read one after another:
\* one step.  A SELECT that fails is only logged.
PlayBegin(p, s) ==
    /\ play[p].at = "new" /\ p = NextPlay
    /\ CurrentUser(s) # None
    /\ Event
    /\ LET granted == HasAccess(CurrentUser(s))
       IN  /\ play' = [play EXCEPT ![p].at = IF granted THEN "mkdir" ELSE "done",
                                   ![p].user = CurrentUser(s), ![p].granted = granted]
           /\ cleaner' = IF granted THEN [cleaner EXCEPT ![p].todo = SelectExpired]
                         ELSE cleaner
    /\ UNCHANGED <<accountVars, serving, free, entitled, served, lost, overtaken>>

\* After its cleanup: create_dir_all and the watermark's file.
PlayMkdir(p) ==
    /\ play[p].at = "mkdir" /\ cleaner[p] = NotCleaning
    /\ \/ /\ play' = [play EXCEPT ![p].at = "insert", ![p].dir = "empty"]
          /\ UNCHANGED used
       \/ /\ Failed
          /\ \/ play' = [play EXCEPT ![p].at = "done"]
             \/ play' = [play EXCEPT ![p].at = "remove", ![p].dir = "empty"]
    /\ UNCHANGED <<accountVars, cleaner, serving, free, entitled, served, lost, overtaken>>

\* INSERT 'starting'; resolve_input_path, which may find nothing; spawn.
PlayInsert(p) ==
    /\ play[p].at = "insert"
    /\ \/ /\ play' = [play EXCEPT ![p].at = "poll", ![p].row = "starting",
                                  ![p].ffmpeg = "running"]
          /\ UNCHANGED used
       \/ /\ play' = [play EXCEPT ![p].at = "fail", ![p].row = "starting"]
          /\ UNCHANGED used
       \/ /\ Failed
          /\ play' = [play EXCEPT ![p].at = "remove"]
    /\ UNCHANGED <<accountVars, cleaner, serving, free, entitled, served, lost, overtaken>>

PollSees(p) ==
    /\ play[p].at = "poll" /\ play[p].dir = "playlist"
    /\ play' = [play EXCEPT ![p].at = "seen"]
    /\ UNCHANGED <<accountVars, cleaner, serving, free, entitled, served, lost, overtaken,
                   used>>

\* What is left of a session whose task abort() has ended: ffmpeg may have finished, and
\* its status be on the way to the database; a removal goes on.
Aborted(x) ==
    LET gone == [x EXCEPT !.at = "fail", !.ffmpeg = "none", !.result = "none"] IN
    IF x.ffmpeg = "running" /\ x.dir # "none"
      THEN {[gone EXCEPT !.late = status] : status \in {"none", "completed", "error"}}
      ELSE {gone} \cup {[gone EXCEPT !.dir = "none"] : f \in {x.ffmpeg} \cap {"failed"}}

\* Set 'ready', whatever the status is by now, and answer; or abort the task.
PollUpdate(p) ==
    /\ play[p].at = "seen"
    /\ \/ /\ play' = [play EXCEPT ![p].at = "done", ![p].row = SetRow(p, "ready")]
          /\ overtaken' = IF play[p].row = "error" THEN overtaken \cup {p} ELSE overtaken
          /\ UNCHANGED used
       \/ /\ Failed
          /\ \E y \in Aborted(play[p]) : play' = [play EXCEPT ![p] = y]
          /\ UNCHANGED overtaken
    /\ UNCHANGED <<accountVars, cleaner, serving, free, entitled, served, lost>>

\* The task's result arrives: its error, an end without a playlist, or none at all.
PollResult(p) ==
    /\ play[p].at = "poll"
    /\ \/ /\ play[p].result = "error"
          /\ play' = [play EXCEPT ![p].at = "done", ![p].result = "none"]
       \/ /\ \/ play[p].result = "ok" /\ play[p].dir # "playlist"
             \/ play[p].result = "closed"
          /\ play' = [play EXCEPT ![p].at = "fail", ![p].result = "none"]
    /\ UNCHANGED <<accountVars, cleaner, serving, free, entitled, served, lost, overtaken,
                   used>>

\* Thirty seconds without a playlist: the task is aborted.
PollTimeout(p) ==
    /\ play[p].at = "poll"
    /\ \E y \in Aborted(play[p]) : play' = [play EXCEPT ![p] = y]
    /\ UNCHANGED <<accountVars, cleaner, serving, free, entitled, served, lost, overtaken,
                   used>>

\* mark_session_failed, whose own failure is ignored,
PlayFail(p) ==
    /\ play[p].at = "fail"
    /\ \/ /\ play' = [play EXCEPT ![p].at = "remove", ![p].row = SetRow(p, "error")]
          /\ UNCHANGED used
       \/ /\ Failed
          /\ play' = [play EXCEPT ![p].at = "remove"]
    /\ UNCHANGED <<accountVars, cleaner, serving, free, entitled, served, lost, overtaken>>

\* and remove_dir_all, the same.
PlayRemove(p) ==
    /\ play[p].at = "remove"
    /\ \/ /\ play' = [play EXCEPT ![p].at = "done", ![p].dir = "none"]
          /\ UNCHANGED <<lost, used>>
       \/ /\ Failed
          /\ play' = [play EXCEPT ![p].at = "done"]
          /\ lost' = IF Unnamed(p) THEN lost \cup {p} ELSE lost
    /\ UNCHANGED <<accountVars, cleaner, serving, free, entitled, served, overtaken>>

InFlight == {"mkdir", "insert", "poll", "seen", "fail", "remove"}

\* The client disconnects; the spawned task goes on.
PlayDrop(p) ==
    /\ play[p].at \in InFlight
    /\ Event
    /\ play' = [play EXCEPT ![p].at = "dropped", ![p].result = "none"]
    /\ cleaner' = [cleaner EXCEPT ![p] = NotCleaning]
    /\ lost' = IF Unnamed(p) THEN lost \cup {p} ELSE lost
    /\ UNCHANGED <<accountVars, serving, free, entitled, served, overtaken>>

\* expires_at has passed.
Expire(p) ==
    /\ play[p].at \in {"done", "dropped"}
    /\ play[p].row # "absent" /\ ~play[p].expired
    /\ Event
    /\ play' = [play EXCEPT ![p].expired = TRUE]
    /\ UNCHANGED <<accountVars, cleaner, serving, free, entitled, served, lost, overtaken>>
-----------------------------------------------------------------------------
(* The ffmpeg task *)

FfmpegPlaylist(p) ==
    /\ play[p].ffmpeg = "running" /\ play[p].dir = "empty"
    /\ play' = [play EXCEPT ![p].dir = "playlist"]
    /\ UNCHANGED <<accountVars, cleaner, serving, free, entitled, served, lost, overtaken,
                   used>>

\* What the handler receives, if it still listens.
Sent(p, result) == IF play[p].at = "poll" THEN result ELSE "none"

\* ffmpeg ends well: 'completed', or a statement that fails and is ignored.
FfmpegDone(p) ==
    /\ play[p].ffmpeg = "running" /\ play[p].dir # "none"
    /\ \E status \in {"completed", play[p].row} :
          /\ play' = [play EXCEPT ![p].ffmpeg = "none", ![p].row = SetRow(p, status),
                                  ![p].result = Sent(p, "ok")]
          /\ IF status = "completed" THEN UNCHANGED used ELSE Failed
    /\ UNCHANGED <<accountVars, cleaner, serving, free, entitled, served, lost, overtaken>>

\* ffmpeg fails, before or after it has written a playlist: 'error',
FfmpegFails(p) ==
    /\ play[p].ffmpeg = "running"
    /\ \/ /\ play' = [play EXCEPT ![p].ffmpeg = "failed", ![p].row = SetRow(p, "error")]
          /\ UNCHANGED used
       \/ /\ Failed
          /\ play' = [play EXCEPT ![p].ffmpeg = "failed"]
    /\ UNCHANGED <<accountVars, cleaner, serving, free, entitled, served, lost, overtaken>>

\* then the directory goes and the handler is told.
FfmpegRemoves(p) ==
    /\ play[p].ffmpeg = "failed"
    /\ \/ /\ play' = [play EXCEPT ![p].ffmpeg = "none", ![p].dir = "none",
                                  ![p].result = Sent(p, "error")]
          /\ UNCHANGED <<lost, used>>
       \/ /\ Failed
          /\ play' = [play EXCEPT ![p].ffmpeg = "none", ![p].result = Sent(p, "error")]
          /\ lost' = IF Unnamed(p) THEN lost \cup {p} ELSE lost
    /\ UNCHANGED <<accountVars, cleaner, serving, free, entitled, served, overtaken>>

\* The task panics, and all the handler sees is a closed channel.
FfmpegPanics(p) ==
    /\ play[p].ffmpeg # "none"
    /\ Failed
    /\ play' = [play EXCEPT ![p].ffmpeg = "none", ![p].result = Sent(p, "closed")]
    /\ UNCHANGED <<accountVars, cleaner, serving, free, entitled, served, lost, overtaken>>

\* The statement of a task that was aborted takes effect.
LateStatus(p) ==
    /\ play[p].late # "none"
    /\ play' = [play EXCEPT ![p].late = "none", ![p].row = SetRow(p, play[p].late)]
    /\ overtaken' = IF play[p].late = "completed" /\ play[p].at # "fail"
                      THEN overtaken \cup {p} ELSE overtaken
    /\ UNCHANGED <<accountVars, cleaner, serving, free, entitled, served, lost, used>>
-----------------------------------------------------------------------------
(* cleanup_expired_sessions, by the task every five minutes and by each request *)

TaskSelect ==
    /\ cleaner["task"] = NotCleaning
    /\ SelectExpired # {}
    /\ cleaner' = [cleaner EXCEPT !["task"].todo = SelectExpired]
    /\ UNCHANGED <<accountVars, play, serving, free, entitled, served, lost, overtaken, used>>

\* Faulty variant: the row is deleted although the directory could not be removed.
CleanRemoveAnyway(c) ==
    /\ cleaner[c].removed = None
    /\ \E p \in cleaner[c].todo :
          /\ cleaner' = [cleaner EXCEPT ![c] = [todo |-> @.todo \ {p}, removed |-> p]]
          /\ \/ play' = [play EXCEPT ![p].dir = "none"] /\ UNCHANGED used
             \/ play[p].dir # "none" /\ Failed /\ UNCHANGED play
    /\ UNCHANGED <<accountVars, serving, free, entitled, served, lost, overtaken>>

\* A directory that cannot be removed keeps its row, for a later cleanup.
CleanRemove(c) ==
    /\ cleaner[c].removed = None
    /\ \E p \in cleaner[c].todo :
          \/ /\ play' = [play EXCEPT ![p].dir = "none"]
             /\ cleaner' = [cleaner EXCEPT ![c] = [todo |-> @.todo \ {p}, removed |-> p]]
             /\ UNCHANGED used
          \/ /\ play[p].dir # "none"
             /\ Failed
             /\ cleaner' = [cleaner EXCEPT ![c].todo = @ \ {p}]
             /\ UNCHANGED play
    /\ UNCHANGED <<accountVars, serving, free, entitled, served, lost, overtaken>>

\* A DELETE that fails ends the cleanup.
CleanDelete(c) ==
    /\ cleaner[c].removed # None
    /\ \/ /\ play' = [play EXCEPT ![cleaner[c].removed].row = "absent"]
          /\ cleaner' = [cleaner EXCEPT ![c].removed = None]
          /\ UNCHANGED used
       \/ /\ Failed
          /\ cleaner' = [cleaner EXCEPT ![c] = NotCleaning]
          /\ UNCHANGED play
    /\ UNCHANGED <<accountVars, serving, free, entitled, served, lost, overtaken>>
-----------------------------------------------------------------------------
(* serve_hls *)

\* Faulty variant: whoever knows the session may have its files.
MayServeAnyone(p, u) == play[p].row \notin {"absent", "error"} /\ ~play[p].expired

MayServe(p, u) ==
    /\ play[p].row \notin {"absent", "error"}
    /\ ~play[p].expired
    /\ play[p].user = u

\* The login and the row are read: the answer, or what is done next.
ServeLookup(p, s) ==
    /\ serving.at = "idle"
    /\ CurrentUser(s) # None
    /\ Event
    /\ \/ /\ MayServe(p, CurrentUser(s))
          /\ serving' = [at |-> "open", user |-> CurrentUser(s), play |-> p]
       \/ /\ p \in ExpiredRows
          /\ serving' = [at |-> "delete", user |-> CurrentUser(s), play |-> p]
    /\ UNCHANGED <<accountVars, play, cleaner, free, entitled, served, lost, overtaken>>

\* An expired session: the row goes first, then the directory; errors are ignored.
ServeDelete ==
    /\ serving.at = "delete"
    /\ serving' = [serving EXCEPT !.at = "remove"]
    /\ \/ play' = [play EXCEPT ![serving.play].row = "absent"] /\ UNCHANGED used
       \/ Failed /\ UNCHANGED play
    /\ UNCHANGED <<accountVars, cleaner, free, entitled, served, lost, overtaken>>

ServeRemove ==
    /\ serving.at = "remove"
    /\ serving' = NotServing
    /\ \/ /\ play' = [play EXCEPT ![serving.play].dir = "none"]
          /\ UNCHANGED <<lost, used>>
       \/ /\ Failed
          /\ lost' = IF Unnamed(serving.play) THEN lost \cup {serving.play} ELSE lost
          /\ UNCHANGED play
    /\ UNCHANGED <<accountVars, cleaner, free, entitled, served, overtaken>>

\* The file is opened if it is still there.
ServeOpen ==
    /\ serving.at = "open"
    /\ serving' = NotServing
    /\ served' = IF play[serving.play].dir = "none" THEN served
                 ELSE [served EXCEPT ![serving.play] = @ \cup {serving.user}]
    /\ UNCHANGED <<accountVars, play, cleaner, free, entitled, lost, overtaken, used>>
-----------------------------------------------------------------------------
(* What else changes who has access, and restarts *)

Grant(u) ==
    /\ u \notin entitled
    /\ Event
    /\ entitled' = entitled \cup {u}
    /\ UNCHANGED <<accountVars, play, cleaner, serving, free, served, lost, overtaken>>

SetPrice ==
    /\ Event
    /\ free' = ~free
    /\ UNCHANGED <<accountVars, play, cleaner, serving, entitled, served, lost, overtaken>>

Restart ==
    /\ Stopped
    /\ AccountsCrash
    /\ play' = [p \in Plays |->
                   [play[p] EXCEPT !.at = IF @ \in InFlight THEN "dropped" ELSE @,
                                   !.ffmpeg = "none", !.result = "none"]]
    /\ cleaner' = [c \in Cleaners |-> NotCleaning]
    /\ serving' = NotServing
    /\ lost' = lost \cup {p \in Plays : Unnamed(p)}
    /\ UNCHANGED <<free, entitled, served, overtaken>>
-----------------------------------------------------------------------------
Init ==
    /\ AccountsInit
    /\ play = [p \in Plays |-> NoPlay]
    /\ cleaner = [c \in Cleaners |-> NotCleaning]
    /\ serving = NotServing
    /\ free = FALSE
    /\ entitled = Entitled
    /\ served = [p \in Plays |-> {}]
    /\ lost = {}
    /\ overtaken = {}

SystemNext ==
    \/ AccountsSystem /\ UNCHANGED playbackVars
    \/ \E p \in Plays :
          \/ PlayMkdir(p) \/ PlayInsert(p)
          \/ PollSees(p) \/ PollUpdate(p) \/ PollResult(p) \/ PollTimeout(p)
          \/ PlayFail(p) \/ PlayRemove(p)
          \/ FfmpegPlaylist(p) \/ FfmpegDone(p) \/ FfmpegFails(p) \/ FfmpegRemoves(p)
          \/ LateStatus(p)
    \/ TaskSelect
    \/ \E c \in Cleaners : CleanRemove(c) \/ CleanDelete(c)
    \/ ServeDelete \/ ServeRemove \/ ServeOpen

Next ==
    \/ SystemNext
    \/ AccountsClients /\ UNCHANGED playbackVars
    \/ \E s \in Sids, p \in Plays : PlayBegin(p, s) \/ ServeLookup(p, s)
    \/ \E p \in Plays : PlayDrop(p) \/ Expire(p) \/ FfmpegPanics(p)
    \/ \E u \in Users : Grant(u)
    \/ SetPrice
    \/ Restart

Spec == Init /\ [][Next]_vars

\* Handlers and tasks go on, ffmpeg ends, and the cleanup task wakes up again.
FairSpec == Spec /\ WF_vars(SystemNext)
-----------------------------------------------------------------------------
(* Properties *)

\* Types, and what AccountsTypeOK says of administrators and their sessions.
TypeOK ==
    /\ AccountsTypeOK
    /\ play \in [Plays -> [at : InFlight \cup {"new", "done", "dropped"},
                           user : Users \cup {None}, granted : BOOLEAN,
                           row : {"absent", "starting", "ready", "completed", "error"},
                           expired : BOOLEAN, dir : {"none", "empty", "playlist"},
                           ffmpeg : {"none", "running", "failed"},
                           late : {"none", "completed", "error"},
                           result : {"none", "ok", "error", "closed"}]]
    /\ cleaner \in [Cleaners -> [todo : SUBSET Plays, removed : Plays \cup {None}]]
    /\ serving \in [at : {"idle", "delete", "remove", "open"},
                    user : Users \cup {None}, play : Plays \cup {None}]
    /\ free \in BOOLEAN
    /\ entitled \subseteq Users /\ lost \subseteq Plays /\ overtaken \subseteq Plays
    /\ served \in [Plays -> SUBSET Users]

\* Files go only to the user who asked for the playback, and only if the video was that
\* user's to see when access was checked: not to another login of the same browser, nor
\* to anyone between a session's failure, expiry or removal and the next.
ServedToItsViewer ==
    \A p \in Plays : \A u \in served[p] : u = play[p].user /\ play[p].granted

\* Rows and directories go together.  A directory without a row is one whose request is
\* about to insert or to remove, or that serve_hls is about to remove, or it was left by
\* a disconnection, a restart or a failed removal at such a point.  A session offered as
\* 'ready' or 'completed' has its playlist until it expires, unless ffmpeg failed between
\* the handler's look at the playlist and its UPDATE, or the handler gave up on a task
\* whose 'completed' was on its way, or ffmpeg ended without a playlist and the handler
\* is about to say so or was dropped, or a statement failed.
DirectoriesMatchRows ==
    \A p \in Plays :
        /\ Unnamed(p) => \/ play[p].at \in {"insert", "remove"}
                         \/ serving.at = "remove" /\ serving.play = p
                         \/ p \in lost
        /\ play[p].row \in {"ready", "completed"} /\ play[p].dir # "playlist" =>
               \/ play[p].expired
               \/ p \in overtaken
               \/ /\ play[p].row = "completed" /\ play[p].dir = "empty"
                  /\ play[p].at \in {"poll", "fail", "dropped"}
               \/ used.failures > 0

\* An expired session's row and directory go, whether it was ever started, is still
\* being encoded, or lost its handler: the cleanup task finds it, removals that failed
\* are tried again.
ExpiredAreRemoved ==
    \A p \in Plays :
        p \in ExpiredRows ~>
            (play[p].row = "absent" /\ (play[p].dir = "none" \/ p \in lost))
=============================================================================
