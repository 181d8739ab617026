----------------------------- MODULE PendingVideos -----------------------------
(***************************************************************************)
(* The local videos of a tab from their publication to the end of their     *)
(* processing: the row of the service and the job of the worker, the        *)
(* records the tab keeps in its session storage, and the tracker of the     *)
(* page of the videos (useLocalVideoPendingTracker), which polls the        *)
(* service until each video is published or failed.                         *)
(*                                                                         *)
(* A poll that was cancelled does nothing more, whatever it awaits: the     *)
(* model forgets it.                                                        *)
(***************************************************************************)
EXTENDS Naturals, FiniteSets

CONSTANTS
    Videos,     \* the videos the tab uploads
    MaxTries,   \* LOCAL_VIDEO_PROCESSING_MAX_TRIES
    Rounds,     \* rounds of polling that may be under way together
    NoVideo     \* not a video

ASSUME PendingAssumption ==
    /\ MaxTries \in Nat \ {0}
    /\ NoVideo \notin Videos

VARIABLES
    status,     \* status[v] of the row; "none" before it is published
    job,        \* job[v]: where the job is, and job_try
    upload,     \* the publication the tab waits for
    stored,     \* the records of the session storage
    onPage,     \* the page of the videos is mounted
    focus,      \* the video of its URL
    focusGot,   \* what the request of the focused video has brought
    track,      \* track[v]: what the tracker shows of v
    polled,     \* the videos the effect of the polls last ran for
    round,      \* round[k]: what is left to ask for, the video asked for, the answer
    announced,  \* history: how often onPublished was called for v, up to 2
    dropped,    \* history: videos dismissed, or whose record was too old
    overlapped  \* history: two requests about a video were under way together

videoVars == <<status, job, upload, stored, onPage, focus, focusGot, track, polled,
               round, announced, dropped, overlapped>>

videoServer == <<status, job>>
videoPage   == <<onPage, focus, focusGot, track, polled, round>>

Answers == {"processing", "published", "failed", "error"}
Settled(v) == status[v] \in {"published", "failed"}
Tracked == {v \in Videos : track[v] # "none"}

NoRound == [todo |-> {}, at |-> NoVideo, got |-> "waiting"]
Idle    == {k \in Rounds : round[k] = NoRound}

Jobs == [pc : {"none", "queued", "running", "committed", "ended"},
         tries : 0 .. MaxTries]
RoundRecord == [todo : SUBSET Videos, at : Videos \cup {NoVideo}, got : Answers \cup {"waiting"}]

\* A job that goes on, a round that was answered.
Becomes(j, pc) == [pc |-> pc, tries |-> j.tries]
Hearing(r, a)  == [todo |-> r.todo, at |-> r.at, got |-> a]

VideosTypeOK ==
    /\ status \in [Videos -> {"none", "processing", "published", "failed"}]
    /\ job \in [Videos -> Jobs]
    /\ upload \in Videos \cup {NoVideo}
    /\ stored \subseteq Videos
    /\ onPage \in BOOLEAN
    /\ focus \in Videos \cup {NoVideo}
    /\ focusGot \in Answers \cup {"none", "waiting"}
    /\ track \in [Videos -> {"none", "pending", "failed", "trouble"}]
    /\ polled \subseteq Videos
    /\ round \in [Rounds -> RoundRecord]
    /\ announced \in [Videos -> 0 .. 2]
    /\ dropped \subseteq Videos
    /\ overlapped \in BOOLEAN

VideosInit ==
    /\ status = [v \in Videos |-> "none"]
    /\ job = [v \in Videos |-> [pc |-> "none", tries |-> 0]]
    /\ upload = NoVideo
    /\ stored = {}
    /\ onPage = FALSE
    /\ focus = NoVideo
    /\ focusGot = "none"
    /\ track = [v \in Videos |-> "none"]
    /\ polled = {}
    /\ round = [k \in Rounds |-> NoRound]
    /\ announced = [v \in Videos |-> 0]
    /\ dropped = {}
    /\ overlapped = FALSE

-----------------------------------------------------------------------------
(* The service and the worker                                              *)

\* publish_video: the row is committed, then the job is queued.
PublishVideo(v) ==
    /\ status[v] = "none" /\ upload = NoVideo
    /\ status' = [status EXCEPT ![v] = "processing"]
    /\ job' = [job EXCEPT ![v] = Becomes(@, "queued")]
    /\ upload' = v
    /\ UNCHANGED <<stored, videoPage, announced, dropped, overlapped>>

\* Redis is down: the row stays, without a job, and the request fails.
PublishUnqueued(v) ==
    /\ status[v] = "none" /\ upload = NoVideo
    /\ status' = [status EXCEPT ![v] = "processing"]
    /\ UNCHANGED <<job, upload, stored, videoPage, announced, dropped, overlapped>>

\* Faulty: a job that is delivered again does not look at the status.
StartJobAgain(v) ==
    /\ job[v].pc = "queued" /\ job[v].tries < MaxTries
    /\ job' = [job EXCEPT ![v] = [pc |-> "running", tries |-> @.tries + 1]]
    /\ UNCHANGED <<status, upload, stored, videoPage, announced, dropped, overlapped>>

\* The worker takes the job, and leaves a video already published as it is.
StartJob(v) ==
    /\ job[v].pc = "queued" /\ job[v].tries < MaxTries
    /\ job' = [job EXCEPT ![v] =
            [pc |-> IF status[v] = "published" THEN "committed" ELSE "running",
             tries |-> @.tries + 1]]
    /\ UNCHANGED <<status, upload, stored, videoPage, announced, dropped, overlapped>>

\* A job delivered max_tries times is dropped.  arq ignores the on_job_failure of
\* WorkerSettings, which is none of its settings: nobody marks the video.
GiveUpJob(v) ==
    /\ job[v].pc = "queued" /\ job[v].tries = MaxTries
    /\ job' = [job EXCEPT ![v] = Becomes(@, "ended")]
    /\ UNCHANGED <<status, upload, stored, videoPage, announced, dropped, overlapped>>

\* _finalize_ready, _mark_failed: the run commits the end of the processing.
JobCommits(v, s) ==
    /\ job[v].pc = "running"
    /\ status' = [status EXCEPT ![v] = s]
    /\ job' = [job EXCEPT ![v] = Becomes(@, "committed")]
    /\ UNCHANGED <<upload, stored, videoPage, announced, dropped, overlapped>>

\* The queue takes note of the end of the run.
JobEnds(v) ==
    /\ job[v].pc = "committed"
    /\ job' = [job EXCEPT ![v] = Becomes(@, "ended")]
    /\ UNCHANGED <<status, upload, stored, videoPage, announced, dropped, overlapped>>

\* A transient AppError, any other exception or job_timeout: the run raises and
\* arq ends the job as failed, since nothing raises its Retry.
JobFails(v) ==
    /\ job[v].pc = "running"
    /\ job' = [job EXCEPT ![v] = Becomes(@, "ended")]
    /\ UNCHANGED <<status, upload, stored, videoPage, announced, dropped, overlapped>>

\* The worker is stopped or dies, before or after the COMMIT of the run: retry_jobs
\* delivers the job again.
JobComesBack(v) ==
    /\ job[v].pc \in {"running", "committed"}
    /\ job' = [job EXCEPT ![v] = Becomes(@, "queued")]
    /\ UNCHANGED <<status, upload, stored, videoPage, announced, dropped, overlapped>>

\* A run ends, one way or the other.
EndRun(v) ==
    job[v].pc = "running" /\ (\/ \E s \in {"published", "failed"} : JobCommits(v, s)
                              \/ JobFails(v) \/ JobComesBack(v))

-----------------------------------------------------------------------------
(* The session storage and the pages                                       *)

Synced(s) == [v \in Videos |-> IF v \notin s THEN "none"
                               ELSE IF track[v] = "none" THEN "pending" ELSE track[v]]

\* The publication was accepted: registerLocalVideoPending, and the page of the
\* videos on the new one.  Mounted before, the page only changes its focus.
UploadAccepted ==
    /\ upload # NoVideo
    /\ upload' = NoVideo
    /\ stored' = stored \cup {upload}
    /\ onPage' = TRUE
    /\ focus' = upload
    /\ focusGot' = "none"
    /\ track' = IF onPage THEN track ELSE Synced(stored')
    /\ UNCHANGED <<videoServer, polled, round, announced, dropped, overlapped>>

UploadFails ==
    /\ upload # NoVideo
    /\ upload' = NoVideo
    /\ UNCHANGED <<videoServer, stored, videoPage, announced, dropped, overlapped>>

OpenPage ==
    /\ ~onPage
    /\ onPage' = TRUE
    /\ track' = Synced(stored)
    /\ UNCHANGED <<videoServer, upload, stored, focus, focusGot, polled, round,
                   announced, dropped, overlapped>>

LeavePage ==
    /\ onPage
    /\ onPage' = FALSE
    /\ focus' = NoVideo
    /\ focusGot' = "none"
    /\ track' = [v \in Videos |-> "none"]
    /\ polled' = {}
    /\ round' = [k \in Rounds |-> NoRound]
    /\ UNCHANGED <<videoServer, upload, stored, announced, dropped, overlapped>>

\* The effect of the focus, after each change of the feed that does not show it.
AskFocus ==
    /\ focus # NoVideo
    /\ focusGot' = "waiting"
    /\ overlapped' = (overlapped \/ Idle # Rounds)
    /\ UNCHANGED <<videoServer, upload, stored, onPage, focus, track, polled, round,
                   announced, dropped>>

FocusAnswers ==
    /\ focusGot = "waiting"
    /\ focusGot' = status[focus]
    /\ UNCHANGED <<videoServer, upload, stored, onPage, focus, track, polled, round,
                   announced, dropped, overlapped>>

\* A focused video that is not ready is registered and tracked.
FocusArrives ==
    /\ focusGot \in {"processing", "published", "failed"}
    /\ IF focusGot = "published" THEN UNCHANGED <<stored, track>>
       ELSE /\ stored' = stored \cup {focus}
            /\ track' = Synced(stored')
    /\ focusGot' = "none"
    /\ UNCHANGED <<videoServer, upload, onPage, focus, polled, round, announced, dropped,
                   overlapped>>

FocusFails ==
    /\ focusGot # "none"
    /\ focusGot' = "none"
    /\ UNCHANGED <<videoServer, upload, stored, onPage, focus, track, polled, round,
                   announced, dropped, overlapped>>

\* pruneStale: a record is too old, at the next read of the storage.
Prune(v) ==
    /\ v \in stored
    /\ stored' = stored \ {v}
    /\ dropped' = dropped \cup {v}
    /\ UNCHANGED <<videoServer, upload, videoPage, announced, overlapped>>

\* dismissTrack
Dismiss(v) ==
    /\ v \in Tracked
    /\ stored' = stored \ {v}
    /\ track' = [track EXCEPT ![v] = "none"]
    /\ dropped' = dropped \cup {v}
    /\ UNCHANGED <<videoServer, upload, onPage, focus, focusGot, polled, round, announced,
                   overlapped>>

-----------------------------------------------------------------------------
(* The polls                                                               *)

\* A round that starts with one of S and goes on with the others, or none.
Rounding(S) == IF S = {} THEN {NoRound}
              ELSE {[todo |-> S \ {v}, at |-> v, got |-> "waiting"] : v \in S}

\* The set of the tracked videos changed: the effect cancels the rounds under
\* way and starts one.
PollEffect ==
    /\ polled # Tracked
    /\ polled' = Tracked
    /\ \E k \in Rounds, r \in Rounding(Tracked) :
            round' = [j \in Rounds |-> IF j = k THEN r ELSE NoRound]
    /\ overlapped' = (overlapped \/ focusGot # "none")
    /\ UNCHANGED <<videoServer, upload, stored, onPage, focus, focusGot, track, announced,
                   dropped>>

\* Faulty: a video in trouble stops the timer.
PollTickUntroubled(k) ==
    /\ polled = Tracked /\ polled # {}
    /\ \A v \in polled : track[v] # "trouble"
    /\ k \in Idle
    /\ \E r \in Rounding(polled) : round' = [round EXCEPT ![k] = r]
    /\ overlapped' = (overlapped \/ Idle # Rounds \/ focusGot # "none")
    /\ UNCHANGED <<videoServer, upload, stored, onPage, focus, focusGot, track, polled,
                   announced, dropped>>

\* POLL_INTERVAL_MS later.  A tick between a change and its effect starts a round
\* that is cancelled before its first answer.
PollTick(k) ==
    /\ polled = Tracked /\ polled # {}
    /\ k \in Idle
    /\ \E r \in Rounding(polled) : round' = [round EXCEPT ![k] = r]
    /\ overlapped' = (overlapped \/ Idle # Rounds \/ focusGot # "none")
    /\ UNCHANGED <<videoServer, upload, stored, onPage, focus, focusGot, track, polled,
                   announced, dropped>>

GetVideo(k) ==
    /\ round[k].at # NoVideo /\ round[k].got = "waiting"
    /\ round' = [round EXCEPT ![k] = Hearing(@, status[@.at])]
    /\ UNCHANGED <<videoServer, upload, stored, onPage, focus, focusGot, track, polled,
                   announced, dropped, overlapped>>

GetVideoFails(k) ==
    /\ round[k].at # NoVideo /\ round[k].got # "error"
    /\ round' = [round EXCEPT ![k] = Hearing(@, "error")]
    /\ UNCHANGED <<videoServer, upload, stored, onPage, focus, focusGot, track, polled,
                   announced, dropped, overlapped>>

\* What the tracker shows of a video of which the answer a arrived.
Shown(v, a) == IF track[v] = "none" \/ a = "published" THEN "none"
               ELSE IF a = "failed" THEN "failed"
               ELSE IF a = "error" THEN "trouble" ELSE "pending"

\* Faulty: a request that failed ends the tracking as a failed video does.
GiveUp(a) == a \in {"published", "failed", "error"}

\* Faulty: the record of a published video is kept.
EndsInFailure(a) == a = "failed"

\* removeLocalVideoPending is called for the two ends of a processing.
Ends(a) == a \in {"published", "failed"}

\* The answer arrives, and the round goes on with the next video.
PollHears(k) ==
    LET v == round[k].at
        a == round[k].got IN
    /\ v # NoVideo /\ a # "waiting"
    /\ stored' = IF Ends(a) THEN stored \ {v} ELSE stored
    /\ announced' = [announced EXCEPT ![v] = IF a = "published" /\ @ < 2 THEN @ + 1 ELSE @]
    /\ track' = [track EXCEPT ![v] = Shown(v, a)]
    /\ \E r \in Rounding(round[k].todo) : round' = [round EXCEPT ![k] = r]
    /\ UNCHANGED <<videoServer, upload, onPage, focus, focusGot, polled, dropped, overlapped>>

VideosNext ==
    \/ \E v \in Videos :
        \/ PublishVideo(v) \/ PublishUnqueued(v)
        \/ StartJob(v) \/ JobCommits(v, "published") \/ JobCommits(v, "failed")
        \/ JobEnds(v) \/ JobFails(v) \/ JobComesBack(v) \/ GiveUpJob(v)
        \/ Prune(v) \/ Dismiss(v)
    \/ UploadAccepted \/ UploadFails \/ OpenPage \/ LeavePage
    \/ AskFocus \/ FocusAnswers \/ FocusArrives \/ FocusFails
    \/ PollEffect
    \/ \E k \in Rounds : PollTick(k) \/ GetVideo(k) \/ GetVideoFails(k) \/ PollHears(k)

\* The worker goes on, the effect runs, the timer ticks and the service does not
\* lose every request.
VideosFairness ==
    /\ \A v \in Videos :
        /\ WF_videoVars(StartJob(v))
        /\ WF_videoVars(EndRun(v))
        /\ WF_videoVars(GiveUpJob(v))
    /\ WF_videoVars(PollEffect)
    /\ \A k \in Rounds :
        /\ WF_videoVars(PollTick(k))
        /\ WF_videoVars(PollHears(k))
        /\ SF_videoVars(GetVideo(k))
        /\ SF_videoVars(PollHears(k) /\ round[k].got # "error")

VideosSpec == VideosInit /\ [][VideosNext]_videoVars /\ VideosFairness

-----------------------------------------------------------------------------
(* Properties                                                              *)

\* A record leaves the storage when the processing of its video is over, never
\* because a request failed or an answer was late, unless the citizen dismissed
\* it or it was too old.
NothingForgotten ==
    \A v \in Videos :
        v \in Tracked \ dropped /\ ~Settled(v) => v \in stored

\* The feed is told of a published video once, unless two requests about the
\* videos were under way together.
AnnouncedOnce == overlapped \/ \A v \in Videos : announced[v] < 2

\* A job that comes back after its video was published, because the worker died
\* between the COMMIT and the end of the job, does not take the publication back.
PublishedStays ==
    [][\A v \in Videos : status[v] = "published" => status'[v] = "published"]_videoVars

\* As long as the page stays open, the tracker learns the end of the processing.
EndIsNoticed ==
    \A v \in Videos : track[v] \in {"pending", "trouble"} /\ Settled(v)
                        ~> track[v] \in {"none", "failed"}

\* Refuted: a video whose job was queued is published or failed in the end, since
\* transient errors are retried and a video is "marked FAILED when ARQ retries are
\* exhausted".
EveryVideoSettles ==
    \A v \in Videos : job[v].pc = "queued" ~> Settled(v)
=============================================================================
