------------------------------ MODULE VideosProofs ------------------------------
(***************************************************************************)
(* Proofs about PendingVideos, for any number of videos, of tries and of   *)
(* rounds of polling.                                                      *)
(***************************************************************************)
EXTENDS PendingVideos, TLAPS

\* The publication of v was not accepted yet, and no page knows of v.
New(v)    == status[v] = "none" \/ upload = v
Unseen(v) == focus # v /\ v \notin stored /\ track[v] = "none"

\* A request for the focus is about a video, and only what was published is
\* waited for, and only what was accepted is kept, shown or asked for.
KnownInv ==
    /\ focusGot # "none" => focus # NoVideo
    /\ \A v \in Videos : status[v] = "none" => upload # v
    /\ \A v \in Videos : New(v) =>
        /\ Unseen(v)
        /\ \A k \in Rounds : round[k].at # v /\ v \notin round[k].todo

\* A job does not run for a video that is published, and an answer about the end
\* of a processing is still right when it arrives.
WorkInv ==
    /\ \A v \in Videos : status[v] = "published" => job[v].pc # "running"
    /\ \A k \in Rounds : LET r == round[k] IN
        r.at # NoVideo => /\ r.got \in {"published", "failed"} => Settled(r.at)
                          /\ r.got = "published" => status[r.at] = "published"

\* As long as requests did not overlap, one is under way; the tracker is over
\* with a video it has announced.
AnnounceInv ==
    /\ \A k \in Rounds : /\ round[k].at = NoVideo => round[k] = NoRound
                         /\ round[k].at \notin round[k].todo
    /\ ~overlapped =>
        /\ \A j, k \in Rounds \ Idle : j = k
        /\ focusGot # "none" => Idle = Rounds
        /\ \A v \in Videos : announced[v] # 0 =>
            /\ announced[v] = 1
            /\ status[v] = "published"
            /\ upload # v /\ v \notin stored /\ track[v] = "none"
            /\ focus = v => focusGot \notin {"processing", "failed", "error"}
            /\ \A k \in Rounds : round[k].at # v /\ v \notin round[k].todo

VideosInv == VideosTypeOK /\ KnownInv /\ WorkInv /\ NothingForgotten /\ AnnounceInv

USE PendingAssumption

LEMMA VideosInitInv == VideosInit => VideosInv
  <1> SUFFICES ASSUME VideosInit PROVE VideosInv
    OBVIOUS
  <1>1. NoRound \in RoundRecord
    BY DEF NoRound, RoundRecord
  <1>2. [pc |-> "none", tries |-> 0] \in Jobs
    BY DEF Jobs
  <1>3. /\ status \in [Videos -> {"none", "processing", "published", "failed"}]
        /\ track \in [Videos -> {"none", "pending", "failed", "trouble"}]
        /\ announced \in [Videos -> 0 .. 2]
    BY DEF VideosInit
  <1>4. job \in [Videos -> Jobs] /\ round \in [Rounds -> RoundRecord]
    BY <1>1, <1>2 DEF VideosInit
  <1>5. VideosTypeOK
    BY <1>3, <1>4 DEF VideosInit, VideosTypeOK
  <1>6. KnownInv /\ WorkInv /\ NothingForgotten /\ AnnounceInv
    BY DEF VideosInit, KnownInv, New, Unseen, WorkInv, NothingForgotten, AnnounceInv, Tracked, NoRound,
           Idle
  <1> QED BY <1>5, <1>6 DEF VideosInv

----------------------------------------------------------------------------
(* The service and the worker                                              *)

\* A step of the service or the worker about v that takes nothing back.
LEMMA ServerKeeps ==
    ASSUME VideosInv, NEW v \in Videos,
           NEW s \in {"none", "processing", "published", "failed"}, NEW j \in Jobs,
           status' = [status EXCEPT ![v] = s], job' = [job EXCEPT ![v] = j],
           upload' = upload \/ (upload' = v /\ status[v] = "none" /\ s # "none"),
           s = "none" => status[v] = "none",
           status[v] = "published" => s = "published",
           Settled(v) => s \in {"published", "failed"},
           s = "published" => j.pc # "running",
           UNCHANGED <<stored, videoPage, announced, dropped, overlapped>>
    PROVE  VideosInv'
  <1>1. VideosTypeOK'
    BY DEF VideosInv, VideosTypeOK, videoPage
  <1>2. \A u \in Videos : status'[u] = IF u = v THEN s ELSE status[u]
    BY DEF VideosInv, VideosTypeOK
  <1>3. KnownInv'
    BY <1>2 DEF VideosInv, KnownInv, New, Unseen, videoPage
  <1>4. WorkInv'
    <2>1. \A u \in Videos : status'[u] = "published" => job'[u].pc # "running"
      BY <1>2 DEF VideosInv, VideosTypeOK, WorkInv
    <2>2. \A k \in Rounds : round[k].at # NoVideo => round[k].at \in Videos
      BY DEF VideosInv, VideosTypeOK, RoundRecord
    <2>3. \A u \in Videos : /\ Settled(u) => Settled(u)'
                            /\ status[u] = "published" => status'[u] = "published"
      BY <1>2 DEF Settled
    <2> QED BY <2>1, <2>2, <2>3 DEF VideosInv, WorkInv, videoPage, Settled
  <1>5. NothingForgotten'
    BY <1>2 DEF VideosInv, NothingForgotten, Tracked, Settled, videoPage
  <1>6. AnnounceInv'
    BY <1>2 DEF VideosInv, AnnounceInv, Idle, videoPage
  <1> QED BY <1>1, <1>3, <1>4, <1>5, <1>6 DEF VideosInv

LEMMA WorkKeeps ==
    ASSUME VideosInv, NEW v \in Videos,
           \/ PublishVideo(v) \/ PublishUnqueued(v)
           \/ StartJob(v) \/ JobCommits(v, "published") \/ JobCommits(v, "failed")
           \/ JobEnds(v) \/ JobFails(v) \/ JobComesBack(v) \/ GiveUpJob(v)
    PROVE  VideosInv'
  <1>1. /\ status[v] \in {"none", "processing", "published", "failed"} /\ job[v] \in Jobs
        /\ status = [status EXCEPT ![v] = status[v]] /\ job = [job EXCEPT ![v] = job[v]]
        /\ status[v] = "published" => job[v].pc # "running"
    BY DEF VideosInv, VideosTypeOK, WorkInv
  <1>2. \A pc \in {"none", "queued", "running", "committed", "ended"} :
            Becomes(job[v], pc) \in Jobs /\ Becomes(job[v], pc).pc = pc
    BY <1>1 DEF Becomes, Jobs
  <1>3. CASE PublishVideo(v)
    BY <1>1, <1>2, <1>3, ServerKeeps DEF PublishVideo, Settled
  <1>4. CASE PublishUnqueued(v)
    BY <1>1, <1>4, ServerKeeps DEF PublishUnqueued, Settled, Jobs
  <1>5. CASE StartJob(v)
    <2> DEFINE s == status[v]
    <2>3. /\ s \in {"none", "processing", "published", "failed"}
          /\ status' = [status EXCEPT ![v] = s] /\ upload' = upload
          /\ s = "none" => status[v] = "none"
          /\ status[v] = "published" => s = "published"
          /\ Settled(v) => s \in {"published", "failed"}
          /\ UNCHANGED <<stored, videoPage, announced, dropped, overlapped>>
      BY <1>1, <1>5 DEF StartJob, Settled
    <2>4. ASSUME NEW j \in Jobs, job' = [job EXCEPT ![v] = j], s = "published" => j.pc # "running"
          PROVE  VideosInv'
      <3> HIDE DEF s
      <3> QED BY <2>3, <2>4, ServerKeeps
    <2> DEFINE j == [pc |-> IF status[v] = "published" THEN "committed" ELSE "running",
                     tries |-> job[v].tries + 1]
    <2>1. job' = [job EXCEPT ![v] = j]
      BY <1>5 DEF StartJob, VideosInv, VideosTypeOK
    <2>2. job[v].tries + 1 \in 0 .. MaxTries
      BY <1>1, <1>5 DEF StartJob, Jobs
    <2>5. j \in Jobs /\ (status[v] = "published" => j.pc # "running")
      BY <2>2 DEF Jobs
    <2> HIDE DEF j
    <2> QED BY <2>1, <2>4, <2>5
  <1>6. CASE JobCommits(v, "published") \/ JobCommits(v, "failed")
    <2>1. PICK s \in {"published", "failed"} : JobCommits(v, s)
      BY <1>6
    <2> QED BY <1>1, <1>2, <2>1, ServerKeeps DEF JobCommits, Settled
  <1>7. CASE JobEnds(v) \/ JobFails(v) \/ JobComesBack(v) \/ GiveUpJob(v)
    BY <1>1, <1>2, <1>7, ServerKeeps DEF JobEnds, JobFails, JobComesBack, GiveUpJob, Settled
  <1> QED BY <1>3, <1>4, <1>5, <1>6, <1>7

----------------------------------------------------------------------------
(* The session storage and the pages                                       *)

\* What a sync shows is recorded.
LEMMA SyncedShows ==
    ASSUME VideosTypeOK, NEW S
    PROVE  /\ Synced(S) \in [Videos -> {"none", "pending", "failed", "trouble"}]
           /\ \A v \in Videos : /\ Synced(S)[v] # "none" => v \in S
                                /\ v \in S /\ track[v] # "none" => Synced(S)[v] # "none"
  BY DEF VideosTypeOK, Synced

\* A step that shows only what is recorded, or what it showed.
LEMMA PageKeeps ==
    ASSUME VideosInv, UNCHANGED <<videoServer, announced>>, VideosTypeOK',
           dropped \subseteq dropped', overlapped => overlapped',
           upload' \in {upload, NoVideo},
           round' = round \/ round' = [k \in Rounds |-> NoRound],
           focusGot' # "none" => focus' # NoVideo,
           focusGot' # "none" => focusGot # "none" \/ overlapped' \/ Idle = Rounds,
           \A v \in Videos : /\ status[v] = "none" => upload' # v
                             /\ (status[v] = "none" \/ upload' = v) =>
                                   focus' # v /\ v \notin stored' /\ track'[v] = "none",
           \A v \in Videos : v \in stored => v \in stored' \cup dropped',
           \A v \in Videos : track'[v] # "none" => v \in stored' \/ track[v] # "none",
           ~overlapped' => \A v \in Videos : announced[v] # 0 =>
                /\ upload' # v /\ v \notin stored' /\ track'[v] = "none"
                /\ focus' = v => focusGot' \notin {"processing", "failed", "error"}
    PROVE  VideosInv'
  <1>1. \A k \in Rounds : round'[k] = round[k] \/ round'[k] = NoRound
    BY DEF VideosInv, VideosTypeOK
  <1>2. \A k \in Rounds : round'[k].at = NoVideo \/ round'[k] = round[k]
    BY <1>1 DEF NoRound
  <1>3. KnownInv'
    BY <1>1 DEF VideosInv, KnownInv, New, Unseen, videoServer, NoRound
  <1>4. WorkInv'
    BY <1>2 DEF VideosInv, WorkInv, videoServer, Settled
  <1>5. NothingForgotten'
    BY DEF VideosInv, NothingForgotten, Tracked, videoServer, Settled
  <1>6. AnnounceInv'
    <2>1. Rounds \ Idle' \subseteq Rounds \ Idle
      BY <1>1 DEF Idle
    <2>2. \A k \in Rounds : /\ round'[k].at = NoVideo => round'[k] = NoRound
                            /\ round'[k].at \notin round'[k].todo
      <3> SUFFICES ASSUME NEW k \in Rounds
                   PROVE  /\ round'[k].at = NoVideo => round'[k] = NoRound
                          /\ round'[k].at \notin round'[k].todo
        OBVIOUS
      <3>1. CASE round'[k] = round[k]
        BY <3>1 DEF VideosInv, AnnounceInv
      <3>2. CASE round'[k] = NoRound
        BY <3>2 DEF NoRound
      <3> QED BY <1>1, <3>1, <3>2
    <2>3. ~overlapped' /\ focusGot' # "none" => Idle' = Rounds
      BY <2>1 DEF VideosInv, AnnounceInv, Idle
    <2>4. ASSUME ~overlapped', NEW v \in Videos, announced'[v] # 0
          PROVE  /\ announced'[v] = 1 /\ status'[v] = "published"
                 /\ upload' # v /\ v \notin stored' /\ track'[v] = "none"
                 /\ focus' = v => focusGot' \notin {"processing", "failed", "error"}
                 /\ \A k \in Rounds : round'[k].at # v /\ v \notin round'[k].todo
      BY <1>1, <2>4 DEF VideosInv, AnnounceInv, videoServer, NoRound
    <2>5. ~overlapped' => \A j, k \in Rounds \ Idle' : j = k
      BY <2>1 DEF VideosInv, AnnounceInv
    <2> QED BY <2>2, <2>3, <2>4, <2>5 DEF AnnounceInv
  <1> QED BY <1>3, <1>4, <1>5, <1>6 DEF VideosInv

LEMMA UploadKeeps ==
    ASSUME VideosInv, UploadAccepted \/ UploadFails
    PROVE  VideosInv'
  <1>1. CASE UploadAccepted
    <2>1. upload \in Videos /\ stored' = stored \cup {upload}
      BY <1>1 DEF UploadAccepted, VideosInv, VideosTypeOK
    <2>2. track' = track \/ track' = Synced(stored')
      BY <1>1 DEF UploadAccepted
    <2>3. /\ track' \in [Videos -> {"none", "pending", "failed", "trouble"}]
          /\ \A v \in Videos : track'[v] # "none" => v \in stored' \/ track[v] # "none"
      BY <2>2, SyncedShows DEF VideosInv, VideosTypeOK
    <2>4. VideosTypeOK'
      BY <1>1, <2>1, <2>3 DEF UploadAccepted, VideosInv, VideosTypeOK, videoServer
    <2>5. \A v \in Videos : /\ status[v] = "none" => upload' # v
                            /\ (status[v] = "none" \/ upload' = v) =>
                                  focus' # v /\ v \notin stored' /\ track'[v] = "none"
      BY <1>1, <2>1, <2>3 DEF UploadAccepted, VideosInv, KnownInv, New, Unseen
    <2>6. ~overlapped => \A v \in Videos : announced[v] # 0 =>
                upload' # v /\ v \notin stored' /\ track'[v] = "none"
      BY <1>1, <2>1, <2>3 DEF UploadAccepted, VideosInv, AnnounceInv
    <2> QED BY <1>1, <2>1, <2>3, <2>4, <2>5, <2>6, PageKeeps DEF UploadAccepted
  <1>2. CASE UploadFails
    <2>1. VideosTypeOK'
      BY <1>2 DEF UploadFails, VideosInv, VideosTypeOK, videoServer, videoPage
    <2> QED BY <1>2, <2>1, PageKeeps DEF UploadFails, VideosInv, KnownInv, New, Unseen, AnnounceInv,
            videoPage
  <1> QED BY <1>1, <1>2

LEMMA OpenKeeps ==
    ASSUME VideosInv, OpenPage \/ LeavePage
    PROVE  VideosInv'
  <1>1. /\ track' \in [Videos -> {"none", "pending", "failed", "trouble"}]
        /\ \A v \in Videos : track'[v] # "none" => v \in stored' \/ track[v] # "none"
    BY SyncedShows DEF OpenPage, LeavePage, VideosInv, VideosTypeOK
  <1>2. round' \in [Rounds -> RoundRecord]
    BY DEF OpenPage, LeavePage, VideosInv, VideosTypeOK, NoRound, RoundRecord
  <1>3. VideosTypeOK'
    BY <1>1, <1>2 DEF OpenPage, LeavePage, VideosInv, VideosTypeOK, videoServer
  <1>4. \A v \in Videos : /\ status[v] = "none" => upload' # v
                          /\ (status[v] = "none" \/ upload' = v) =>
                                focus' # v /\ v \notin stored' /\ track'[v] = "none"
    BY <1>1 DEF OpenPage, LeavePage, VideosInv, KnownInv, New, Unseen
  <1>5. ~overlapped => \A v \in Videos : announced[v] # 0 =>
                /\ upload' # v /\ v \notin stored' /\ track'[v] = "none"
                /\ focus' = v => focusGot' \notin {"processing", "failed", "error"}
    BY <1>1 DEF OpenPage, LeavePage, VideosInv, AnnounceInv
  <1> QED BY <1>1, <1>3, <1>4, <1>5, PageKeeps DEF OpenPage, LeavePage, VideosInv, KnownInv, New, Unseen

LEMMA FocusKeeps ==
    ASSUME VideosInv, AskFocus \/ FocusAnswers \/ FocusArrives \/ FocusFails
    PROVE  VideosInv'
  <1>1. CASE AskFocus
    <2>1. VideosTypeOK'
      BY <1>1 DEF AskFocus, VideosInv, VideosTypeOK, videoServer
    <2> QED BY <1>1, <2>1, PageKeeps DEF AskFocus, VideosInv, KnownInv, New, Unseen, AnnounceInv
  <1>2. CASE FocusAnswers
    <2>1. focus \in Videos /\ status[focus] \in {"processing", "published", "failed"}
      BY <1>2 DEF FocusAnswers, VideosInv, VideosTypeOK, KnownInv, New, Unseen
    <2>2. VideosTypeOK'
      BY <1>2, <2>1 DEF FocusAnswers, VideosInv, VideosTypeOK, videoServer, Answers
    <2> QED BY <1>2, <2>1, <2>2, PageKeeps
            DEF FocusAnswers, VideosInv, KnownInv, New, Unseen, AnnounceInv, videoServer
  <1>3. CASE FocusArrives
    <2>1. focus \in Videos
      BY <1>3 DEF FocusArrives, VideosInv, VideosTypeOK, KnownInv, New, Unseen
    <2>2. /\ track' \in [Videos -> {"none", "pending", "failed", "trouble"}]
          /\ stored' \subseteq stored \cup {focus} /\ stored \subseteq stored'
          /\ \A v \in Videos : track'[v] # "none" => v \in stored' \/ track[v] # "none"
          /\ stored' = stored \/ focusGot \in {"processing", "failed"}
      BY <1>3, SyncedShows DEF FocusArrives, VideosInv, VideosTypeOK
    <2>3. VideosTypeOK'
      BY <1>3, <2>1, <2>2 DEF FocusArrives, VideosInv, VideosTypeOK, videoServer
    <2>4. \A v \in Videos : /\ status[v] = "none" => upload' # v
                            /\ (status[v] = "none" \/ upload' = v) =>
                                  focus' # v /\ v \notin stored' /\ track'[v] = "none"
      BY <1>3, <2>2 DEF FocusArrives, VideosInv, KnownInv, New, Unseen
    <2>5. ~overlapped => \A v \in Videos : announced[v] # 0 =>
                upload' # v /\ v \notin stored' /\ track'[v] = "none"
      BY <1>3, <2>2 DEF FocusArrives, VideosInv, AnnounceInv
    <2> QED BY <1>3, <2>2, <2>3, <2>4, <2>5, PageKeeps DEF FocusArrives, videoServer
  <1>4. CASE FocusFails
    <2>1. VideosTypeOK'
      BY <1>4 DEF FocusFails, VideosInv, VideosTypeOK, videoServer
    <2> QED BY <1>4, <2>1, PageKeeps
            DEF FocusFails, VideosInv, KnownInv, New, Unseen, AnnounceInv, videoServer
  <1> QED BY <1>1, <1>2, <1>3, <1>4

LEMMA DropKeeps ==
    ASSUME VideosInv, NEW v \in Videos, Prune(v) \/ Dismiss(v)
    PROVE  VideosInv'
  <1>1. VideosTypeOK'
    BY DEF Prune, Dismiss, VideosInv, VideosTypeOK, videoServer, videoPage
  <1>2. /\ stored' = stored \ {v} /\ dropped' = dropped \cup {v}
        /\ \A u \in Videos : track'[u] = track[u] \/ track'[u] = "none"
        /\ UNCHANGED <<videoServer, upload, focus, focusGot, round, announced, overlapped>>
    BY DEF Prune, Dismiss, VideosInv, VideosTypeOK, videoPage
  <1>3. \A u \in Videos : /\ status[u] = "none" => upload' # u
                          /\ (status[u] = "none" \/ upload' = u) =>
                                focus' # u /\ u \notin stored' /\ track'[u] = "none"
    BY <1>2 DEF VideosInv, KnownInv, New, Unseen
  <1>4. ~overlapped => \A u \in Videos : announced[u] # 0 =>
                /\ upload' # u /\ u \notin stored' /\ track'[u] = "none"
                /\ focus' = u => focusGot' \notin {"processing", "failed", "error"}
    BY <1>2 DEF VideosInv, AnnounceInv
  <1> QED BY <1>1, <1>2, <1>3, <1>4, PageKeeps DEF VideosInv, KnownInv, New, Unseen

----------------------------------------------------------------------------
(* The polls                                                               *)

\* A round that starts with S asks for a video of S, then for the others.
LEMMA Asks ==
    ASSUME NEW S \in SUBSET Videos, NEW r \in Rounding(S)
    PROVE  /\ r \in RoundRecord
           /\ r.at = NoVideo => r = NoRound
           /\ r.at # NoVideo => r.at \in S
           /\ r.todo \subseteq S /\ r.at \notin r.todo
           /\ r.got = "waiting"
  <1>1. CASE S = {}
    BY <1>1 DEF Rounding, NoRound, RoundRecord
  <1>2. CASE S # {}
    <2>1. PICK v \in S : r = [todo |-> S \ {v}, at |-> v, got |-> "waiting"]
      BY <1>2 DEF Rounding
    <2> QED BY <2>1 DEF RoundRecord
  <1> QED BY <1>1, <1>2

\* The effect or the timer starts a round about the tracked videos.
LEMMA RoundKeeps ==
    ASSUME VideosInv, NEW k \in Rounds, NEW r \in Rounding(Tracked),
           UNCHANGED <<videoServer, upload, stored, onPage, focus, focusGot, track, announced,
                       dropped>>,
           polled' \subseteq Videos, overlapped' \in BOOLEAN, overlapped => overlapped',
           round' \in [Rounds -> RoundRecord], round'[k] = r,
           \A j \in Rounds \ {k} : round'[j] \in {round[j], NoRound},
           ~overlapped' => /\ focusGot = "none"
                           /\ \A j \in Rounds \ {k} : round'[j] = NoRound
    PROVE  VideosInv'
  <1>1. Tracked \in SUBSET Videos
    BY DEF Tracked
  <1>2. /\ r \in RoundRecord
        /\ r.at = NoVideo => r = NoRound
        /\ r.at # NoVideo => r.at \in Tracked
        /\ r.todo \subseteq Tracked /\ r.at \notin r.todo /\ r.got = "waiting"
    BY <1>1, Asks
  <1>3. NoRound.at = NoVideo /\ NoRound.todo = {} /\ NoRound.got = "waiting"
    BY DEF NoRound
  <1>4. VideosTypeOK'
    BY DEF VideosInv, VideosTypeOK, videoServer
  <1>5. KnownInv'
    <2>1. ASSUME NEW v \in Videos, New(v), NEW j \in Rounds
          PROVE  round'[j].at # v /\ v \notin round'[j].todo
      <3>1. v # NoVideo /\ v \notin Tracked
        BY <2>1 DEF VideosInv, KnownInv, New, Unseen, Tracked
      <3>2. CASE j = k
        BY <1>2, <3>1, <3>2
      <3>3. CASE j # k
        BY <1>3, <2>1, <3>1, <3>3 DEF VideosInv, KnownInv, New, Unseen
      <3> QED BY <3>2, <3>3
    <2> QED BY <2>1 DEF VideosInv, KnownInv, New, Unseen, videoServer
  <1>6. WorkInv'
    <2>1. \A j \in Rounds : round'[j] = round[j] \/ round'[j].got = "waiting"
      BY <1>2, <1>3
    <2> QED BY <2>1 DEF VideosInv, WorkInv, videoServer, Settled
  <1>7. NothingForgotten'
    BY DEF VideosInv, NothingForgotten, Tracked, videoServer, Settled
  <1>8. AnnounceInv'
    <2>1. \A j \in Rounds : /\ round'[j].at = NoVideo => round'[j] = NoRound
                            /\ round'[j].at \notin round'[j].todo
      <3> SUFFICES ASSUME NEW j \in Rounds
                   PROVE  /\ round'[j].at = NoVideo => round'[j] = NoRound
                          /\ round'[j].at \notin round'[j].todo
        OBVIOUS
      <3>1. CASE j = k
        BY <1>2, <3>1
      <3>2. CASE j # k
        BY <1>3, <3>2 DEF VideosInv, AnnounceInv
      <3> QED BY <3>1, <3>2
    <2>2. ~overlapped' => Rounds \ Idle' \subseteq {k} /\ focusGot' = "none"
      BY DEF Idle
    <2>3. ASSUME ~overlapped', NEW v \in Videos, announced[v] # 0, NEW j \in Rounds
          PROVE  round'[j].at # v /\ v \notin round'[j].todo
      <3>1. v \notin Tracked /\ v # NoVideo
        BY <2>3 DEF VideosInv, AnnounceInv, Tracked
      <3> QED BY <1>2, <1>3, <2>3, <3>1
    <2> QED BY <2>1, <2>2, <2>3 DEF VideosInv, AnnounceInv, videoServer
  <1> QED BY <1>4, <1>5, <1>6, <1>7, <1>8 DEF VideosInv

LEMMA EffectKeeps == ASSUME VideosInv, PollEffect PROVE VideosInv'
  <1>1. PICK k \in Rounds, r \in Rounding(Tracked) :
            round' = [j \in Rounds |-> IF j = k THEN r ELSE NoRound]
    BY DEF PollEffect
  <1>2. r \in RoundRecord /\ NoRound \in RoundRecord /\ Tracked \subseteq Videos
    BY Asks DEF Tracked, NoRound, RoundRecord
  <1>3. round' \in [Rounds -> RoundRecord]
    BY <1>1, <1>2
  <1> QED BY <1>1, <1>2, <1>3, RoundKeeps DEF PollEffect, VideosInv, VideosTypeOK

LEMMA TickKeeps == ASSUME VideosInv, NEW k \in Rounds, PollTick(k) PROVE VideosInv'
  <1>1. PICK r \in Rounding(Tracked) : round' = [round EXCEPT ![k] = r]
    BY DEF PollTick
  <1>2. r \in RoundRecord /\ Tracked \subseteq Videos
    BY Asks DEF Tracked
  <1>3. /\ round' \in [Rounds -> RoundRecord] /\ round'[k] = r
        /\ \A j \in Rounds \ {k} : round'[j] = round[j]
    BY <1>1, <1>2 DEF VideosInv, VideosTypeOK
  <1>4. ~overlapped' => focusGot = "none" /\ Idle = Rounds
    BY DEF PollTick
  <1>5. ~overlapped' => \A j \in Rounds \ {k} : round'[j] = NoRound
    BY <1>3, <1>4 DEF Idle
  <1> QED BY <1>2, <1>3, <1>4, <1>5, RoundKeeps DEF PollTick, VideosInv, VideosTypeOK

LEMMA GetKeeps ==
    ASSUME VideosInv, NEW k \in Rounds, GetVideo(k) \/ GetVideoFails(k)
    PROVE  VideosInv'
  <1>1. round[k] \in RoundRecord /\ round[k].at \in Videos
    BY DEF VideosInv, VideosTypeOK, RoundRecord, GetVideo, GetVideoFails
  <1>2. status[round[k].at] \in {"processing", "published", "failed"}
    BY <1>1 DEF VideosInv, VideosTypeOK, KnownInv, New, Unseen
  <1>3. PICK a \in Answers : /\ round' = [round EXCEPT ![k] = Hearing(round[k], a)]
                             /\ a \in {"error", status[round[k].at]}
    BY <1>2 DEF GetVideo, GetVideoFails, Answers
  <1>4. /\ Hearing(round[k], a) \in RoundRecord
        /\ Hearing(round[k], a).at = round[k].at /\ Hearing(round[k], a).todo = round[k].todo
        /\ Hearing(round[k], a).got = a
    BY <1>1 DEF Hearing, RoundRecord
  <1>5. /\ round' \in [Rounds -> RoundRecord]
        /\ \A j \in Rounds : round'[j].at = round[j].at /\ round'[j].todo = round[j].todo
        /\ \A j \in Rounds \ {k} : round'[j] = round[j]
        /\ round'[k].got = a
    BY <1>3, <1>4 DEF VideosInv, VideosTypeOK
  <1>6. UNCHANGED <<videoServer, upload, stored, onPage, focus, focusGot, track, polled,
                    announced, dropped, overlapped>>
    BY DEF GetVideo, GetVideoFails
  <1>7. VideosTypeOK'
    BY <1>5, <1>6 DEF VideosInv, VideosTypeOK, videoServer
  <1>8. KnownInv' /\ NothingForgotten'
    BY <1>5, <1>6 DEF VideosInv, KnownInv, New, Unseen, NothingForgotten, Tracked, videoServer, Settled
  <1>9. WorkInv'
    <2>1. a \in {"published", "failed"} => Settled(round[k].at) /\ status[round[k].at] = a
      BY <1>3 DEF Settled
    <2> QED BY <1>5, <1>6, <2>1 DEF VideosInv, WorkInv, videoServer, Settled
  <1>10. AnnounceInv'
    <2>1. \A j \in Rounds : round'[j].at = NoVideo => j # k
      BY <1>1, <1>5
    <2>2. round[k] # NoRound
      BY <1>1 DEF NoRound
    <2>3. round'[k] # NoRound
      BY <1>1, <1>5 DEF NoRound
    <2>4. Idle' = Idle
      BY <1>5, <2>2, <2>3 DEF Idle
    <2>5. \A j \in Rounds : /\ round'[j].at = NoVideo => round'[j] = NoRound
                            /\ round'[j].at \notin round'[j].todo
      BY <1>5, <2>1 DEF VideosInv, AnnounceInv
    <2> QED BY <1>5, <1>6, <2>4, <2>5 DEF VideosInv, AnnounceInv, videoServer
  <1> QED BY <1>7, <1>8, <1>9, <1>10 DEF VideosInv

LEMMA HearKeeps == ASSUME VideosInv, NEW k \in Rounds, PollHears(k) PROVE VideosInv'
  <1> DEFINE v == round[k].at
             a == round[k].got
  <1>1. v \in Videos /\ a \in Answers /\ round[k].todo \in SUBSET Videos
    BY DEF PollHears, VideosInv, VideosTypeOK, RoundRecord
  <1>2. /\ a \in {"published", "failed"} => Settled(v)
        /\ a = "published" => status[v] = "published"
    BY <1>1 DEF VideosInv, WorkInv
  <1>3. PICK r \in Rounding(round[k].todo) : round' = [round EXCEPT ![k] = r]
    BY DEF PollHears
  <1>4. /\ r \in RoundRecord
        /\ r.at = NoVideo => r = NoRound
        /\ r.at # NoVideo => r.at \in round[k].todo
        /\ r.todo \subseteq round[k].todo /\ r.at \notin r.todo /\ r.got = "waiting"
    BY <1>1, Asks
  <1>5. /\ round' \in [Rounds -> RoundRecord] /\ round'[k] = r
        /\ \A j \in Rounds \ {k} : round'[j] = round[j]
    BY <1>3, <1>4 DEF VideosInv, VideosTypeOK
  <1>6. /\ stored' = IF Ends(a) THEN stored \ {v} ELSE stored
        /\ UNCHANGED <<videoServer, upload, onPage, focus, focusGot, polled, dropped, overlapped>>
    BY DEF PollHears
  <1>7. /\ track' \in [Videos -> {"none", "pending", "failed", "trouble"}]
        /\ \A u \in Videos \ {v} : track'[u] = track[u]
        /\ track'[v] = Shown(v, a)
        /\ \A u \in Videos : track[u] = "none" => track'[u] = "none"
    BY <1>1 DEF PollHears, VideosInv, VideosTypeOK, Shown
  <1>8. /\ announced' \in [Videos -> 0 .. 2]
        /\ \A u \in Videos \ {v} : announced'[u] = announced[u]
        /\ a # "published" => announced'[v] = announced[v]
        /\ announced[v] = 0 /\ a = "published" => announced'[v] = 1
    BY <1>1 DEF PollHears, VideosInv, VideosTypeOK
  <1>9. VideosTypeOK'
    BY <1>1, <1>5, <1>6, <1>7, <1>8 DEF VideosInv, VideosTypeOK, videoServer
  <1>10. \A j \in Rounds, u \in Videos :
            round[j].at # u /\ u \notin round[j].todo =>
                round'[j].at # u /\ u \notin round'[j].todo
    BY <1>4, <1>5
  <1>11. KnownInv'
    BY <1>6, <1>7, <1>10 DEF VideosInv, KnownInv, New, Unseen, videoServer
  <1>12. WorkInv'
    <2>1. \A j \in Rounds : round'[j] = round[j] \/ round'[j].got = "waiting"
      BY <1>4, <1>5
    <2> QED BY <1>6, <2>1 DEF VideosInv, WorkInv, videoServer, Settled
  <1>13. NothingForgotten'
    BY <1>1, <1>2, <1>6, <1>7 DEF VideosInv, NothingForgotten, Tracked, videoServer, Settled,
       Ends
  <1>14. AnnounceInv'
    <2>1. \A j \in Rounds : /\ round'[j].at = NoVideo => round'[j] = NoRound
                            /\ round'[j].at \notin round'[j].todo
      <3> SUFFICES ASSUME NEW j \in Rounds
                   PROVE  /\ round'[j].at = NoVideo => round'[j] = NoRound
                          /\ round'[j].at \notin round'[j].todo
        OBVIOUS
      <3>1. CASE j = k
        BY <1>4, <1>5, <3>1
      <3>2. CASE j # k
        BY <1>5, <3>2 DEF VideosInv, AnnounceInv
      <3> QED BY <3>1, <3>2
    <2>2. k \notin Idle
      BY <1>1 DEF Idle, NoRound
    <2>3. Rounds \ Idle' \subseteq Rounds \ Idle
      BY <1>5, <2>2 DEF Idle
    <2>4. ASSUME ~overlapped'
          PROVE  focusGot' = "none" /\ \A i, j \in Rounds \ Idle' : i = j
      <3>1. ~overlapped
        BY <1>6, <2>4
      <3>2. focusGot = "none"
        BY <2>2, <3>1 DEF VideosInv, AnnounceInv
      <3> QED BY <1>6, <2>3, <3>1, <3>2 DEF VideosInv, AnnounceInv
    <2>5. ASSUME ~overlapped', NEW u \in Videos, announced'[u] # 0
          PROVE  /\ announced'[u] = 1 /\ status'[u] = "published"
                 /\ upload' # u /\ u \notin stored' /\ track'[u] = "none"
                 /\ \A j \in Rounds : round'[j].at # u /\ u \notin round'[j].todo
      <3>1. ~overlapped
        BY <1>6, <2>5
      <3>2. CASE announced[u] # 0
        <4>1. u # v
          BY <3>1, <3>2 DEF VideosInv, AnnounceInv
        <4>2. announced'[u] = announced[u] /\ status' = status /\ upload' = upload
          BY <1>6, <1>8, <4>1 DEF videoServer
        <4>3. u \notin stored' /\ track'[u] = "none"
          BY <1>6, <1>7, <3>1, <3>2 DEF VideosInv, AnnounceInv
        <4> QED BY <1>10, <3>1, <3>2, <4>2, <4>3 DEF VideosInv, AnnounceInv
      <3>3. CASE announced[u] = 0
        <4>1. u = v /\ a = "published" /\ announced'[u] = 1 /\ status[v] = "published"
          BY <1>2, <1>8, <2>5, <3>3
        <4>2. v \notin stored' /\ track'[v] = "none"
          BY <1>6, <1>7, <4>1 DEF Ends, Shown
        <4>3. v \notin round[k].todo
          BY DEF VideosInv, AnnounceInv
        <4>4. \A j \in Rounds \ {k} : round'[j] = NoRound
          BY <1>5, <2>2, <3>1 DEF VideosInv, AnnounceInv, Idle
        <4>5. \A j \in Rounds : round'[j].at # v /\ v \notin round'[j].todo
          <5>1. v # NoVideo
            BY <1>1
          <5>2. round'[k].at # v /\ v \notin round'[k].todo
            BY <1>4, <1>5, <4>3, <5>1
          <5> QED BY <4>4, <5>1, <5>2 DEF NoRound
        <4>6. upload # v
          BY <1>1 DEF VideosInv, KnownInv, New, Unseen
        <4> QED BY <1>6, <4>1, <4>2, <4>5, <4>6 DEF videoServer
      <3> QED BY <3>2, <3>3
    <2> QED BY <2>1, <2>4, <2>5 DEF AnnounceInv
  <1> QED BY <1>9, <1>11, <1>12, <1>13, <1>14 DEF VideosInv

----------------------------------------------------------------------------
(* The invariant                                                           *)

LEMMA VideosStepInv == VideosInv /\ [VideosNext]_videoVars => VideosInv'
  <1> SUFFICES ASSUME VideosInv, [VideosNext]_videoVars PROVE VideosInv'
    OBVIOUS
  <1>1. CASE UNCHANGED videoVars
    BY <1>1 DEF videoVars, VideosInv, VideosTypeOK, KnownInv, New, Unseen, WorkInv,
                NothingForgotten, AnnounceInv, Tracked, Settled, Idle
  <1>2. CASE VideosNext
    BY <1>2, WorkKeeps, UploadKeeps, OpenKeeps, FocusKeeps, DropKeeps, EffectKeeps,
       TickKeeps, GetKeeps, HearKeeps DEF VideosNext
  <1> QED BY <1>1, <1>2

LEMMA VideosAlways == VideosSpec => []VideosInv
  BY VideosInitInv, VideosStepInv, PTL DEF VideosSpec

----------------------------------------------------------------------------
(* Theorems                                                                *)

\* The state of the pages and of the jobs is well typed; no job is tried more
\* than MaxTries times.
THEOREM VideosTypeCorrect == VideosSpec => []VideosTypeOK
  BY VideosAlways, PTL DEF VideosInv

\* A record is kept until the processing of its video is over.
THEOREM RecordsKept == VideosSpec => []NothingForgotten
  BY VideosAlways, PTL DEF VideosInv

\* Unless requests overlapped, the feed is told of a published video once.
THEOREM AnnouncesOnce == VideosSpec => []AnnouncedOnce
  <1>1. VideosInv => AnnouncedOnce
    BY DEF VideosInv, VideosTypeOK, AnnounceInv, AnnouncedOnce
  <1> QED BY <1>1, VideosAlways, PTL

\* No run of a job takes a publication back.
THEOREM StaysPublished == VideosSpec => PublishedStays
  <1> DEFINE Kept == \A v \in Videos : status[v] = "published" => status'[v] = "published"
  <1>1. VideosInv /\ [VideosNext]_videoVars => [Kept]_videoVars
    <2> SUFFICES ASSUME VideosInv, VideosNext, NEW v \in Videos, status[v] = "published"
                 PROVE  status'[v] = "published"
      OBVIOUS
    <2>1. job[v].pc # "running" /\ status \in [Videos -> {"none", "processing", "published", "failed"}]
      BY DEF VideosInv, VideosTypeOK, WorkInv
    <2> QED BY <2>1 DEF VideosNext, PublishVideo, PublishUnqueued, StartJob, JobCommits, JobEnds,
         JobFails, JobComesBack, GiveUpJob, UploadAccepted, UploadFails, OpenPage, LeavePage,
         AskFocus, FocusAnswers, FocusArrives, FocusFails, Prune, Dismiss, PollEffect,
         PollTick, GetVideo, GetVideoFails, PollHears, videoServer
  <1> QED BY <1>1, VideosAlways, PTL DEF VideosSpec, PublishedStays

=============================================================================
