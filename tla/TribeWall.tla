------------------------------- MODULE TribeWall -------------------------------
(***************************************************************************)
(* The wall of a tribe in a browser tab (useTribeWall): pages of posts that *)
(* go back in time, a poll that looks for newer ones, and what the member   *)
(* writes or removes, against the service of the tribe.                     *)
(*                                                                         *)
(* A post is named by its created_at, which PostgreSQL sets when the        *)
(* transaction of its author begins: several may be open at a time, and     *)
(* others see it when its transaction commits.  The member's posts are      *)
(* written by the same service as those of the others.                      *)
(***************************************************************************)
EXTENDS Naturals, FiniteSets, Sequences, SequencesExt

CONSTANTS
    MaxPosts,       \* bound: posts of a behaviour
    WallPageSize,   \* PAGE_SIZE
    SinceLimit,     \* _SINCE_LIMIT
    Polls           \* polls that may be under way together

ASSUME TribeWallAssumption ==
    /\ MaxPosts \in Nat
    /\ WallPageSize \in Nat \ {0}
    /\ SinceLimit \in Nat \ {0}

VARIABLES
    begun,      \* posts whose transaction began
    committed,  \* posts that were committed
    removed,    \* posts with is_active = False
    wall,       \* items: newest first, in what the tab shows
    oldest,     \* nextCursor (0: null)
    latest,     \* latestCursorRef (0: null)
    wallPage,   \* the request of a page: pc, its cursor (0: none) and answer
    poll,       \* poll[k]: the poll k, in the same way
    writing,    \* the post of the createPost under way, or 0
    removing,   \* the deletePost under way: pc and its post
    late,       \* history: posts committed after a newer one
    clean,      \* history: posts the tab removed with no request under way
    overlaps    \* history: kinds of requests that overlapped

wallVars == <<begun, committed, removed, wall, oldest, latest, wallPage, poll,
              writing, removing, late, clean, overlaps>>

wallServer == <<begun, committed, removed>>
wallShown  == <<wall, oldest, latest>>

Posts   == 1 .. MaxPosts
Visible == committed \ removed

NoRequest == [pc |-> "none", cursor |-> 0, rows |-> <<>>, next |-> 0, latest |-> 0]
Asking(c) == [NoRequest EXCEPT !.pc = "sent", !.cursor = c]
NoRemoval == [pc |-> "none", post |-> 0]

Request == [pc : {"new", "none", "sent", "answered"}, cursor : 0 .. MaxPosts,
            rows : Seq(Posts), next : 0 .. MaxPosts, latest : 0 .. MaxPosts]

WallTypeOK ==
    /\ begun \in 0 .. MaxPosts
    /\ committed \subseteq 1 .. begun /\ removed \subseteq committed
    /\ wall \in Seq(Posts) /\ Len(wall) <= 2 * MaxPosts
    /\ oldest \in 0 .. MaxPosts /\ latest \in 0 .. MaxPosts
    /\ wallPage \in Request
    /\ poll \in [Polls -> Request]
    /\ writing \in 0 .. begun
    /\ removing \in [pc : {"none", "sent", "answered"}, post : 0 .. MaxPosts]
    /\ late \subseteq committed /\ clean \subseteq removed
    /\ overlaps \subseteq {"create", "polls", "cap"}

WallInit ==
    /\ begun = 0
    /\ committed = {}
    /\ removed = {}
    /\ wall = <<>>
    /\ oldest = 0
    /\ latest = 0
    /\ wallPage = [NoRequest EXCEPT !.pc = "new"]
    /\ poll = [k \in Polls |-> NoRequest]
    /\ writing = 0
    /\ removing = NoRemoval
    /\ late = {}
    /\ clean = {}
    /\ overlaps = {}

Polling == {k \in Polls : poll[k].pc # "none"}
Reading == wallPage.pc \in {"sent", "answered"} \/ Polling # {}

-----------------------------------------------------------------------------
(* The service                                                             *)

Newest(S, n) == {p \in S : Cardinality({q \in S : q > p}) < n}
Oldest(S, n) == {p \in S : Cardinality({q \in S : q < p}) < n}

\* The k-th of S is the one with k - 1 older ones: no sort, which is recursive in
\* the library and could not be reasoned about.
OldestFirstSeq(S) ==
    [k \in 1 .. Cardinality(S) |-> CHOOSE p \in S : Cardinality({q \in S : q < p}) = k - 1]
NewestFirstSeq(S) == Reverse(OldestFirstSeq(S))

\* The transaction of another member begins.
BeginPost ==
    /\ begun < MaxPosts
    /\ begun' = begun + 1
    /\ UNCHANGED <<committed, removed, wallShown, wallPage, poll, writing, removing,
                   late, clean, overlaps>>

CommitPost(p) ==
    /\ p \in 1 .. begun /\ p \notin committed
    /\ committed' = committed \cup {p}
    /\ late' = IF \E q \in committed : q > p THEN late \cup {p} ELSE late
    /\ UNCHANGED <<begun, removed, wallShown, wallPage, poll, writing, removing, clean, overlaps>>

\* A moderator removes a post from elsewhere.
ModeratePost(p) ==
    /\ p \in Visible
    /\ removed' = removed \cup {p}
    /\ UNCHANGED <<begun, committed, wallShown, wallPage, poll, writing, removing,
                   late, clean, overlaps>>

\* Faulty: the page does not look at is_active.
ListAllPosts ==
    LET from == {p \in committed : wallPage.cursor # 0 => p < wallPage.cursor}
        page == Newest(from, WallPageSize)
        rows == NewestFirstSeq(page) IN
    /\ wallPage.pc = "sent"
    /\ wallPage' = [wallPage EXCEPT
            !.pc = "answered", !.rows = rows,
            !.next = IF page # from THEN rows[Len(rows)] ELSE 0,
            !.latest = IF rows # <<>> THEN rows[1] ELSE 0]
    /\ UNCHANGED <<wallServer, wallShown, poll, writing, removing, late, clean, overlaps>>

\* list_posts: next_cursor when there is more, latest_cursor of the page.
ListPosts ==
    LET from == {p \in Visible : wallPage.cursor # 0 => p < wallPage.cursor}
        page == Newest(from, WallPageSize)
        rows == NewestFirstSeq(page) IN
    /\ wallPage.pc = "sent"
    /\ wallPage' = [wallPage EXCEPT
            !.pc = "answered", !.rows = rows,
            !.next = IF page # from THEN rows[Len(rows)] ELSE 0,
            !.latest = IF rows # <<>> THEN rows[1] ELSE 0]
    /\ UNCHANGED <<wallServer, wallShown, poll, writing, removing, late, clean, overlaps>>

\* Faulty: the delta is capped from its newest end.
ListPostsSinceNewest(k) ==
    LET newer == {p \in Visible : p > poll[k].cursor}
        delta == Newest(newer, SinceLimit)
        rows == OldestFirstSeq(delta) IN
    /\ poll[k].pc = "sent"
    /\ poll' = [poll EXCEPT ![k] = [@ EXCEPT
            !.pc = "answered", !.rows = rows,
            !.latest = IF rows # <<>> THEN rows[Len(rows)] ELSE poll[k].cursor]]
    /\ overlaps' = IF delta # newer THEN overlaps \cup {"cap"} ELSE overlaps
    /\ UNCHANGED <<wallServer, wallShown, wallPage, writing, removing, late, clean>>

\* list_posts_since: the oldest of the newer ones, and how far they go.
ListPostsSince(k) ==
    LET newer == {p \in Visible : p > poll[k].cursor}
        delta == Oldest(newer, SinceLimit)
        rows == OldestFirstSeq(delta) IN
    /\ poll[k].pc = "sent"
    /\ poll' = [poll EXCEPT ![k] = [@ EXCEPT
            !.pc = "answered", !.rows = rows,
            !.latest = IF rows # <<>> THEN rows[Len(rows)] ELSE poll[k].cursor]]
    /\ overlaps' = IF delta # newer THEN overlaps \cup {"cap"} ELSE overlaps
    /\ UNCHANGED <<wallServer, wallShown, wallPage, writing, removing, late, clean>>

-----------------------------------------------------------------------------
(* loadPage, refresh, loadMore, poll                                       *)

\* Faulty: the answers are put end to end.
AppendFeedItems(existing, incoming) == existing \o incoming

\* What filter and the loop of mergeFeedItems keep of s: its places in K.
Kept(s, K) == LET place == OldestFirstSeq(K) IN [k \in DOMAIN place |-> s[place[k]]]

\* mergeFeedItems: what is there stays, what is new follows, each of it once.
MergeFeedItems(existing, incoming) ==
    existing \o Kept(incoming, {i \in DOMAIN incoming :
                                   /\ incoming[i] \notin ToSet(existing)
                                   /\ \A j \in 1 .. (i - 1) : incoming[j] # incoming[i]})

\* The effect of the page, once: refresh.
LoadWall ==
    /\ wallPage.pc = "new"
    /\ wallPage' = Asking(0)
    /\ overlaps' = IF writing # 0 THEN overlaps \cup {"create"} ELSE overlaps
    /\ UNCHANGED <<wallServer, wallShown, poll, writing, removing, late, clean>>

LoadOlder ==
    /\ wallPage.pc = "none"
    /\ oldest # 0
    /\ wallPage' = Asking(oldest)
    /\ overlaps' = IF writing # 0 THEN overlaps \cup {"create"} ELSE overlaps
    /\ UNCHANGED <<wallServer, wallShown, poll, writing, removing, late, clean>>

\* Faulty: a page of older posts gives the cursor of the polls.
PageArrivesAnyMode ==
    /\ wallPage.pc = "answered"
    /\ wall' = IF wallPage.cursor = 0 THEN wallPage.rows ELSE MergeFeedItems(wall, wallPage.rows)
    /\ latest' = wallPage.latest
    /\ oldest' = wallPage.next
    /\ wallPage' = NoRequest
    /\ UNCHANGED <<wallServer, poll, writing, removing, late, clean, overlaps>>

PageArrives ==
    /\ wallPage.pc = "answered"
    /\ \/ /\ wallPage.cursor = 0
          /\ wall' = wallPage.rows
          /\ latest' = wallPage.latest
       \/ /\ wallPage.cursor # 0
          /\ wall' = MergeFeedItems(wall, wallPage.rows)
          /\ UNCHANGED latest
    /\ oldest' = wallPage.next
    /\ wallPage' = NoRequest
    /\ UNCHANGED <<wallServer, poll, writing, removing, late, clean, overlaps>>

PageFails ==
    /\ wallPage.pc \in {"sent", "answered"}
    /\ wallPage' = NoRequest
    /\ UNCHANGED <<wallServer, wallShown, poll, writing, removing, late, clean, overlaps>>

\* The timer ticks, or the tab is visible again.
PollWall(k) ==
    /\ poll[k].pc = "none"
    /\ latest # 0
    /\ poll' = [poll EXCEPT ![k] = Asking(latest)]
    /\ overlaps' = overlaps \cup (IF Polling # {} THEN {"polls"} ELSE {})
                            \cup (IF writing # 0 THEN {"create"} ELSE {})
    /\ UNCHANGED <<wallServer, wallShown, wallPage, writing, removing, late, clean>>

\* Faulty: the delta goes below the wall, as a page does.
PollArrivesBelow(k) ==
    /\ poll[k].pc = "answered"
    /\ wall' = IF poll[k].rows # <<>> THEN MergeFeedItems(wall, Reverse(poll[k].rows)) ELSE wall
    /\ latest' = IF poll[k].latest # 0 THEN poll[k].latest ELSE latest
    /\ poll' = [poll EXCEPT ![k] = NoRequest]
    /\ UNCHANGED <<wallServer, oldest, wallPage, writing, removing, late, clean, overlaps>>

PollArrives(k) ==
    /\ poll[k].pc = "answered"
    /\ wall' = IF poll[k].rows # <<>> THEN MergeFeedItems(Reverse(poll[k].rows), wall) ELSE wall
    /\ latest' = IF poll[k].latest # 0 THEN poll[k].latest ELSE latest
    /\ poll' = [poll EXCEPT ![k] = NoRequest]
    /\ UNCHANGED <<wallServer, oldest, wallPage, writing, removing, late, clean, overlaps>>

PollFails(k) ==
    /\ poll[k].pc # "none"
    /\ poll' = [poll EXCEPT ![k] = NoRequest]
    /\ UNCHANGED <<wallServer, wallShown, wallPage, writing, removing, late, clean, overlaps>>

-----------------------------------------------------------------------------
(* createPost, deletePost                                                  *)

\* create_post: its transaction begins; CommitPost ends it.
WritePost ==
    /\ writing = 0
    /\ begun < MaxPosts
    /\ begun' = begun + 1
    /\ writing' = begun + 1
    /\ overlaps' = IF Reading THEN overlaps \cup {"create"} ELSE overlaps
    /\ UNCHANGED <<committed, removed, wallShown, wallPage, poll, removing, late, clean>>

PostArrives ==
    /\ writing \in committed
    /\ wall' = <<writing>> \o wall
    /\ writing' = 0
    /\ UNCHANGED <<wallServer, oldest, latest, wallPage, poll, removing, late, clean, overlaps>>

\* Refused by the cooldown, or no answer, whether the post is kept or not.
PostFails ==
    /\ writing # 0
    /\ writing' = 0
    /\ UNCHANGED <<wallServer, wallShown, wallPage, poll, removing, late, clean, overlaps>>

RemovePost(p) ==
    /\ removing.pc = "none"
    /\ p \in ToSet(wall)
    /\ removing' = [pc |-> "sent", post |-> p]
    /\ UNCHANGED <<wallServer, wallShown, wallPage, poll, writing, late, clean, overlaps>>

SoftDeletePost ==
    /\ removing.pc = "sent"
    /\ removing.post \notin removed
    /\ removed' = removed \cup {removing.post}
    /\ removing' = [removing EXCEPT !.pc = "answered"]
    /\ UNCHANGED <<begun, committed, wallShown, wallPage, poll, writing, late, clean, overlaps>>

RemovalArrives ==
    /\ removing.pc = "answered"
    /\ wall' = Kept(wall, {i \in DOMAIN wall : wall[i] # removing.post})
    /\ clean' = IF Reading \/ writing # 0 THEN clean ELSE clean \cup {removing.post}
    /\ removing' = NoRemoval
    /\ UNCHANGED <<wallServer, oldest, latest, wallPage, poll, writing, late, overlaps>>

RemovalFails ==
    /\ removing.pc # "none"
    /\ removing' = NoRemoval
    /\ UNCHANGED <<wallServer, wallShown, wallPage, poll, writing, late, clean, overlaps>>

WallNext ==
    \/ BeginPost
    \/ \E p \in Posts : CommitPost(p) \/ ModeratePost(p)
    \/ ListPosts \/ \E k \in Polls : ListPostsSince(k)
    \/ LoadWall \/ LoadOlder \/ PageArrives \/ PageFails
    \/ \E k \in Polls : PollWall(k) \/ PollArrives(k) \/ PollFails(k)
    \/ WritePost \/ PostArrives \/ PostFails
    \/ \E p \in Posts : RemovePost(p)
    \/ SoftDeletePost \/ RemovalArrives \/ RemovalFails

WallSpec == WallInit /\ [][WallNext]_wallVars

-----------------------------------------------------------------------------
(* Properties                                                              *)

\* The pages and the polls leave no hole: between the cursor of the older posts
\* and that of the newer ones, every post is shown, except those whose
\* transaction ended after that of a newer one.
NoPostMissed ==
    latest # 0 =>
        \A p \in Visible \ late : p <= latest /\ (oldest # 0 => p >= oldest) => p \in ToSet(wall)

\* A post is shown once, unless the tab was writing one while it read the wall.
OncePerPost == "create" \notin overlaps => IsInjective(wall)

\* What is still there of the wall is ordered, the newest first, unless the tab
\* was writing while it read, two polls overlapped, or a poll was too far behind
\* for one answer.
NewestFirst ==
    overlaps = {} /\ late = {} =>
        \A i, j \in DOMAIN wall : i < j /\ {wall[i], wall[j]} \subseteq Visible => wall[i] > wall[j]

\* The cursors of a wall only move apart: to newer posts, unless two polls
\* overlapped, and to older ones, so that no step asks again for what was got.
CursorsMoveApart ==
    [][latest # 0 => oldest' <= oldest /\ ("polls" \notin overlaps => latest <= latest')]_wallVars

\* What the tab removed while it was reading nothing does not come back.
RemovedForGood == clean \cap ToSet(wall) = {}

\* Refuted: polling is "gap-free".
GapFree ==
    latest # 0 =>
        \A p \in Visible : p <= latest /\ (oldest # 0 => p >= oldest) => p \in ToSet(wall)
=============================================================================
