----------------------------- MODULE WallInvariant -----------------------------
(***************************************************************************)
(* The inductive invariant of the wall of a tribe: what the cursors, the    *)
(* requests under way and their answers say of one another, beside what     *)
(* the properties of TribeWall say of what is shown.                        *)
(***************************************************************************)
EXTENDS TribeWall

\* The page and the polls; an answer that was not got yet has no rows.
Requests == {wallPage} \cup {poll[k] : k \in Polls}

\* Everything the tab holds was committed.
HoldsCommitted ==
    /\ ToSet(wall) \subseteq committed
    /\ {oldest, latest} \subseteq committed \cup {0}
    /\ \A r \in Requests :
        /\ ToSet(r.rows) \subseteq committed
        /\ {r.cursor, r.next, r.latest} \subseteq committed \cup {0}
        /\ r.pc # "answered" => r.rows = <<>>
    /\ removing.pc # "none" => removing.post \in committed
    /\ removing.pc = "answered" => removing.post \in removed

\* The first page is asked for once, before any poll; a page of older posts goes
\* on from the oldest shown; a poll, from a post that is not older.
CursorsAgree ==
    /\ wallPage.pc \in {"new", "sent", "answered"} /\ wallPage.cursor = 0 =>
        latest = 0 /\ oldest = 0 /\ Polling = {}
    /\ wallPage.pc = "new" => wallPage.cursor = 0
    /\ wallPage.pc \in {"sent", "answered"} /\ wallPage.cursor # 0 => wallPage.cursor = oldest
    /\ wallPage.pc = "answered" =>
        \/ wallPage.next = 0
        \/ wallPage.cursor = 0 /\ wallPage.next <= wallPage.latest
        \/ wallPage.cursor # 0 /\ wallPage.next < wallPage.cursor
    /\ oldest <= latest
    /\ \A k \in Polling :
        /\ poll[k].pc \in {"sent", "answered"}
        /\ poll[k].cursor # 0 /\ oldest <= poll[k].cursor
        /\ poll[k].pc = "answered" => poll[k].cursor <= poll[k].latest

\* No answer holds a post twice.
RowsOnce == \A r \in Requests : IsInjective(r.rows)

\* A post is on the wall twice at most, and once before its own answer arrives.
TwiceAtMost ==
    /\ \A i, j, k \in DOMAIN wall : i < j /\ j < k => ~ (wall[i] = wall[j] /\ wall[j] = wall[k])
    /\ \A i, j \in DOMAIN wall : i # j /\ wall[i] = wall[j] => wall[i] # writing

\* Every post up to the cursor c that the pages have reached is on the wall.
Covered(c) ==
    \A p \in Visible \ late : p <= c /\ (oldest # 0 => p >= oldest) => p \in ToSet(wall)

\* The wall is covered up to its cursor and to those of the polls, and an answer
\* holds what there is between its cursors.
NoHole ==
    /\ latest # 0 => Covered(latest)
    /\ \A k \in Polling :
        /\ Covered(poll[k].cursor)
        /\ poll[k].pc = "answered" =>
            \A p \in Visible \ late :
                poll[k].cursor < p /\ p <= poll[k].latest => p \in ToSet(poll[k].rows)
    /\ wallPage.pc = "answered" =>
        \A p \in Visible \ late :
            /\ p >= wallPage.next
            /\ IF wallPage.cursor = 0 THEN p <= wallPage.latest ELSE p < wallPage.cursor
            => p \in ToSet(wallPage.rows)

\* While nothing overlaps a createPost, its post is nowhere in the tab.
WrittenApart ==
    "create" \notin overlaps =>
        /\ IsInjective(wall)
        /\ writing # 0 => ~ Reading /\ writing \notin ToSet(wall)

\* No answer brings back what was removed with no request under way.
RemovedStaysOut ==
    /\ clean \cap ToSet(wall) = {}
    /\ writing \notin clean
    /\ \A r \in Requests : clean \cap ToSet(r.rows) = {}

Calm == overlaps = {} /\ late = {}

Descending(s) == \A i, j \in DOMAIN s : i < j => s[i] > s[j]
Ascending(s)  == \A i, j \in DOMAIN s : i < j => s[i] < s[j]

\* While nothing overlaps, the wall, the page that goes below it and the delta
\* that goes above it follow one another.
InOrder ==
    Calm =>
        /\ \A i, j \in DOMAIN wall : i < j /\ {wall[i], wall[j]} \subseteq Visible => wall[i] > wall[j]
        /\ \A p \in ToSet(wall) : p >= oldest
        /\ writing # 0 => writing > oldest /\ \A p \in ToSet(wall) : p < writing
        /\ \A k, l \in Polling : k = l
        /\ Descending(wallPage.rows)
        /\ \A p \in ToSet(wallPage.rows) :
            p >= wallPage.next /\ (wallPage.cursor # 0 => p < wallPage.cursor)
        /\ \A k \in Polling :
            poll[k].pc = "answered" =>
                /\ Ascending(poll[k].rows)
                /\ \A p \in ToSet(poll[k].rows) : p > poll[k].cursor
                /\ \A p \in ToSet(wall) \cap Visible :
                    p \in ToSet(poll[k].rows) \/ p <= poll[k].cursor

\* Unless two polls overlapped, the one under way asks for what is newer than the wall.
PollFromCursor ==
    "polls" \notin overlaps =>
        \A k \in Polling : poll[k].cursor = latest /\ \A l \in Polling : k = l

WallInv ==
    /\ WallTypeOK
    /\ HoldsCommitted
    /\ CursorsAgree
    /\ RowsOnce
    /\ TwiceAtMost
    /\ NoHole
    /\ WrittenApart
    /\ RemovedStaysOut
    /\ InOrder

CursorInv == WallInv /\ PollFromCursor
=============================================================================
