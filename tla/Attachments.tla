---------------------------- MODULE Attachments -----------------------------
(***************************************************************************)
(* The attachments of one order: a row in the database and a file on disk, *)
(* written by requests that may meet each other, fail or die in between.   *)
(***************************************************************************)
EXTENDS Naturals, FiniteSets

CONSTANTS
    Keys,    \* the uuid of each upload: no two share one
    Desks    \* each with at most one request in flight

ASSUME AttachmentsAssumption == IsFiniteSet(Keys)

VARIABLES
    rows,       \* keys with a committed row
    files,      \* keys with a file
    used,       \* keys already drawn
    terminal,   \* whether the order is finished, dispatched or cancelled
    desk,       \* per desk, the request in flight
    orphaned    \* keys whose file a dead request left behind

attachmentVars == <<rows, files, used, terminal, desk, orphaned>>

-----------------------------------------------------------------------------
Free == [step |-> "none"]

Becomes(d, r) == desk' = [desk EXCEPT ![d] = r]

DeskIs(d, step) == desk[d].step = step

\* add_attachment: _editable_order, then the file, then the row.
LoadForUpload(d, k) ==
    /\ DeskIs(d, "none")
    /\ ~terminal
    /\ k \notin used
    /\ used' = used \union {k}
    /\ Becomes(d, [step |-> "save", key |-> k])
    /\ UNCHANGED <<rows, files, terminal, orphaned>>

SaveFile(d) ==
    /\ DeskIs(d, "save")
    /\ files' = files \union {desk[d].key}
    /\ Becomes(d, [desk[d] EXCEPT !.step = "insert"])
    /\ UNCHANGED <<rows, used, terminal, orphaned>>

CommitRow(d) ==
    /\ DeskIs(d, "insert")
    /\ rows' = rows \union {desk[d].key}
    /\ Becomes(d, Free)
    /\ UNCHANGED <<files, used, terminal, orphaned>>

\* Mistake: a failed commit leaves the file.
Nothing(d) == {}

Undone(d) == {desk[d].key}

FailRow(d) ==
    /\ DeskIs(d, "insert")
    /\ files' = files \ Undone(d)
    /\ Becomes(d, Free)
    /\ UNCHANGED <<rows, used, terminal, orphaned>>

\* delete_attachment: the row first, then the file. Two that loaded the same
\* row both go through: the second DELETE matches nothing.
LoadForDelete(d, k) ==
    /\ DeskIs(d, "none")
    /\ ~terminal
    /\ k \in rows
    /\ Becomes(d, [step |-> "delete", key |-> k])
    /\ UNCHANGED <<rows, files, used, terminal, orphaned>>

RowGoesFirst(d) == rows' = rows \ {desk[d].key} /\ files' = files

DeleteRow(d) ==
    /\ DeskIs(d, "delete")
    /\ RowGoesFirst(d)
    /\ Becomes(d, [desk[d] EXCEPT !.step = "remove"])
    /\ UNCHANGED <<used, terminal, orphaned>>

RemoveFile(d) ==
    /\ DeskIs(d, "remove")
    /\ files' = files \ {desk[d].key}
    /\ Becomes(d, Free)
    /\ UNCHANGED <<rows, used, terminal, orphaned>>

\* The process dies: what is on disk and committed stays.
Abandon(d) ==
    /\ ~DeskIs(d, "none")
    /\ orphaned' = orphaned \union
           IF desk[d].step \in {"insert", "remove"} THEN {desk[d].key} ELSE {}
    /\ Becomes(d, Free)
    /\ UNCHANGED <<rows, files, used, terminal>>

OrderEnds ==
    /\ ~terminal
    /\ terminal' = TRUE
    /\ UNCHANGED <<rows, files, used, desk, orphaned>>

-----------------------------------------------------------------------------
AttachmentsInit ==
    /\ rows = {} /\ files = {} /\ used = {} /\ orphaned = {}
    /\ terminal = FALSE
    /\ desk = [d \in Desks |-> Free]

AttachmentsNext ==
    \/ \E d \in Desks :
          \/ \E k \in Keys : LoadForUpload(d, k) \/ LoadForDelete(d, k)
          \/ SaveFile(d) \/ CommitRow(d) \/ FailRow(d)
          \/ DeleteRow(d) \/ RemoveFile(d) \/ Abandon(d)
    \/ OrderEnds

AttachmentsSpec == AttachmentsInit /\ [][AttachmentsNext]_attachmentVars

-----------------------------------------------------------------------------
DeskRequests == {Free} \union [step : {"save", "insert", "delete", "remove"}, key : Keys]

AttachmentsTyped ==
    /\ rows \subseteq Keys /\ files \subseteq Keys
    /\ used \subseteq Keys /\ orphaned \subseteq Keys
    /\ terminal \in BOOLEAN
    /\ desk \in [Desks -> DeskRequests]

\* "A dangling row is worse than a dangling file" and "never leave an orphan
\* file": a row always has its file, whatever dies where; a file without a row
\* belongs to a request under way or was left by one that died. (Two deletions
\* of one attachment leave nothing behind, even when one of them dies.)
FilesFollowRows ==
    /\ rows \subseteq files
    /\ \A k \in files \ rows :
          k \in orphaned \/ \E d \in Desks : ~DeskIs(d, "none") /\ desk[d].key = k

=============================================================================
