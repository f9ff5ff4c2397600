------------------------------- MODULE Captures -------------------------------
(***************************************************************************)
(* Screen recordings: the capture rows, their video files, the handlers    *)
(* that finish a capture and the retention sweep that deletes old videos.  *)
(* A handler looks for the file and then writes the row; a sweep works     *)
(* from the rows it listed, removes the file and then clears the row.      *)
(***************************************************************************)
EXTENDS Integers

CONSTANTS Recorded,   \* capture ids
          Finishers,  \* finish requests in flight at once
          NoCapture,
          Windows,    \* what capture_retention_days may be set to
          Oldest      \* bound: days after which ages are not told apart

ASSUME CapturesAssumption ==
    /\ NoCapture \notin Recorded
    /\ Windows \subseteq Int /\ Windows # {}
    /\ Oldest \in Nat /\ \A d \in Windows : d < Oldest

VARIABLES
    capture,   \* [Recorded -> status, and whether video_path is set]
    video,     \* external: [Recorded -> whether the file is there]
    days,      \* [Recorded -> days since created_at]
    window,    \* the setting
    finisher,  \* [Finishers -> the capture whose file it has seen]
    prune      \* the sweep: its place, window, rows to do, row in hand

captureVars == <<capture, video, days, window, finisher, prune>>

NotSweeping == [at |-> "idle", window |-> 0, todo |-> {}, hand |-> NoCapture]

CapturesInit ==
    /\ capture = [c \in Recorded |-> [status |-> "none", path |-> FALSE]]
    /\ video = [c \in Recorded |-> FALSE]
    /\ days = [c \in Recorded |-> 0]
    /\ window \in Windows
    /\ finisher = [f \in Finishers |-> NoCapture]
    /\ prune = NotSweeping

-----------------------------------------------------------------------------
(* The handlers.                                                           *)

CreateCapture ==
    /\ \E c \in Recorded :
        /\ capture[c].status = "none"
        /\ capture' = [capture EXCEPT ![c].status = "processing"]
    /\ UNCHANGED <<video, days, window, finisher, prune>>

\* handleFinishCapture stats the file it was told of; the capture of a request
\* without one is marked failed.  A request may be repeated.
FinishLooks(f) ==
    /\ finisher[f] = NoCapture
    /\ \E c \in Recorded :
        /\ capture[c].status # "none"
        /\ IF video[c]
           THEN finisher' = [finisher EXCEPT ![f] = c] /\ UNCHANGED capture
           ELSE capture' = [capture EXCEPT ![c].status = "failed"] /\ UNCHANGED finisher
    /\ UNCHANGED <<video, days, window, prune>>

FinishCapture(f) ==
    /\ finisher[f] # NoCapture
    /\ capture' = [capture EXCEPT ![finisher[f]] = [status |-> "ready", path |-> TRUE]]
    /\ finisher' = [finisher EXCEPT ![f] = NoCapture]
    /\ UNCHANGED <<video, days, window, prune>>

SetsWindow ==
    /\ window' \in Windows
    /\ UNCHANGED <<capture, video, days, finisher, prune>>

-----------------------------------------------------------------------------
(* SweepOnce.                                                              *)

\* Mistake: a window of zero is a window like any other.
SweepsAlways ==
    /\ prune.at = "idle"
    /\ prune' = [NotSweeping EXCEPT !.at = "next", !.window = window,
                    !.todo = {c \in Recorded : capture[c].path /\ days[c] > window}]
    /\ UNCHANGED <<capture, video, days, window, finisher>>

\* retentionDays, the cutoff and ListCaptures; younger rows are passed over.
SweepLists ==
    /\ prune.at = "idle" /\ window > 0
    /\ prune' = [NotSweeping EXCEPT !.at = "next", !.window = window,
                    !.todo = {c \in Recorded : capture[c].path /\ days[c] > window}]
    /\ UNCHANGED <<capture, video, days, window, finisher>>

Clears(c) == prune' = [prune EXCEPT !.at = "clear", !.hand = c, !.todo = @ \ {c}]
Skips(c) == prune' = [prune EXCEPT !.todo = @ \ {c}]

\* Mistake: a file that is not there is passed over.
SweepRemovesIfThere ==
    /\ prune.at = "next"
    /\ \E c \in prune.todo :
        \/ video[c] /\ Clears(c) /\ video' = [video EXCEPT ![c] = FALSE]
        \/ Skips(c) /\ UNCHANGED video
    /\ UNCHANGED <<capture, days, window, finisher>>

\* A row whose file cannot be removed is passed over; one whose file is gone
\* already is cleared.
SweepRemoves ==
    /\ prune.at = "next"
    /\ \E c \in prune.todo :
        \/ Clears(c) /\ video' = [video EXCEPT ![c] = FALSE]
        \/ video[c] /\ Skips(c) /\ UNCHANGED video
    /\ UNCHANGED <<capture, days, window, finisher>>

\* SetCaptureVideoPath, which the database may refuse.
SweepClears ==
    /\ prune.at = "clear"
    /\ capture' \in {[capture EXCEPT ![prune.hand].path = FALSE], capture}
    /\ prune' = [prune EXCEPT !.at = "next", !.hand = NoCapture]
    /\ UNCHANGED <<video, days, window, finisher>>

SweepEnds ==
    /\ prune.at = "next" /\ prune.todo = {}
    /\ prune' = NotSweeping
    /\ UNCHANGED <<capture, video, days, window, finisher>>

-----------------------------------------------------------------------------
(* The world.                                                              *)

\* External: the recorder writes its file.
VideoWritten ==
    /\ \E c \in Recorded :
        /\ capture[c].status = "processing" /\ ~video[c]
        /\ video' = [video EXCEPT ![c] = TRUE]
    /\ UNCHANGED <<capture, days, window, finisher, prune>>

DayPasses ==
    /\ days' = [c \in Recorded |-> IF capture[c].status # "none" /\ days[c] < Oldest
                                   THEN days[c] + 1 ELSE days[c]]
    /\ UNCHANGED <<capture, video, window, finisher, prune>>

\* A crash; the next daemon sweeps again.
SweepDies ==
    /\ prune.at # "idle" \/ \E f \in Finishers : finisher[f] # NoCapture
    /\ prune' = NotSweeping
    /\ finisher' = [f \in Finishers |-> NoCapture]
    /\ UNCHANGED <<capture, video, days, window>>

CapturesNext ==
    \/ CreateCapture \/ SetsWindow
    \/ \E f \in Finishers : FinishLooks(f) \/ FinishCapture(f)
    \/ SweepLists \/ SweepRemoves \/ SweepClears \/ SweepEnds
    \/ VideoWritten \/ DayPasses \/ SweepDies

CapturesTypeOK ==
    /\ \A c \in Recorded :
        /\ capture[c].status \in {"none", "processing", "ready", "failed"}
        /\ capture[c].path \in BOOLEAN /\ video[c] \in BOOLEAN /\ days[c] \in 0 .. Oldest
    /\ finisher \in [Finishers -> Recorded \cup {NoCapture}]
    /\ prune.at \in {"idle", "next", "clear"} /\ prune.todo \subseteq Recorded
-----------------------------------------------------------------------------
(* What is pruned.                                                         *)

\* A video goes only when it is older than the window that was in force when
\* the sweep began, and never under a window that says to keep everything,
\* whatever is created, finished or set while the sweep is under way.
PrunesOnlyAged ==
    [][\A c \in Recorded : video[c] /\ ~video'[c]
          => 0 < prune.window /\ prune.window < days[c]]_captureVars

\* A row that names a video which is gone is put right by a later sweep, both
\* after a crash between the two steps and after a finish that was repeated
\* while the sweep removed the file it had seen.
PathHeals ==
    \A c \in Recorded :
        (capture[c].path /\ ~video[c] /\ days[c] = Oldest)
            ~> (~capture[c].path \/ window <= 0)
=============================================================================
