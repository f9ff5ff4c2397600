------------------------------ MODULE Worktree ------------------------------
(***************************************************************************)
(* internal/git and its callers: the worktree and the branch of one task   *)
(* on a repository.  Every run ends in "checkpoint, then remove": inside   *)
(* the worker if it was interrupted, in a goroutine of its own after a     *)
(* success and after the user files the task away; `burnrate recover` does *)
(* the same from another process.  A branch is the set of edits committed  *)
(* on it, so that "is ancestor of" is set inclusion.                       *)
(***************************************************************************)
EXTENDS FiniteSets

CONSTANTS Edits,      \* bound: changes agents make, each once
          Cleaners,   \* bound: clean-up goroutines alive at once
          Recovers,   \* whether `burnrate recover` may be run
          Faults      \* of {"commit", "push"}: what git may fail at

ASSUME WorktreeAssumption ==
    IsFiniteSet(Edits) /\ Recovers \in BOOLEAN /\ Faults \subseteq {"commit", "push"}

VARIABLES
    tree,      \* the directory task-N: whether it is there, its uncommitted edits
    branch,    \* the local branch, checked out in the tree
    origin,    \* external: the branch at the remote
    task,      \* what the task's next run does: "fresh", "resume", or "rest"
    run,       \* the worker: "none", "new" or "from" (git worktree add), "ready",
               \* "in", "checkpoint", "remove"
    cleaner,   \* [Cleaners -> "none", "decided", "checkpoint", "remove"]
    sweep,     \* recover: "none", "checkpoint", "remove"
    made,      \* edits made so far
    saved,     \* ghost: what the interrupted run had in its tree
    kept,      \* ghost: edits a failed commit or a death has left in this tree
    overlap    \* ghost: a run was set up while a clean-up was under way

repo == <<tree, branch, origin, kept>>
actors == <<task, run, cleaner, sweep>>
wtGhosts == <<made, saved, overlap>>
wtVars == <<repo, actors, wtGhosts>>

NoTree == [there |-> FALSE, dirty |-> {}]
CleanTree == [there |-> TRUE, dirty |-> {}]
NoBranch == [there |-> FALSE, tip |-> {}]
At(tip) == [there |-> TRUE, tip |-> tip]

WtInit ==
    /\ tree = NoTree /\ branch = NoBranch /\ origin = NoBranch
    /\ task = "fresh" /\ run = "none" /\ sweep = "none"
    /\ cleaner = [c \in Cleaners |-> "none"]
    /\ made = {} /\ saved = {} /\ kept = {} /\ overlap = FALSE

Content == branch.tip \cup tree.dirty
CleaningUp == sweep # "none" \/ \E c \in Cleaners : cleaner[c] # "none"

\* git worktree add is under way; Setup: the run has no row yet.
Adding == {"new", "from"}
Setup == Adding \cup {"ready"}

-----------------------------------------------------------------------------
(* git.go, as its callers see it.                                          *)

\* External: a push is refused unless it is a fast-forward.
PushTo(tip) ==
    \/ origin.tip \subseteq tip /\ origin' = At(tip)
    \/ (origin.tip \subseteq tip => "push" \in Faults) /\ UNCHANGED origin

\* Checkpoint commits what is there, or reports that it could not; whether the
\* push went through it does not ask.
CheckpointSaves ==
    /\ tree' = CleanTree
    /\ branch' = At(Content) /\ kept' = {}
    /\ PushTo(Content)

CheckpointFails ==
    /\ "commit" \in Faults
    /\ tree.dirty # {}
    /\ kept' = tree.dirty
    /\ UNCHANGED <<tree, branch, origin>>

RemoveWorktree == tree' = NoTree /\ kept' = {} /\ UNCHANGED <<branch, origin>>

-----------------------------------------------------------------------------
(* The worker.                                                             *)

Begins(place) ==
    /\ run = "none"
    /\ run' = place
    /\ overlap' = CleaningUp
    /\ UNCHANGED <<repo, task, cleaner, sweep, made>>

\* On a new branch, or for a follow-up on the one at the remote.
FreshRun ==
    /\ task = "fresh"
    /\ \E place \in Adding : Begins(place) /\ (place = "from" => origin.there)
    /\ saved' = {}

ResumedRun ==
    /\ task = "resume"
    /\ Begins(IF tree.there THEN "ready" ELSE "from")
    /\ UNCHANGED saved

\* A worktree in the way is removed by force, whatever is in it ...
ClearsTree ==
    /\ run \in Adding /\ tree.there
    /\ RemoveWorktree
    /\ UNCHANGED <<actors, wtGhosts>>

\* ... and so is the local branch, pushed or not.
ClearsBranch ==
    /\ run \in Adding /\ ~tree.there /\ branch.there
    /\ branch' = NoBranch
    /\ UNCHANGED <<tree, origin, kept, actors, wtGhosts>>

\* With the local branch deleted, what a follow-up or a resume checks out is the
\* remote's.
Adds ==
    /\ run \in Adding /\ ~tree.there /\ ~branch.there
    /\ tree' = CleanTree
    /\ \/ run = "new" /\ branch' = At({})
       \/ run = "from" /\ origin.there /\ branch' = origin
    /\ run' = "ready"
    /\ UNCHANGED <<origin, kept, task, cleaner, sweep, wtGhosts>>

\* git fails, or the run's context is cancelled, before or after the clearing:
\* the task is queued again without a session, or its attempts are used up.
AddFails ==
    /\ run \in Adding
    /\ run' = "none" /\ task' \in {"fresh", "rest"}
    /\ UNCHANGED <<repo, cleaner, sweep, wtGhosts>>

CreatesRun ==
    /\ run = "ready" /\ run' = "in"
    /\ UNCHANGED <<repo, task, cleaner, sweep, wtGhosts>>

\* External: the agent edits, commits and pushes in its tree.
AgentEdits ==
    /\ run = "in" /\ tree.there
    /\ \E e \in Edits \ made :
        /\ tree' = [tree EXCEPT !.dirty = @ \cup {e}]
        /\ made' = made \cup {e}
    /\ UNCHANGED <<branch, origin, kept, actors, saved, overlap>>

AgentPushes ==
    /\ run = "in" /\ tree.there
    /\ CheckpointSaves
    /\ UNCHANGED <<actors, wtGhosts>>

\* A success leaves the clean-up to a goroutine; without a pull request in its
\* output the branch is pushed first.
Succeeds ==
    /\ run = "in"
    /\ \/ UNCHANGED repo
       \/ branch.there /\ PushTo(branch.tip) /\ UNCHANGED <<tree, branch, kept>>
    /\ \E c \in Cleaners :
        cleaner[c] = "none" /\ cleaner' = [cleaner EXCEPT ![c] = "checkpoint"]
    /\ run' = "none" /\ task' = "rest"
    /\ saved' = {}
    /\ UNCHANGED <<sweep, made, overlap>>

\* Cancelled, suspended, out of time or failed: the task's status is set, and
\* the worker tears the workspace down before it leaves.
Interrupted ==
    /\ run = "in"
    /\ run' = IF tree.there THEN "checkpoint" ELSE "none"
    /\ task' \in {"fresh", "resume"}
    /\ saved' = IF tree.there THEN Content ELSE {}
    /\ UNCHANGED <<repo, cleaner, sweep, made, overlap>>

\* A crash leaves the tree as it is; so does an exit whose context is gone.
\* Goroutines of the daemon go with it, not the recover command.
DaemonDies ==
    /\ run # "none" \/ \E c \in Cleaners : cleaner[c] # "none"
    /\ run' = "none"
    /\ cleaner' = [c \in Cleaners |-> "none"]
    /\ IF run = "in"
       THEN task' \in {"fresh", "resume"} /\ saved' = IF tree.there THEN Content ELSE {}
       ELSE UNCHANGED <<task, saved>>
    /\ kept' = tree.dirty
    /\ UNCHANGED <<tree, branch, origin, sweep, made, overlap>>

\* A comment or a change of status sets a task at rest going again.
Requeued ==
    /\ run = "none" /\ task = "rest"
    /\ task' \in {"fresh", "resume"}
    /\ UNCHANGED <<repo, run, cleaner, sweep, wtGhosts>>

-----------------------------------------------------------------------------
(* CheckpointAndRemove, one half after the other.                          *)

\* Mistake: a failed checkpoint is logged and the tree removed.
CheckpointOrRemove(at, next) ==
    /\ at = "checkpoint"
    /\ \/ ~tree.there /\ next = "none" /\ UNCHANGED repo
       \/ tree.there /\ next = "remove" /\ (CheckpointSaves \/ CheckpointFails)

\* A tree whose changes could not be committed is kept.
CheckpointOrKeep(at, next) ==
    /\ at = "checkpoint"
    /\ \/ ~tree.there /\ next = "none" /\ UNCHANGED repo
       \/ tree.there /\ next = "remove" /\ CheckpointSaves
       \/ tree.there /\ next = "none" /\ CheckpointFails

ThenRemove(at, next) == at = "remove" /\ next = "none" /\ RemoveWorktree

CleanUp(at, next) == CheckpointOrKeep(at, next) \/ ThenRemove(at, next)

WorkerSettles ==
    /\ CleanUp(run, run')
    /\ UNCHANGED <<task, cleaner, sweep, wtGhosts>>

CleanerCleans ==
    /\ \E c \in Cleaners : \E next \in {"remove", "none"} :
        CleanUp(cleaner[c], next) /\ cleaner' = [cleaner EXCEPT ![c] = next]
    /\ UNCHANGED <<task, run, sweep, wtGhosts>>

\* Mistake: the handler does not ask whether the task runs.
FilingAnytime ==
    /\ \E c \in Cleaners :
        cleaner[c] = "none" /\ cleaner' = [cleaner EXCEPT ![c] = "decided"]
    /\ UNCHANGED <<repo, task, run, sweep, wtGhosts>>

\* The task is to be done, dismissed, deleted or failed: it was not running when
\* the handler, or the plan, asked.
FilingDecided ==
    /\ run = "none"
    /\ \E c \in Cleaners :
        cleaner[c] = "none" /\ cleaner' = [cleaner EXCEPT ![c] = "decided"]
    /\ UNCHANGED <<repo, task, run, sweep, wtGhosts>>

\* Nobody asks again before the clean-up is started and the status written.
Filed ==
    /\ \E c \in Cleaners :
        cleaner[c] = "decided" /\ cleaner' = [cleaner EXCEPT ![c] = "checkpoint"]
    /\ task' = "rest"
    /\ UNCHANGED <<repo, run, sweep, wtGhosts>>

\* `burnrate recover` spares the trees of the runs it finds active, then works
\* through the others; it removes a tree whether the checkpoint failed or not.
\* Before that it pushes the branches of interrupted runs.
RecoverLists ==
    /\ Recovers /\ sweep = "none"
    /\ run # "in" /\ tree.there
    /\ sweep' = "checkpoint"
    /\ \/ UNCHANGED repo
       \/ branch.there /\ PushTo(branch.tip) /\ UNCHANGED <<tree, branch, kept>>
    /\ overlap' = (overlap \/ run \in Setup)
    /\ UNCHANGED <<task, run, cleaner, made, saved>>

RecoverCleans ==
    /\ CheckpointOrRemove(sweep, sweep') \/ ThenRemove(sweep, sweep')
    /\ UNCHANGED <<task, run, cleaner, wtGhosts>>

WtNext ==
    \/ FreshRun \/ ResumedRun \/ ClearsTree \/ ClearsBranch \/ Adds \/ AddFails
    \/ CreatesRun \/ AgentEdits \/ AgentPushes
    \/ Succeeds \/ Interrupted \/ DaemonDies \/ Requeued
    \/ WorkerSettles \/ CleanerCleans \/ FilingDecided \/ Filed
    \/ RecoverLists \/ RecoverCleans

WtPlaces == {"none", "checkpoint", "remove"}

WtTypeOK ==
    /\ tree.dirty \subseteq Edits /\ (tree.dirty # {} => tree.there)
    /\ kept \subseteq tree.dirty
    /\ branch.tip \subseteq made /\ origin.tip \subseteq made
    /\ task \in {"fresh", "resume", "rest"} /\ run \in WtPlaces \cup Setup \cup {"in"}
    /\ cleaner \in [Cleaners -> WtPlaces \cup {"decided"}] /\ sweep \in WtPlaces

-----------------------------------------------------------------------------
(* What becomes of the work.                                               *)

\* runner.go:115-118, "The branch is pushed (via Checkpoint) so the work is
\* safe in Git and the worktree can be recreated on resume": a resumed session
\* finds what the interrupted one had in its tree.
ResumeFindsWork == run = "in" => saved \subseteq Content

\* Whichever clean-ups of the daemon overlap each other, they remove a tree only
\* once its edits are committed on the branch; and a run that is set up destroys
\* no others than those a failed commit or the daemon's death had left there
\* (git.go:72: these are gone, although the clean-up had kept the tree for them).
\* Recover, and clean-ups that a run has overtaken, keep to it less.
RemovesOnlyCommitted ==
    [][~overlap /\ sweep = "none" /\ tree.there /\ ~tree'.there
        => tree.dirty \subseteq branch'.tip \cup (IF run \in Adding THEN kept ELSE {})]_wtVars

\* A run keeps its tree, unless a clean-up was under way, or only decided on,
\* while it was set up: nothing that begins later touches it.
KeepsItsTree == run = "in" => tree.there \/ overlap
=============================================================================
