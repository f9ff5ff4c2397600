------------------------------- MODULE Workdir -------------------------------
(***************************************************************************)
(* git.RemoveAgentWorkdir: tearing down the directory in which an agent    *)
(* has made worktrees of its own choosing and left loose files.  First     *)
(* every worktree is looked at and checkpointed, then all are detached,    *)
(* then the directory goes.  The next iteration of the task lands in the   *)
(* same directory and does not wait for the teardown of the last.          *)
(***************************************************************************)
EXTENDS FiniteSets

CONSTANT Trees   \* paths at which an agent may make a worktree

ASSUME WorkdirAssumption == IsFiniteSet(Trees)

VARIABLES
    work,     \* [Trees -> where the latest work of that worktree is]
    onBranch, \* [Trees -> whether it has a branch checked out]
    loose,    \* the directory holds files of no worktree
    agent,    \* an agent is at work in it
    teardown, \* RemoveAgentWorkdir: its place, what it still looks at, what it owns
    met       \* ghost: an agent was at work during this teardown

dirVars == <<work, onBranch, loose, agent, teardown, met>>

\* No worktree; nothing new; only in the tree; committed; pushed.
Stages == {"none", "clean", "tree", "commit", "origin"}
Present == {t \in Trees : work[t] # "none"}

Resting == [at |-> "idle", todo |-> {}, owned |-> {}]

WorkdirInit ==
    /\ work = [t \in Trees |-> "none"] /\ onBranch = [t \in Trees |-> TRUE]
    /\ loose = FALSE /\ agent = FALSE
    /\ teardown = Resting
    /\ met = FALSE

-----------------------------------------------------------------------------
(* The agent.                                                              *)

AgentBegins ==
    /\ ~agent /\ agent' = TRUE
    /\ met' = (met \/ teardown # Resting)
    /\ UNCHANGED <<work, onBranch, loose, teardown>>

AgentWorks ==
    /\ agent
    /\ \/ \E t \in Trees, b \in BOOLEAN :
            /\ work[t] = "none"
            /\ work' = [work EXCEPT ![t] = "clean"]
            /\ onBranch' = [onBranch EXCEPT ![t] = b]
            /\ UNCHANGED loose
       \/ \E t \in Present :
            /\ \/ work' = [work EXCEPT ![t] = "tree"]
               \/ work[t] = "tree" /\ work' = [work EXCEPT ![t] = "commit"]
               \/ work[t] = "commit" /\ onBranch[t] /\ work' = [work EXCEPT ![t] = "origin"]
            /\ UNCHANGED <<onBranch, loose>>
       \/ loose' = TRUE /\ UNCHANGED <<work, onBranch>>
    /\ UNCHANGED <<agent, teardown, met>>

\* However the run ends, or if recover finds the directory stale.
AgentEnds ==
    /\ agent /\ agent' = FALSE
    /\ UNCHANGED <<work, onBranch, loose, teardown, met>>

-----------------------------------------------------------------------------
(* RemoveAgentWorkdir.                                                     *)

TeardownBegins ==
    /\ ~agent /\ teardown = Resting
    /\ teardown' = [Resting EXCEPT !.at = "checking", !.todo = Present]
    /\ met' = FALSE
    /\ UNCHANGED <<work, onBranch, loose, agent>>

\* The path that is returned: nothing goes on.
Keep == teardown' = Resting /\ UNCHANGED work

Adopts(t) == teardown' = [teardown EXCEPT !.todo = @ \ {t}, !.owned = @ \cup {t}]

\* Mistake: a worktree is detached as soon as it has been looked at.
DetachAtOnce(t) ==
    /\ teardown' = [teardown EXCEPT !.todo = @ \ {t}]
    /\ work' = [work EXCEPT ![t] = "none"]

\* Mistake: a failed commit is no reason to stop.
LookAtLeniently(t) ==
    \/ work[t] = "tree" /\ onBranch[t] /\ Adopts(t)
                        /\ work' \in {[work EXCEPT ![t] = "commit"], work}
    \/ work[t] = "tree" /\ ~onBranch[t] /\ Keep
    \/ work[t] # "tree" /\ Adopts(t) /\ UNCHANGED work

\* Mistake: the two loops are one.
LookAtAndDetach(t) ==
    \/ Keep
    \/ work[t] = "tree" /\ ~onBranch[t] /\ Keep
    \/ work[t] = "tree" /\ onBranch[t] /\ DetachAtOnce(t)
    \/ work[t] # "tree" /\ DetachAtOnce(t)

\* Without an owner, without a branch to commit on, or if the commit fails, the
\* worktree is kept and all with it; whether the push succeeds is not asked,
\* nor is a tree without changes asked for its branch.
LookAt(t) ==
    \/ Keep
    \/ work[t] = "tree" /\ onBranch[t] /\ Adopts(t)
                        /\ \E stage \in {"commit", "origin"} : work' = [work EXCEPT ![t] = stage]
    \/ work[t] # "tree" /\ Adopts(t) /\ UNCHANGED work

Checks ==
    /\ teardown.at = "checking"
    /\ IF teardown.todo = {}
       THEN teardown' = [teardown EXCEPT !.at = "detaching"] /\ UNCHANGED work
       ELSE \E t \in teardown.todo : LookAt(t)
    /\ UNCHANGED <<onBranch, loose, agent, met>>

\* git worktree remove --force; it may fail and leave the files.
Detaches ==
    /\ teardown.at = "detaching"
    /\ \E t \in teardown.owned :
        /\ work' \in {[work EXCEPT ![t] = "none"], work}
        /\ teardown' = [teardown EXCEPT !.owned = @ \ {t}]
    /\ UNCHANGED <<onBranch, loose, agent, met>>

\* Mistake: nobody looks for files once the worktrees are detached.
NoLooking ==
    /\ teardown.at = "detaching" /\ teardown.owned = {}
    /\ teardown' = [Resting EXCEPT !.at = "deleting"]
    /\ UNCHANGED <<work, onBranch, loose, agent, met>>

\* hasFiles: any file at any depth keeps the directory.
LooksForFiles ==
    /\ teardown.at = "detaching" /\ teardown.owned = {}
    /\ teardown' = IF loose \/ Present # {} THEN Resting ELSE [Resting EXCEPT !.at = "deleting"]
    /\ UNCHANGED <<work, onBranch, loose, agent, met>>

\* os.RemoveAll, whatever is there by now.
RemovesAll ==
    /\ teardown.at = "deleting"
    /\ teardown' = Resting
    /\ work' = [t \in Trees |-> "none"]
    /\ loose' = FALSE
    /\ UNCHANGED <<onBranch, agent, met>>

WorkdirNext ==
    \/ AgentBegins \/ AgentWorks \/ AgentEnds
    \/ TeardownBegins \/ Checks \/ Detaches \/ LooksForFiles \/ RemovesAll

WorkdirTypeOK ==
    /\ work \in [Trees -> Stages] /\ onBranch \in [Trees -> BOOLEAN]
    /\ teardown.at \in {"idle", "checking", "detaching", "deleting"}
    /\ teardown.todo \subseteq Trees /\ teardown.owned \subseteq Trees
    /\ loose \in BOOLEAN /\ agent \in BOOLEAN /\ met \in BOOLEAN

-----------------------------------------------------------------------------
(* What a teardown may cost.                                               *)

\* git.go:119-124, "If any worktree still holds work that cannot be committed
\* [...], nothing is removed", and "deleting it destroys the only copy": while
\* no agent comes back to the directory, a worktree goes only when the work of
\* every one has been committed, though the last to be looked at be the one
\* that fails, and no file that is in no worktree goes at all.
OnlyBackedWorkGoes ==
    [][~met /\ ~agent =>
          /\ loose => loose'
          /\ (\E t \in Present : work'[t] = "none")
                => \A t \in Present : work[t] # "tree"]_dirVars
=============================================================================
