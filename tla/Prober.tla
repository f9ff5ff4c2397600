------------------------------- MODULE Prober -------------------------------
(***************************************************************************)
(* internal/prstatus: the cached state of recorded pull requests, kept by  *)
(* a sweep on a timer and by refreshes a user asks for, while runs record  *)
(* new URLs on the same rows.  Each pass works from the rows it read at    *)
(* its start, asks GitHub for one after the other and writes by row id.    *)
(***************************************************************************)
EXTENDS Integers, FiniteSets

CONSTANTS Rows,     \* task_prs rows
          Urls,     \* pull requests; a row without one has NoUrl
          NoUrl,
          Users,    \* handlers of POST refresh that may run at once
          Sweep,    \* the background pass
          Presses,  \* bound: how often users ask for a refresh
          Day       \* maxProbeBackoff, in sweeps

ASSUME ProberAssumption == NoUrl \notin Urls /\ Sweep \notin Users /\ Presses \in Nat /\ Day \in Nat \ {0}

VARIABLES
    pr,        \* external: [Urls -> what GitHub says of it]
    row,       \* [Rows -> URL, cached state, failures, sweeps since the check]
    pressed,
    pass,      \* [passes -> what is left of it, the row in hand, the answer]
    swapped,   \* ghost: rows whose URL changed under a probe
    about,     \* ghost: [Rows -> the pull request the last answer written was about]
    untold     \* ghost: merges a row has learned and no list sent since shows

proberGhosts == <<swapped, about, untold>>
proberVars == <<pr, row, pressed, pass, proberGhosts>>

Passes == Users \cup {Sweep}
Unprobed(u) == [url |-> u, state |-> "", failures |-> 0, age |-> Day]
NoRow == [url |-> NoUrl, state |-> ""]
NotRunning == [at |-> "idle", todo |-> {}, id |-> {}, old |-> NoRow, answer |-> "",
               changed |-> FALSE, listed |-> {}]

ProberInit ==
    /\ pr = [u \in Urls |-> "OPEN"]
    /\ row = [r \in Rows |-> Unprobed(NoUrl)]
    /\ pressed = 0 /\ pass = [p \in Passes |-> NotRunning]
    /\ swapped = {} /\ about = [r \in Rows |-> NoUrl] /\ untold = {}

-----------------------------------------------------------------------------
(* Which rows a pass looks at.                                             *)

Terminal(state) == state \in {"MERGED", "CLOSED"}

Doubled[n \in Nat] == IF n = 0 THEN 1 ELSE 2 * Doubled[n - 1]

\* Mistake: the wait is doubled for ever.
ProbeBackoffUncapped(failures) == Doubled[failures]

\* In sweeps: MinAge is less than one.
ProbeBackoff(failures) == IF Doubled[failures] > Day THEN Day ELSE Doubled[failures]

ShouldProbe(r, force) ==
    /\ row[r].url # NoUrl /\ ~Terminal(row[r].state)
    /\ row[r].state = "GONE" => force
    /\ force \/ row[r].age >= ProbeBackoff(row[r].failures)

\* The rows are read once, and picked by what they were then.
PassBegins(p, rows, force) ==
    /\ pass[p].at = "idle"
    /\ pass' = [pass EXCEPT ![p] = [NotRunning EXCEPT
           !.at = "next",
           !.todo = {[id |-> r, old |-> [url |-> row[r].url, state |-> row[r].state]] :
                        r \in {s \in rows : ShouldProbe(s, force)}}]]
    /\ UNCHANGED <<pr, row, proberGhosts>>

SweepBegins == PassBegins(Sweep, Rows, FALSE) /\ UNCHANGED pressed

RefreshTask(u) ==
    /\ pressed < Presses
    /\ \E r \in Rows : PassBegins(u, {r}, TRUE)
    /\ pressed' = pressed + 1

-----------------------------------------------------------------------------
(* refresh: one row after the other.                                       *)

Asks(p) ==
    /\ pass[p].at = "next"
    /\ \E t \in pass[p].todo :
        pass' = [pass EXCEPT ![p].at = "asking", ![p].id = {t.id}, ![p].old = t.old,
                             ![p].todo = @ \ {t}]
    /\ UNCHANGED <<pr, row, pressed, proberGhosts>>

\* External: gh answers for the URL the pass has read.
Answers(p) ==
    /\ pass[p].at = "asking"
    /\ pass' = [pass EXCEPT ![p].at = "write", ![p].answer = pr[pass[p].old.url]]
    /\ UNCHANGED <<pr, row, pressed, proberGhosts>>

\* SetTaskPRState, by id: whatever URL the row has by now.
Writes(p) ==
    /\ pass[p].at = "write"
    /\ \E r \in pass[p].id :
        row' = [row EXCEPT ![r].state = pass[p].answer, ![r].failures = 0,
                           ![r].age = 0]
    /\ pass' = [pass EXCEPT ![p] = [NotRunning EXCEPT !.at = "next", !.todo = pass[p].todo,
           !.changed = pass[p].changed \/ pass[p].answer # pass[p].old.state]]
    /\ untold' = {x \in untold : x[1] \notin pass[p].id}
                 \cup {<<r, row[r].url>> : r \in {s \in pass[p].id : pass[p].answer = "MERGED"}}
    /\ about' = [r \in Rows |-> IF r \in pass[p].id THEN pass[p].old.url ELSE about[r]]
    /\ UNCHANGED <<pr, pressed, swapped>>

\* No answer: the state is kept, the wait grows (bound: until it is a day).
ProbeFails(p) ==
    /\ pass[p].at = "asking"
    /\ \E r \in pass[p].id :
        row' = [row EXCEPT ![r].failures = IF Doubled[@] > Day THEN @ ELSE @ + 1,
                           ![r].age = 0]
    /\ pass' = [pass EXCEPT ![p] = [NotRunning EXCEPT !.at = "next", !.todo = pass[p].todo,
                                                      !.changed = pass[p].changed]]
    /\ UNCHANGED <<pr, pressed, proberGhosts>>

\* Mistake: only the handler of a refresh broadcasts.
BroadcastsByHand(p) == p \in Users

\* OnChange when something moved; the handler of a refresh broadcasts anyway.
Broadcasts(p) == pass[p].changed \/ p \in Users

\* broadcastTasks reads the rows first ...
Lists(p) ==
    /\ pass[p].at = "next" /\ pass[p].todo = {}
    /\ Broadcasts(p)
    /\ pass' = [pass EXCEPT ![p].at = "send",
           ![p].listed = {<<r, row[r].url>> : r \in {s \in Rows : row[s].state = "MERGED"}}]
    /\ UNCHANGED <<pr, row, pressed, proberGhosts>>

\* ... and hands them to the hub later; a refresh does both twice if its probes
\* moved something.
Sends(p) ==
    /\ pass[p].at = "send"
    /\ pass' = [pass EXCEPT ![p] = [NotRunning EXCEPT
           !.at = IF p \in Users /\ pass[p].changed THEN "next" ELSE "idle"]]
    /\ untold' = untold \ pass[p].listed
    /\ UNCHANGED <<pr, row, pressed, swapped, about>>

Ends(p) ==
    /\ pass[p].at = "next" /\ pass[p].todo = {}
    /\ ~Broadcasts(p)
    /\ pass' = [pass EXCEPT ![p] = NotRunning]
    /\ UNCHANGED <<pr, row, pressed, proberGhosts>>

\* The client of a refresh is gone: the pass stops before the next probe.
Abandoned(u) ==
    /\ pass[u].at = "next"
    /\ pass' = [pass EXCEPT ![u].todo = {}]
    /\ UNCHANGED <<pr, row, pressed, proberGhosts>>

-----------------------------------------------------------------------------
(* The others.                                                             *)

\* Mistake: the cached state stays when the URL changes.
UpsertKeepsState(r, u) == [row[r] EXCEPT !.url = u]

Upserted(r, u) == IF u \in {NoUrl, row[r].url} THEN row[r] ELSE Unprobed(u)

\* A finished run reports its pull request on the branch.
UpsertTaskPR ==
    \E r \in Rows, u \in Urls :
        /\ row' = [row EXCEPT ![r] = Upserted(r, u)]
        /\ swapped' = IF u # row[r].url /\ \E p \in Passes :
                              r \in pass[p].id \cup {t.id : t \in pass[p].todo}
                        THEN swapped \cup {r} ELSE swapped
        /\ untold' = {x \in untold : x[1] = r => x[2] = row'[r].url}
        /\ UNCHANGED <<pr, pressed, pass, about>>

\* External: a pull request is closed and may be reopened, is hidden and seen
\* again, is merged while it is open or out of sight.  Only a merge is final.
GitHubMoves ==
    /\ \E u \in Urls, s \in {"OPEN", "CLOSED", "MERGED", "GONE"} :
        /\ pr[u] # "MERGED"
        /\ s = "MERGED" => pr[u] # "CLOSED"
        /\ pr' = [pr EXCEPT ![u] = s]
    /\ UNCHANGED <<row, pressed, pass, proberGhosts>>

\* One sweep's interval; no wait is longer than a day.
IntervalPasses ==
    /\ row' = [r \in Rows |-> [row[r] EXCEPT !.age = IF @ < Day THEN @ + 1 ELSE @]]
    /\ UNCHANGED <<pr, pressed, pass, proberGhosts>>

ProberNext ==
    \/ SweepBegins
    \/ \E p \in Passes : \/ Asks(p) \/ Answers(p) \/ Writes(p) \/ ProbeFails(p)
                        \/ Lists(p) \/ Sends(p) \/ Ends(p)
    \/ \E u \in Users : RefreshTask(u) \/ Abandoned(u)
    \/ UpsertTaskPR \/ GitHubMoves \/ IntervalPasses

ProberTypeOK ==
    /\ \A r \in Rows :
        /\ row[r].url \in Urls \cup {NoUrl}
        /\ row[r].state \in {"", "OPEN", "CLOSED", "MERGED", "GONE"}
        /\ row[r].failures \in Nat /\ row[r].age \in 0 .. Day
    /\ \A p \in Passes :
        /\ Cardinality(pass[p].id) <= 1
        /\ pass[p].at \in {"idle", "next", "asking", "write", "send"}
    /\ swapped \subseteq Rows

-----------------------------------------------------------------------------
(* What the cached states are worth.                                       *)

\* task_prs.go:32-33, "A new URL on the same branch is a different PR, so the
\* cached state describes something else and has to be dropped": a row that
\* has a state has it from an answer about the pull request it names, whichever
\* passes overlap, and a MERGED is true.  Neither MERGED nor CLOSED is asked about
\* again, so a wrong one would stay.  (A closed pull request may be reopened: the
\* row goes on saying CLOSED.)  A row whose URL changed while a pass had it in
\* hand may be wrong.
SettledIsTrueUnlessSwapped ==
    \A r \in Rows \ swapped :
        /\ row[r].state # "" => about[r] = row[r].url
        /\ row[r].state = "MERGED" => pr[row[r].url] = "MERGED"

\* A merge is learned in the end, whatever fails for how long, and although
\* refreshes write older answers over newer ones; unless the row was settled
\* before, as gone, which only a refresh asks about again, or as closed, which
\* nothing does (the merge of a reopened pull request is never learned), or
\* unless it gets another URL.
LearnsMergeUnlessSettled ==
    \A r \in Rows : \A u \in Urls :
        (row[r].url = u /\ pr[u] = "MERGED")
            ~> (row[r].state \in {"MERGED", "GONE", "CLOSED"} \/ row[r].url # u \/ r \in swapped)

\* And it is broadcast: once a row has learned a merge, a list that shows it is
\* given to the hub, although the row is not probed again; unless an older answer
\* or another URL takes its place first.  (The hub drops a list for a client
\* whose queue is full, and an older one may follow it.)
MergeIsBroadcast ==
    \A r \in Rows : \A u \in Urls : <<r, u>> \in untold ~> <<r, u>> \notin untold
=============================================================================
