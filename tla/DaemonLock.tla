----------------------------- MODULE DaemonLock -----------------------------
(***************************************************************************)
(* internal/daemon: one daemon per data directory, by an flock on a file   *)
(* that an orderly exit unlocks and then unlinks.  flock belongs to the    *)
(* file a process has open, the unlink to whatever bears the name by then. *)
(* The pid in the file only words the refusal and is left out.             *)
(***************************************************************************)
CONSTANTS Starters,    \* daemons started on this data directory
          Files,       \* external: the files the name may stand for
          NoFile

ASSUME LockAssumption == NoFile \notin Files

VARIABLES
    name,      \* external: the file that bears the name daemon.lock
    holder,    \* external: [Files -> the starters that flocked it]
    starter,   \* [Starters -> where it is, and the file it has open]
    overtaken  \* ghost: a release unlinked a file that someone else had open

lockVars == <<name, holder, starter, overtaken>>

Off == [at |-> "off", file |-> NoFile]

LockInit ==
    /\ name = NoFile
    /\ holder = [f \in Files |-> {}]
    /\ starter = [d \in Starters |-> Off]
    /\ overtaken = FALSE

OpenFiles == {starter[d].file : d \in Starters}
NewFile == CHOOSE f \in Files \ OpenFiles : TRUE

\* Mistake: the file is written anew and moved into place.
OpenLockAnew(d) ==
    /\ starter[d].at = "off"
    /\ Files \ OpenFiles # {}
    /\ name' = NewFile
    /\ starter' = [starter EXCEPT ![d] = [at |-> "opened", file |-> NewFile]]
    /\ UNCHANGED <<holder, overtaken>>

\* OpenFile with O_CREATE: the file of that name, or a new one.
OpenLock(d) ==
    /\ starter[d].at = "off"
    /\ name # NoFile \/ Files \ OpenFiles # {}
    /\ name' = IF name # NoFile THEN name ELSE NewFile
    /\ starter' = [starter EXCEPT ![d] = [at |-> "opened", file |-> name']]
    /\ UNCHANGED <<holder, overtaken>>

\* Flock with LOCK_NB: at once, or "another burnrate daemon is already running".
Acquire(d) ==
    LET f == starter[d].file
    IN  /\ starter[d].at = "opened"
        /\ IF holder[f] = {}
           THEN /\ holder' = [holder EXCEPT ![f] = {d}]
                /\ starter' = [starter EXCEPT ![d].at = "locked"]
           ELSE /\ starter' = [starter EXCEPT ![d] = Off]
                /\ UNCHANGED holder
        /\ UNCHANGED <<name, overtaken>>

\* Release unlocks and closes the file, then removes the name.
Unlock(d) ==
    /\ starter[d].at = "locked"
    /\ holder' = [holder EXCEPT ![starter[d].file] = {}]
    /\ starter' = [starter EXCEPT ![d] = [at |-> "removing", file |-> NoFile]]
    /\ UNCHANGED <<name, overtaken>>

RemoveName(d) ==
    /\ starter[d].at = "removing"
    /\ overtaken' = (overtaken \/ (name # NoFile /\ name \in OpenFiles))
    /\ name' = NoFile
    /\ starter' = [starter EXCEPT ![d] = Off]
    /\ UNCHANGED holder

\* A crash, or an exit past the deferred calls: the kernel drops the lock.
Die(d) ==
    /\ starter[d].at # "off"
    /\ holder' = [f \in Files |-> holder[f] \ {d}]
    /\ starter' = [starter EXCEPT ![d] = Off]
    /\ UNCHANGED <<name, overtaken>>

LockNext ==
    \E d \in Starters :
        OpenLock(d) \/ Acquire(d) \/ Unlock(d) \/ RemoveName(d) \/ Die(d)

Places == {"off", "opened", "locked", "removing"}

LockTypeOK ==
    /\ name \in Files \cup {NoFile}
    /\ holder \in [Files -> SUBSET Starters]
    /\ starter \in [Starters -> [at : Places, file : Files \cup {NoFile}]]
    /\ overtaken \in BOOLEAN

-----------------------------------------------------------------------------
(* One daemon per data directory.                                          *)

Owns(d) == starter[d].at = "locked"

\* lock.go:28, "another burnrate daemon is already running on this data dir",
\* and ai.md:388, "Single-instance enforcement via flock": never two owners.
OneDaemon == \A d, e \in Starters : Owns(d) /\ Owns(e) => d = e

\* Through any crashes, and any releases that nobody's start overlaps, a data
\* directory has one daemon, and the file under the name is the one it locked.
OneDaemonUnlessOvertaken ==
    ~overtaken =>
        /\ OneDaemon
        /\ \A d \in Starters : Owns(d) => starter[d].file = name
=============================================================================
