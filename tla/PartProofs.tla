------------------------------ MODULE PartProofs ------------------------------
(***************************************************************************)
(* The parts around the core, for every value of their constants.  Each    *)
(* section strengthens the property of one part to an inductive invariant  *)
(* of that part; the first section carries it over to Parts.               *)
(***************************************************************************)
EXTENDS Parts, FiniteSetTheorems, TLAPS

-----------------------------------------------------------------------------
(* A behaviour of the parts is one of each part.                           *)

LEMMA VoiceTurns == PartsSpec => VoiceInit /\ [][VoiceNext]_voiceVars
<1>1. PartsInit => VoiceInit
  BY DEF PartsInit
<1>2. [PartsNext]_partVars => [VoiceNext]_voiceVars
  BY DEF PartsNext, Turn, partVars
<1> QED
  BY <1>1, <1>2, PTL DEF PartsSpec

LEMMA WorktreeTurns == PartsSpec => WtInit /\ [][WtNext]_wtVars
<1>1. PartsInit => WtInit
  BY DEF PartsInit
<1>2. [PartsNext]_partVars => [WtNext]_wtVars
  BY DEF PartsNext, Turn, partVars
<1> QED
  BY <1>1, <1>2, PTL DEF PartsSpec

LEMMA CaffeinateTurns == PartsSpec => CaffInit /\ [][CaffNext]_caffVars
<1>1. PartsInit => CaffInit
  BY DEF PartsInit
<1>2. [PartsNext]_partVars => [CaffNext]_caffVars
  BY DEF PartsNext, Turn, partVars
<1> QED
  BY <1>1, <1>2, PTL DEF PartsSpec

LEMMA CapturesTurns == PartsSpec => CapturesInit /\ [][CapturesNext]_captureVars
<1>1. PartsInit => CapturesInit
  BY DEF PartsInit
<1>2. [PartsNext]_partVars => [CapturesNext]_captureVars
  BY DEF PartsNext, Turn, partVars
<1> QED
  BY <1>1, <1>2, PTL DEF PartsSpec

LEMMA PollTurns == PartsSpec => PollInit /\ [][PollNext]_pollVars
<1>1. PartsInit => PollInit
  BY DEF PartsInit
<1>2. [PartsNext]_partVars => [PollNext]_pollVars
  BY DEF PartsNext, Turn, partVars
<1> QED
  BY <1>1, <1>2, PTL DEF PartsSpec

LEMMA CredentialsTurns == PartsSpec => CredInit /\ [][CredNext]_credVars
<1>1. PartsInit => CredInit
  BY DEF PartsInit
<1>2. [PartsNext]_partVars => [CredNext]_credVars
  BY DEF PartsNext, Turn, partVars
<1> QED
  BY <1>1, <1>2, PTL DEF PartsSpec

LEMMA WhisperTurns == PartsSpec => WhisperInit /\ [][WhisperNext]_whisperVars
<1>1. PartsInit => WhisperInit
  BY DEF PartsInit
<1>2. [PartsNext]_partVars => [WhisperNext]_whisperVars
  BY DEF PartsNext, Turn, partVars
<1> QED
  BY <1>1, <1>2, PTL DEF PartsSpec

LEMMA ProberTurns == PartsSpec => ProberInit /\ [][ProberNext]_proberVars
<1>1. PartsInit => ProberInit
  BY DEF PartsInit
<1>2. [PartsNext]_partVars => [ProberNext]_proberVars
  BY DEF PartsNext, Turn, partVars
<1> QED
  BY <1>1, <1>2, PTL DEF PartsSpec

LEMMA SettingsTurns == PartsSpec => SettingsInit /\ [][SettingsNext]_settingsVars
<1>1. PartsInit => SettingsInit
  BY DEF PartsInit
<1>2. [PartsNext]_partVars => [SettingsNext]_settingsVars
  BY DEF PartsNext, Turn, partVars
<1> QED
  BY <1>1, <1>2, PTL DEF PartsSpec

LEMMA WorkdirTurns == PartsSpec => WorkdirInit /\ [][WorkdirNext]_dirVars
<1>1. PartsInit => WorkdirInit
  BY DEF PartsInit
<1>2. [PartsNext]_partVars => [WorkdirNext]_dirVars
  BY DEF PartsNext, Turn, partVars
<1> QED
  BY <1>1, <1>2, PTL DEF PartsSpec

LEMMA LockTurns == PartsSpec => LockInit /\ [][LockNext]_lockVars
<1>1. PartsInit => LockInit
  BY DEF PartsInit
<1>2. [PartsNext]_partVars => [LockNext]_lockVars
  BY DEF PartsNext, Turn, partVars
<1> QED
  BY <1>1, <1>2, PTL DEF PartsSpec

-----------------------------------------------------------------------------
(* The lock file.                                                          *)

\* The file a starter has open bears the name until a release overtakes it,
\* and a file is flocked by exactly the owner that has it open.
LockInv ==
    /\ LockTypeOK
    /\ \A d \in Starters :
        /\ starter[d].at \in {"opened", "locked"} <=> starter[d].file # NoFile
        /\ ~overtaken => starter[d].file \in {NoFile, name}
    /\ \A f \in Files : holder[f] = {d \in Starters : Owns(d) /\ starter[d].file = f}
    /\ \A d, e \in Starters :
        Owns(d) /\ Owns(e) /\ starter[d].file = starter[e].file => d = e

LEMMA NewFileType ==
    ASSUME Files \ OpenFiles # {}
    PROVE  NewFile \in Files /\ NewFile \notin OpenFiles
BY DEF NewFile

\* The invariant holds at first and every step keeps it.
LEMMA LockInvHolds == LockInit /\ [][LockNext]_lockVars => []LockInv
<1>1. LockInit => LockInv
  <2> SUFFICES ASSUME LockInit PROVE LockInv
    OBVIOUS
  <2>1. Off.at = "off" /\ Off.file = NoFile
    BY DEF Off
  <2>2. \A d \in Starters : starter[d].at = "off" /\ starter[d].file = NoFile
    BY <2>1 DEF LockInit
  <2>3. LockTypeOK
    BY DEF LockInit, LockTypeOK, Places, Off
  <2>4. \A f \in Files : holder[f] = {}
    BY DEF LockInit
  <2>5. \A f \in Files : holder[f] = {d \in Starters : Owns(d) /\ starter[d].file = f}
    BY <2>2, <2>4 DEF Owns
  <2> QED
    BY <2>2, <2>3, <2>5 DEF LockInv, Owns
<1>2. LockInv /\ [LockNext]_lockVars => LockInv'
  <2> SUFFICES ASSUME LockInv, [LockNext]_lockVars PROVE LockInv'
    OBVIOUS
  <2> USE LockAssumption
  <2>a. ASSUME NEW d \in Starters, ~Owns(d), starter' = [starter EXCEPT ![d] = Off],
               holder' = holder, name' \in Files \cup {NoFile}, overtaken' \in BOOLEAN,
               ~overtaken' => \A e \in Starters : starter[e].file \in {NoFile, name'}
        PROVE  LockInv'
    <3>1. /\ Off.at = "off" /\ Off.file = NoFile
          /\ Off \in [at : Places, file : Files \cup {NoFile}]
      BY DEF Off, Places
    <3>2. starter'[d] = Off /\ \A e \in Starters \ {d} : starter'[e] = starter[e]
      BY <2>a DEF LockInv, LockTypeOK
    <3>3. \A e \in Starters : Owns(e)' <=> Owns(e)
      BY <2>a, <3>1, <3>2 DEF Owns
    <3>4. LockTypeOK'
      BY <2>a, <3>1 DEF LockInv, LockTypeOK
    <3>5. \A e \in Starters :
            /\ starter'[e].at \in {"opened", "locked"} <=> starter'[e].file # NoFile
            /\ ~overtaken' => starter'[e].file \in {NoFile, name'}
      BY <2>a, <3>1, <3>2 DEF LockInv
    <3>6. \A f \in Files : holder'[f] = {e \in Starters : Owns(e)' /\ starter'[e].file = f}
      BY <2>a, <3>2, <3>3 DEF LockInv
    <3>7. \A e, g \in Starters :
            Owns(e)' /\ Owns(g)' /\ starter'[e].file = starter'[g].file => e = g
      BY <2>a, <3>2, <3>3 DEF LockInv
    <3> QED
      BY <3>4, <3>5, <3>6, <3>7 DEF LockInv
  <2>1. ASSUME NEW d \in Starters, OpenLock(d) PROVE LockInv'
    <3>1. name' \in Files /\ (name # NoFile => name' = name)
      BY <2>1, NewFileType DEF OpenLock, LockInv, LockTypeOK
    <3>2. starter' = [starter EXCEPT ![d] = [at |-> "opened", file |-> name']]
      BY <2>1 DEF OpenLock
    <3>3. UNCHANGED <<holder, overtaken>>
      BY <2>1 DEF OpenLock
    <3>4. starter[d].at = "off"
      BY <2>1 DEF OpenLock
    <3>5. LockTypeOK'
      BY <3>1, <3>2, <3>3 DEF LockInv, LockTypeOK, Places
    <3>6. \A e \in Starters :
            e # d => starter'[e] = starter[e]
      BY <3>2 DEF LockInv, LockTypeOK
    <3>7. starter'[d] = [at |-> "opened", file |-> name']
      BY <3>2 DEF LockInv, LockTypeOK
    <3>8. \A e \in Starters : Owns(e)' <=> Owns(e)
      BY <3>4, <3>6, <3>7 DEF Owns
    <3>9. \A e \in Starters :
            /\ starter'[e].at \in {"opened", "locked"} <=> starter'[e].file # NoFile
            /\ ~overtaken' => starter'[e].file \in {NoFile, name'}
      BY <3>1, <3>3, <3>6, <3>7 DEF LockInv
    <3>10. \A f \in Files :
            holder'[f] = {e \in Starters : Owns(e)' /\ starter'[e].file = f}
      BY <3>3, <3>4, <3>6, <3>8 DEF LockInv, Owns
    <3>11. \A e, g \in Starters :
            Owns(e)' /\ Owns(g)' /\ starter'[e].file = starter'[g].file => e = g
      BY <3>4, <3>6, <3>8 DEF LockInv, Owns
    <3> QED
      BY <3>5, <3>9, <3>10, <3>11 DEF LockInv, Owns
  <2>2. ASSUME NEW d \in Starters, Acquire(d) PROVE LockInv'
    <3> DEFINE file == starter[d].file
               x == [starter[d] EXCEPT !.at = "locked"]
    <3>0. /\ starter[d].at = "opened" /\ file \in Files /\ UNCHANGED <<name, overtaken>>
          /\ ~overtaken => file = name
      BY <2>2 DEF Acquire, LockInv, LockTypeOK
    <3>1. CASE holder[file] = {}
      <4>1. holder' = [holder EXCEPT ![file] = {d}] /\ starter' = [starter EXCEPT ![d] = x]
        BY <2>2, <3>1 DEF Acquire
      <4>2. x \in [at : Places, file : Files \cup {NoFile}] /\ x.at = "locked" /\ x.file = file
        BY <3>0 DEF LockInv, LockTypeOK, Places
      <4> HIDE DEF x, file
      <4>3. /\ starter'[d] = x /\ \A e \in Starters \ {d} : starter'[e] = starter[e]
            /\ holder'[file] = {d} /\ \A f \in Files \ {file} : holder'[f] = holder[f]
        BY <3>0, <4>1 DEF LockInv, LockTypeOK
      <4>4. LockTypeOK'
        BY <3>0, <4>1, <4>2 DEF LockInv, LockTypeOK
      <4>5. \A e \in Starters : Owns(e)' <=> e = d \/ Owns(e)
        BY <4>2, <4>3 DEF Owns
      <4>6. \A e \in Starters : Owns(e) => e # d /\ starter[e].file # file
        BY <3>0, <3>1 DEF LockInv, Owns
      <4>7. \A e \in Starters :
              /\ starter'[e].at \in {"opened", "locked"} <=> starter'[e].file # NoFile
              /\ ~overtaken' => starter'[e].file \in {NoFile, name'}
        BY <3>0, <4>2, <4>3 DEF LockInv, file
      <4>8. ASSUME NEW f \in Files
            PROVE  holder'[f] = {e \in Starters : Owns(e)' /\ starter'[e].file = f}
        <5>1. CASE f = file
          BY <4>2, <4>3, <4>5, <4>6, <5>1
        <5>2. CASE f # file
          <6>1. holder'[f] = {e \in Starters : Owns(e) /\ starter[e].file = f}
            BY <4>3, <5>2 DEF LockInv
          <6>2. \A e \in Starters : Owns(e)' /\ starter'[e].file = f
                                     <=> Owns(e) /\ starter[e].file = f
            BY <4>2, <4>3, <4>5, <4>6, <5>2
          <6> QED
            BY <6>1, <6>2
        <5> QED
          BY <5>1, <5>2
      <4>9. \A e, g \in Starters :
              Owns(e)' /\ Owns(g)' /\ starter'[e].file = starter'[g].file => e = g
        BY <4>2, <4>3, <4>5, <4>6 DEF LockInv
      <4> QED
        BY <4>4, <4>7, <4>8, <4>9 DEF LockInv
    <3>2. CASE holder[file] # {}
      <4>1. holder' = holder /\ starter' = [starter EXCEPT ![d] = Off]
        BY <2>2, <3>2 DEF Acquire
      <4> QED
        BY <2>a, <3>0, <4>1 DEF Owns, LockInv, LockTypeOK
    <3> QED
      BY <3>1, <3>2
  <2>3. ASSUME NEW d \in Starters, Unlock(d) PROVE LockInv'
    BY <2>3 DEF Unlock, LockInv, LockTypeOK, Places, Off, Owns
  <2>4. ASSUME NEW d \in Starters, RemoveName(d) PROVE LockInv'
    <3>1. /\ starter[d].at = "removing" /\ starter' = [starter EXCEPT ![d] = Off]
          /\ holder' = holder /\ name' = NoFile
          /\ ~overtaken' => ~overtaken /\ (name = NoFile \/ name \notin OpenFiles)
          /\ overtaken' \in BOOLEAN
      BY <2>4 DEF RemoveName
    <3>2. ASSUME ~overtaken', NEW e \in Starters PROVE starter[e].file = NoFile
      BY <3>1, <3>2 DEF OpenFiles, LockInv
    <3> QED
      BY <2>a, <3>1, <3>2 DEF Owns
  <2>5. ASSUME NEW d \in Starters, Die(d) PROVE LockInv'
    BY <2>5 DEF Die, LockInv, LockTypeOK, Places, Off, Owns
  <2>6. CASE UNCHANGED lockVars
    BY <2>6 DEF lockVars, LockInv, LockTypeOK, Owns
  <2> QED
    BY <2>1, <2>2, <2>3, <2>4, <2>5, <2>6 DEF LockNext
<1> QED
  BY <1>1, <1>2, PTL

\* Any number of daemons may start, crash and exit: as long as no release
\* unlinks the lock file under another start, only one of them owns it.
THEOREM OneDaemonHolds == PartsSpec => []OneDaemonUnlessOvertaken
<1>1. LockInv => OneDaemonUnlessOvertaken
  BY DEF LockInv, OneDaemonUnlessOvertaken, OneDaemon, Owns
<1> QED
  BY <1>1, LockTurns, LockInvHolds, PTL

-----------------------------------------------------------------------------
(* The voice button.                                                       *)

\* A recording is in the bridge's hands, or in those of one goroutine, or has
\* become a task; and one that never began is in none of these.
VoiceInv ==
    /\ VoiceTypeOK
    /\ \A r \in Recordings :
        /\ posted[r] <= 1
        /\ rec = r => taker[r] = "none" /\ posted[r] = 0
        /\ taker[r] # "none" => posted[r] = 0
        /\ recorder[r] = "none" => rec # r /\ taker[r] = "none" /\ posted[r] = 0
    /\ NoStrayRecorder

LEMMA VoiceInvHolds == VoiceInit /\ [][VoiceNext]_voiceVars => []VoiceInv
<1>1. VoiceInit => VoiceInv
  <2> SUFFICES ASSUME VoiceInit PROVE VoiceInv
    OBVIOUS
  <2>0. 0 \in 0 .. Stops /\ 0 \in 0 .. Limit
    BY VoiceAssumption
  <2>1. VoiceTypeOK
    <3>1. /\ recorder \in [Recordings -> {"none", "alive", "ended"}]
          /\ age \in [Recordings -> 0 .. Limit]
      BY <2>0 DEF VoiceInit
    <3>2. taker \in [Recordings -> {"none", "stopping", "aborting", "transcribing", "posting"}]
      BY DEF VoiceInit
    <3>3. /\ rec \in Recordings \cup {NoRecording} /\ watchdog \subseteq Recordings
          /\ stops \in 0 .. Stops /\ link \in BOOLEAN /\ bridge \in {"up", "ending", "down"}
      BY <2>0 DEF VoiceInit
    <3>4. posted \in [Recordings -> Nat]
      BY DEF VoiceInit
    <3> QED
      BY <3>1, <3>2, <3>3, <3>4 DEF VoiceTypeOK
  <2>2. \A r \in Recordings :
          rec # r /\ recorder[r] = "none" /\ taker[r] = "none" /\ posted[r] = 0
    BY VoiceAssumption DEF VoiceInit
  <2> QED
    BY <2>1, <2>2 DEF VoiceInv, NoStrayRecorder
<1>2. VoiceInv /\ [VoiceNext]_voiceVars => VoiceInv'
  <2> SUFFICES ASSUME VoiceInv, [VoiceNext]_voiceVars PROVE VoiceInv'
    OBVIOUS
  <2> USE VoiceAssumption DEF VoiceInv, VoiceTypeOK, NoStrayRecorder
  <2>1. CASE Link
    BY <2>1 DEF Link, recording
  <2>2. CASE StartRecording
    BY <2>2 DEF StartRecording
  <2>3. CASE StopPressed
    BY <2>3 DEF StopPressed
  <2>4. CASE StopRuns
    BY <2>4 DEF StopRuns, Take
  <2>5. CASE WatchdogFires
    BY <2>5 DEF WatchdogFires, Take
  <2>6. CASE WatchdogAborts
    BY <2>6 DEF WatchdogAborts, Take
  <2>7. CASE RecorderStopped
    BY <2>7 DEF RecorderStopped
  <2>8. CASE Transcribes
    BY <2>8 DEF Transcribes
  <2>9. CASE CreatesVoiceTask
    BY <2>9 DEF CreatesVoiceTask
  <2>10. CASE ClockTicks
    BY <2>10 DEF ClockTicks
  <2>11. CASE BridgeEnds
    BY <2>11 DEF BridgeEnds, recording
  <2>12. CASE BridgeDown
    <3>1. VoiceTypeOK'
      <4>1. taker' \in [Recordings -> {"none", "stopping", "aborting", "transcribing", "posting"}]
        BY <2>12 DEF BridgeDown
      <4>2. /\ rec' \in Recordings \cup {NoRecording} /\ watchdog' \subseteq Recordings
            /\ stops' \in 0 .. Stops /\ link' \in BOOLEAN /\ bridge' \in {"up", "ending", "down"}
        <5>1. 0 \in 0 .. Stops
          BY VoiceAssumption
        <5> QED
          BY <2>12, <5>1 DEF BridgeDown
      <4> QED
        BY <2>12, <4>1, <4>2 DEF BridgeDown
    <3>2. \A r \in Recordings : rec' # r /\ taker'[r] = "none"
      BY <2>12 DEF BridgeDown
    <3> QED
      BY <2>12, <3>1, <3>2 DEF BridgeDown
  <2>13. CASE BridgeStarts
    BY <2>13 DEF BridgeStarts
  <2>14. CASE UNCHANGED voiceVars
    BY <2>14 DEF voiceVars, recording
  <2> QED
    BY <2>1, <2>2, <2>3, <2>4, <2>5, <2>6, <2>7, <2>8, <2>9, <2>10, <2>11, <2>12,
       <2>13, <2>14 DEF VoiceNext
<1> QED
  BY <1>1, <1>2, PTL

\* However many recordings, STOPs, watchdogs and crashes, in whatever order
\* their goroutines run: a recording becomes one task at most.
THEOREM OneTaskHolds == PartsSpec => []OneTaskPerRecording
<1>1. VoiceInv => OneTaskPerRecording
  BY DEF VoiceInv, OneTaskPerRecording
<1> QED
  BY <1>1, VoiceTurns, VoiceInvHolds, PTL

\* While a daemon runs, a recorder that is alive has somebody to stop it.
THEOREM NoStrayRecorderHolds == PartsSpec => []NoStrayRecorder
<1>1. VoiceInv => NoStrayRecorder
  BY DEF VoiceInv
<1> QED
  BY <1>1, VoiceTurns, VoiceInvHolds, PTL

-----------------------------------------------------------------------------
(* Worktrees.                                                              *)

\* A run that no clean-up met while it was set up has its tree and no clean-up
\* beside it; where a clean-up of the daemon is about to remove the tree, all
\* edits are committed; and edits that are left where no run and no clean-up has
\* them in hand are those that could not be committed.
TreeTypes == [there : BOOLEAN, dirty : SUBSET Edits]
Tips == [there : BOOLEAN, tip : SUBSET Edits]

RepoOK ==
    /\ tree \in TreeTypes /\ (tree.dirty # {} => tree.there)
    /\ branch \in Tips /\ origin \in Tips

PlacesOK ==
    /\ run \in WtPlaces \cup Setup \cup {"in"} /\ sweep \in WtPlaces
    /\ cleaner \in [Cleaners -> WtPlaces \cup {"decided"}]

Undisturbed ==
    ~overlap => /\ run \in Setup \cup {"in"} => ~CleaningUp
                /\ run \in {"ready", "in"} => tree.there

SavedFirst ==
    ~overlap /\ (run = "remove" \/ \E c \in Cleaners : cleaner[c] = "remove")
        => tree.dirty = {}

LeftIsKept ==
    \/ tree.dirty \subseteq kept
    \/ run \in {"in", "checkpoint"}
    \/ \E c \in Cleaners : cleaner[c] = "checkpoint"

WtInv == RepoOK /\ PlacesOK /\ Undisturbed /\ SavedFirst /\ LeftIsKept

\* What the operations on the repository leave behind.
LEMMA RepoTypes ==
    ASSUME RepoOK
    PROVE  /\ \A tip \in SUBSET Edits : PushTo(tip) => origin' \in Tips
           /\ branch.tip \in SUBSET Edits
           /\ CheckpointSaves => /\ tree'.there /\ tree'.dirty = {} /\ kept' = {}
                                 /\ RepoOK'
           /\ RemoveWorktree => /\ ~tree'.there /\ tree'.dirty = {} /\ kept' = {}
                                /\ RepoOK'
           /\ CheckpointFails => tree' = tree /\ kept' = tree.dirty /\ RepoOK'
           /\ UNCHANGED repo => tree' = tree /\ kept' = kept /\ RepoOK'
<1> USE DEF Tips, TreeTypes, RepoOK
<1>1. Content \in SUBSET Edits /\ branch.tip \in SUBSET Edits
  BY DEF Content
<1>2. \A tip \in SUBSET Edits : At(tip) \in Tips
  BY DEF At
<1>3. ASSUME NEW tip \in SUBSET Edits, PushTo(tip) PROVE origin' \in Tips
  <2>1. origin' = At(tip) \/ origin' = origin
    BY <1>3 DEF PushTo
  <2> QED
    BY <2>1, <1>2
<1>4. /\ CleanTree \in TreeTypes /\ CleanTree.there /\ CleanTree.dirty = {}
      /\ NoTree \in TreeTypes /\ ~NoTree.there /\ NoTree.dirty = {}
  BY DEF CleanTree, NoTree
<1>5. CheckpointSaves => /\ tree' = CleanTree /\ branch' \in Tips /\ origin' \in Tips
                         /\ kept' = {}
  BY <1>1, <1>2, <1>3 DEF CheckpointSaves
<1>6. RemoveWorktree => /\ tree' = NoTree /\ branch' \in Tips /\ origin' \in Tips
                        /\ kept' = {}
  BY DEF RemoveWorktree
<1>7. CheckpointFails => /\ UNCHANGED <<tree, branch, origin>> /\ kept' = tree.dirty
  BY DEF CheckpointFails
<1>8. UNCHANGED repo => UNCHANGED <<tree, branch, origin, kept>>
  BY DEF repo
<1> QED
  BY <1>1, <1>3, <1>4, <1>5, <1>6, <1>7, <1>8

\* A half of a clean-up: the uncommitted edits there are after it could not be
\* committed, and before one of the daemon's removes a tree there are none.
LEMMA CleanUpLeaves ==
    ASSUME RepoOK, NEW at, NEW next,
           CleanUp(at, next) \/ CheckpointOrRemove(at, next)
    PROVE  /\ at \in {"checkpoint", "remove"} /\ next \in {"none", "remove"}
           /\ RepoOK'
           /\ tree'.dirty = {} \/ tree'.dirty = tree.dirty
           /\ tree'.dirty \subseteq kept'
           /\ CleanUp(at, next) /\ next = "remove" => tree'.dirty = {}
<1>1. CASE ThenRemove(at, next)
  BY <1>1, RepoTypes DEF ThenRemove
<1>2. CASE CheckpointOrKeep(at, next)
  <2>1. ~tree.there => tree.dirty = {}
    BY DEF RepoOK
  <2> QED
    BY <1>2, <2>1, RepoTypes DEF CheckpointOrKeep, ThenRemove
<1>3. CASE CheckpointOrRemove(at, next)
  <2>1. ~tree.there => tree.dirty = {}
    BY DEF RepoOK
  <2>2. at = "checkpoint" /\ next \in {"none", "remove"}
    BY <1>3 DEF CheckpointOrRemove
  <2>3. /\ RepoOK' /\ (tree'.dirty = {} \/ tree'.dirty = tree.dirty)
        /\ tree'.dirty \subseteq kept'
    BY <1>3, <2>1, RepoTypes DEF CheckpointOrRemove
  <2>4. CleanUp(at, next) /\ next = "remove" => CheckpointSaves
    BY <2>2 DEF CleanUp, CheckpointOrKeep, ThenRemove
  <2> QED
    BY <2>2, <2>3, <2>4, RepoTypes
<1> QED
  BY <1>1, <1>2, <1>3 DEF CleanUp

LEMMA WtInvHolds == WtInit /\ [][WtNext]_wtVars => []WtInv
<1>1. WtInit => WtInv
  BY DEF WtInit, WtInv, RepoOK, PlacesOK, Undisturbed, SavedFirst, LeftIsKept, NoTree,
     NoBranch, WtPlaces, Setup, Adding, CleaningUp, Tips, TreeTypes
<1>2. WtInv /\ [WtNext]_wtVars => WtInv'
  <2> SUFFICES ASSUME WtInv, [WtNext]_wtVars PROVE WtInv'
    OBVIOUS
  <2> USE DEF WtInv, PlacesOK, WtPlaces, Setup, Adding
  <2>0. ~tree.there => tree.dirty = {}
    BY DEF RepoOK
  <2>a. ASSUME UNCHANGED repo
        PROVE  RepoOK' /\ tree' = tree /\ kept' = kept
    BY <2>a, RepoTypes
  <2>b. ASSUME branch.there /\ PushTo(branch.tip) /\ UNCHANGED <<tree, branch, kept>>
        PROVE  RepoOK' /\ tree' = tree /\ kept' = kept
    BY <2>b, RepoTypes DEF RepoOK
  <2>1. CASE FreshRun \/ ResumedRun
    <3>1. PICK place \in {"new", "from", "ready"} :
            /\ Begins(place)
            /\ place = "ready" => tree.there
      BY <2>1 DEF FreshRun, ResumedRun
    <3>2. /\ run = "none" /\ run' = place /\ overlap' = CleaningUp
          /\ UNCHANGED <<cleaner, sweep>> /\ RepoOK' /\ tree' = tree /\ kept' = kept
      BY <2>a, <3>1 DEF Begins
    <3> QED
      BY <3>1, <3>2 DEF Undisturbed, SavedFirst, LeftIsKept, CleaningUp
  <2>2. CASE ClearsTree \/ ClearsBranch
    <3>1. /\ run \in Adding /\ UNCHANGED <<run, cleaner, sweep, overlap>>
          /\ RepoOK' /\ tree'.dirty \subseteq kept'
          /\ tree'.dirty = {}
      <4>1. CASE ClearsTree
        BY <2>2, <4>1, RepoTypes DEF ClearsTree, actors, wtGhosts
      <4>2. CASE ClearsBranch
        <5>1. NoBranch \in Tips
          BY DEF NoBranch, Tips
        <5> QED
          BY <2>0, <4>2, <5>1 DEF ClearsBranch, RepoOK, actors, wtGhosts
      <4> QED
        BY <2>2, <4>1, <4>2
    <3> QED
      BY <3>1 DEF Undisturbed, SavedFirst, LeftIsKept, CleaningUp
  <2>3. CASE Adds
    <3>1. CleanTree \in TreeTypes /\ CleanTree.there /\ CleanTree.dirty = {}
          /\ At({}) \in Tips
      BY DEF CleanTree, TreeTypes, At, Tips
    <3>2. /\ tree' = CleanTree /\ branch' \in {At({}), origin} /\ origin' = origin
          /\ run \in Adding /\ run' = "ready"
          /\ UNCHANGED <<kept, cleaner, sweep, overlap>>
      BY <2>3 DEF Adds, wtGhosts
    <3> QED
      BY <3>1, <3>2 DEF RepoOK, Undisturbed, SavedFirst, LeftIsKept, CleaningUp
  <2>4. CASE AddFails \/ CreatesRun
    <3>1. /\ RepoOK' /\ tree' = tree /\ kept' = kept /\ UNCHANGED <<cleaner, sweep, overlap>>
          /\ \/ run \in Adding /\ run' = "none"
             \/ run = "ready" /\ run' = "in"
      BY <2>4, <2>a DEF AddFails, CreatesRun, wtGhosts
    <3> QED
      BY <3>1 DEF Undisturbed, SavedFirst, LeftIsKept, CleaningUp
  <2>5. CASE AgentEdits
    <3>1. PICK e \in Edits : tree' = [tree EXCEPT !.dirty = tree.dirty \cup {e}]
      BY <2>5 DEF AgentEdits
    <3>2. RepoOK' /\ tree'.there
      BY <2>5, <3>1 DEF AgentEdits, RepoOK, TreeTypes
    <3>3. run = "in" /\ UNCHANGED <<run, cleaner, sweep, overlap>>
      BY <2>5 DEF AgentEdits, actors
    <3> QED
      BY <3>2, <3>3 DEF Undisturbed, SavedFirst, LeftIsKept, CleaningUp
  <2>6. CASE AgentPushes
    <3>1. /\ run = "in" /\ UNCHANGED <<run, cleaner, sweep, overlap>>
          /\ RepoOK' /\ tree'.there /\ tree'.dirty = {}
      BY <2>6, RepoTypes DEF AgentPushes, actors, wtGhosts
    <3> QED
      BY <3>1 DEF Undisturbed, SavedFirst, LeftIsKept, CleaningUp
  <2>7. CASE Succeeds
    <3>1. RepoOK' /\ tree' = tree /\ kept' = kept
      BY <2>7, <2>a, <2>b DEF Succeeds
    <3>2. PICK c \in Cleaners :
            cleaner[c] = "none" /\ cleaner' = [cleaner EXCEPT ![c] = "checkpoint"]
      BY <2>7 DEF Succeeds
    <3>3. run' = "none" /\ UNCHANGED <<sweep, overlap>>
      BY <2>7 DEF Succeeds
    <3> QED
      BY <3>1, <3>2, <3>3 DEF Undisturbed, SavedFirst, LeftIsKept
  <2>8. CASE Interrupted
    <3>1. /\ run = "in" /\ run' = (IF tree.there THEN "checkpoint" ELSE "none")
          /\ UNCHANGED <<cleaner, sweep, overlap>>
          /\ RepoOK' /\ tree' = tree /\ kept' = kept
      BY <2>8, <2>a DEF Interrupted
    <3> QED
      BY <2>0, <3>1 DEF Undisturbed, SavedFirst, LeftIsKept
  <2>9. CASE DaemonDies
    <3>1. /\ run' = "none" /\ cleaner' = [c \in Cleaners |-> "none"]
          /\ sweep' = sweep /\ kept' = tree.dirty /\ UNCHANGED <<tree, branch, origin>>
      BY <2>9 DEF DaemonDies
    <3> QED
      BY <3>1 DEF RepoOK, Undisturbed, SavedFirst, LeftIsKept
  <2>10. CASE Requeued \/ FilingDecided \/ Filed
    <3>1. /\ RepoOK' /\ tree' = tree /\ kept' = kept
          /\ UNCHANGED <<run, sweep, overlap>>
      BY <2>10, <2>a DEF Requeued, FilingDecided, Filed, wtGhosts
    <3>2. \/ cleaner' = cleaner
          \/ run = "none" /\ \E c \in Cleaners :
                cleaner[c] = "none" /\ cleaner' = [cleaner EXCEPT ![c] = "decided"]
          \/ \E c \in Cleaners :
                cleaner[c] = "decided" /\ cleaner' = [cleaner EXCEPT ![c] = "checkpoint"]
      BY <2>10 DEF Requeued, FilingDecided, Filed
    <3> QED
      BY <3>1, <3>2 DEF Undisturbed, SavedFirst, LeftIsKept, CleaningUp
  <2>11. CASE WorkerSettles
    <3>1. CleanUp(run, run') /\ UNCHANGED <<cleaner, sweep, overlap>>
      BY <2>11 DEF WorkerSettles, wtGhosts
    <3>2. /\ run \in {"checkpoint", "remove"} /\ run' \in {"none", "remove"}
          /\ RepoOK'
          /\ tree'.dirty = {} \/ tree'.dirty = tree.dirty
          /\ tree'.dirty \subseteq kept'
          /\ run' = "remove" => tree'.dirty = {}
      BY <3>1, CleanUpLeaves
    <3> QED
      BY <3>1, <3>2 DEF Undisturbed, SavedFirst, LeftIsKept
  <2>12. CASE CleanerCleans
    <3>1. PICK c \in Cleaners, next \in {"remove", "none"} :
            CleanUp(cleaner[c], next) /\ cleaner' = [cleaner EXCEPT ![c] = next]
      BY <2>12 DEF CleanerCleans
    <3>2. /\ cleaner[c] \in {"checkpoint", "remove"}
          /\ RepoOK'
          /\ tree'.dirty = {} \/ tree'.dirty = tree.dirty
          /\ tree'.dirty \subseteq kept'
          /\ next = "remove" => tree'.dirty = {}
      BY <3>1, CleanUpLeaves
    <3>3. UNCHANGED <<run, sweep, overlap>>
      BY <2>12 DEF CleanerCleans, wtGhosts
    <3>4. run \in Setup \cup {"in"} => overlap
      BY <3>2 DEF Undisturbed, CleaningUp
    <3> QED
      BY <3>1, <3>2, <3>3, <3>4 DEF Undisturbed, SavedFirst, LeftIsKept
  <2>13. CASE RecoverLists
    <3>1. RepoOK' /\ tree' = tree /\ kept' = kept
      BY <2>13, <2>a, <2>b DEF RecoverLists
    <3>2. /\ run # "in" /\ UNCHANGED <<run, cleaner>> /\ sweep' = "checkpoint"
          /\ overlap' = (overlap \/ run \in Setup)
      BY <2>13 DEF RecoverLists
    <3> QED
      BY <3>1, <3>2 DEF Undisturbed, SavedFirst, LeftIsKept, CleaningUp
  <2>14. CASE RecoverCleans
    <3>1. /\ CleanUp(sweep, sweep') \/ CheckpointOrRemove(sweep, sweep')
          /\ UNCHANGED <<run, cleaner, overlap>>
      BY <2>14 DEF RecoverCleans, CleanUp, wtGhosts
    <3>2. /\ sweep \in {"checkpoint", "remove"} /\ sweep' \in {"none", "remove"}
          /\ RepoOK'
          /\ tree'.dirty = {} \/ tree'.dirty = tree.dirty
          /\ tree'.dirty \subseteq kept'
      BY <3>1, CleanUpLeaves
    <3> QED
      BY <3>1, <3>2 DEF Undisturbed, SavedFirst, LeftIsKept, CleaningUp
  <2>15. CASE UNCHANGED wtVars
    <3>1. UNCHANGED <<run, cleaner, sweep, overlap>> /\ UNCHANGED repo
      BY <2>15 DEF wtVars, actors, wtGhosts
    <3> QED
      BY <2>a, <3>1 DEF Undisturbed, SavedFirst, LeftIsKept, CleaningUp
  <2> QED
    BY <2>1, <2>2, <2>3, <2>4, <2>5, <2>6, <2>7, <2>8, <2>9, <2>10, <2>11, <2>12,
       <2>13, <2>14, <2>15 DEF WtNext
<1> QED
  BY <1>1, <1>2, PTL

\* However many goroutines clean up after the runs of a task, whenever a handler
\* decides to file the task away and the daemon dies or recover is called: only
\* what was under way or decided on while a run was set up takes its tree.
THEOREM TreeKept == PartsSpec => []KeepsItsTree
<1>1. WtInv => KeepsItsTree
  BY DEF WtInv, Undisturbed, KeepsItsTree
<1> QED
  BY <1>1, WorktreeTurns, WtInvHolds, PTL

\* Nor does a clean-up of the daemon, or a run that clears its place, take edits
\* that are on no branch, but for those an earlier checkpoint failed to commit
\* or a dead daemon left: these a new run destroys.
THEOREM OnlyCommittedGoes == PartsSpec => RemovesOnlyCommitted
<1>1. WtInv /\ [WtNext]_wtVars
        => [~overlap /\ sweep = "none" /\ tree.there /\ ~tree'.there
              => tree.dirty \subseteq branch'.tip
                    \cup (IF run \in Adding THEN kept ELSE {})]_wtVars
  <2> SUFFICES ASSUME WtInv, WtNext, ~overlap, sweep = "none",
                      tree.there, ~tree'.there
               PROVE  tree.dirty = {} \/ (run \in Adding /\ tree.dirty \subseteq kept)
    OBVIOUS
  <2> USE DEF WtInv
  <2>1. ~CheckpointSaves /\ ~CheckpointFails /\ ~UNCHANGED tree
    BY DEF CheckpointSaves, CheckpointFails, CleanTree
  <2>2. CASE ClearsTree
    <3>1. run \in Adding /\ ~CleaningUp
      BY <2>2 DEF ClearsTree, Undisturbed, Setup
    <3>2. tree.dirty \subseteq kept
      BY <3>1 DEF LeftIsKept, CleaningUp, Adding
    <3> QED
      BY <3>1, <3>2
  <2>3. CASE WorkerSettles
    <3>1. run = "remove"
      BY <2>1, <2>3 DEF WorkerSettles, CleanUp, CheckpointOrKeep, ThenRemove, repo
    <3> QED
      BY <3>1 DEF SavedFirst
  <2>4. CASE CleanerCleans
    <3>1. \E c \in Cleaners : cleaner[c] = "remove"
      BY <2>1, <2>4 DEF CleanerCleans, CleanUp, CheckpointOrKeep, ThenRemove, repo
    <3> QED
      BY <3>1 DEF SavedFirst
  <2>5. ~RecoverCleans
    BY DEF RecoverCleans, CheckpointOrRemove, ThenRemove
  <2>6. ~AgentEdits /\ ~Adds /\ ~AgentPushes
    BY <2>1 DEF AgentEdits, Adds, AgentPushes, CleanTree, RepoOK, TreeTypes
  <2>7. /\ ~FreshRun /\ ~ResumedRun /\ ~ClearsBranch /\ ~AddFails /\ ~CreatesRun
        /\ ~Succeeds /\ ~Interrupted /\ ~DaemonDies /\ ~Requeued /\ ~FilingDecided
        /\ ~Filed /\ ~RecoverLists
    BY <2>1 DEF FreshRun, ResumedRun, Begins, ClearsBranch, AddFails, CreatesRun,
       Succeeds, Interrupted, DaemonDies, Requeued, FilingDecided, Filed, RecoverLists,
       repo
  <2> QED
    BY <2>2, <2>3, <2>4, <2>5, <2>6, <2>7 DEF WtNext
<1> QED
  BY <1>1, WorktreeTurns, WtInvHolds, PTL DEF RemovesOnlyCommitted

-----------------------------------------------------------------------------
(* Keeping the machine awake.                                              *)

\* The one child alive is the one in m.cmd; after the exit no broadcast is left.
CaffInv ==
    /\ living \subseteq Children /\ living \subseteq {cmd}
    /\ worker \in [Slots -> [at : {"none", "starting", "in", "in-read", "left", "left-read"},
                             count : Nat]]
    /\ up = "down" => living = {} /\ \A w \in Slots : worker[w].at = "none"

LEMMA CaffInvHolds ==
    ASSUME IsFiniteSet(Slots)
    PROVE  CaffInit /\ [][CaffNext]_caffVars => []CaffInv
<1>1. CaffInit => CaffInv
  BY CaffeinateAssumption DEF CaffInit, CaffInv, Rest
<1>2. RunningCount \in Nat
  <2>1. {w \in Slots : worker[w].at \in {"starting", "in", "in-read"}} \subseteq Slots
    OBVIOUS
  <2> QED
    BY <2>1, FS_Subset, FS_CardinalityType DEF RunningCount
<1>3. CaffInv /\ [CaffNext]_caffVars => CaffInv'
  <2> SUFFICES ASSUME CaffInv, [CaffNext]_caffVars PROVE CaffInv'
    OBVIOUS
  <2> USE CaffeinateAssumption DEF CaffInv
  <2>1. ASSUME NEW w \in Slots, Launch(w) PROVE CaffInv'
    BY <2>1 DEF Launch, Moves, process
  <2>2. ASSUME NEW w \in Slots, Leave(w) PROVE CaffInv'
    BY <2>2 DEF Leave, Moves, process
  <2>3. ASSUME NEW w \in Slots, ReadCount(w) PROVE CaffInv'
    BY <2>3, <1>2 DEF ReadCount, Moves, process
  <2>4. ASSUME NEW w \in Slots, PassCount(w) PROVE CaffInv'
    BY <2>4 DEF PassCount, Moves, SetAutomatic, Spawn, Kill, process
  <2>5. CASE Toggle
    BY <2>5 DEF Toggle, Spawn, Kill, process
  <2>6. CASE Reap
    BY <2>6 DEF Reap
  <2>7. CASE ChildDies
    BY <2>7 DEF ChildDies
  <2>8. CASE Signal
    BY <2>8 DEF Signal, process
  <2>9. CASE Shutdown
    BY <2>9 DEF Shutdown, Kill, process
  <2>10. CASE UNCHANGED caffVars
    BY <2>10 DEF caffVars, process
  <2> QED
    BY <2>1, <2>2, <2>3, <2>4, <2>5, <2>6, <2>7, <2>8, <2>9, <2>10 DEF CaffNext
<1> QED
  BY <1>1, <1>3, PTL

\* For any number of runs, children and toggles: no child of caffeinate is alive
\* that the manager does not know, and none after an orderly exit.
THEOREM NoStrayChildHolds ==
    ASSUME IsFiniteSet(Slots)
    PROVE  PartsSpec => []NoStrayChild
<1>1. CaffInv => NoStrayChild
  BY DEF CaffInv, NoStrayChild
<1> QED
  BY <1>1, CaffeinateTurns, CaffInvHolds, PTL

-----------------------------------------------------------------------------
(* Captures.                                                               *)

\* What a sweep still has to do is older than its window, and ages only grow.
CapturesInv ==
    /\ days \in [Recorded -> Nat] /\ window \in Int
    /\ video \in [Recorded -> BOOLEAN]
    /\ prune \in [at : {"idle", "next", "clear"}, window : Int, todo : SUBSET Recorded,
                  hand : Recorded \cup {NoCapture}]
    /\ prune.at # "idle" => 0 < prune.window
    /\ \A c \in prune.todo : prune.window < days[c]
    /\ prune.at = "idle" => prune.todo = {}

LEMMA CapturesInvHolds == CapturesInit /\ [][CapturesNext]_captureVars => []CapturesInv
<1> USE CapturesAssumption DEF CapturesInv
<1>1. CapturesInit => CapturesInv
  BY DEF CapturesInit, NotSweeping
<1>2. CapturesInv /\ [CapturesNext]_captureVars => CapturesInv'
  <2> SUFFICES ASSUME CapturesInv, [CapturesNext]_captureVars PROVE CapturesInv'
    OBVIOUS
  <2>1. CASE CreateCapture \/ SetsWindow \/ VideoWritten
    BY <2>1 DEF CreateCapture, SetsWindow, VideoWritten
  <2>2. ASSUME NEW f \in Finishers, FinishLooks(f) \/ FinishCapture(f) PROVE CapturesInv'
    BY <2>2 DEF FinishLooks, FinishCapture
  <2>3. CASE SweepLists
    <3>1. /\ window > 0 /\ UNCHANGED <<video, days, window>>
          /\ prune' = [at |-> "next", window |-> window, hand |-> NoCapture,
                       todo |-> {c \in Recorded : capture[c].path /\ days[c] > window}]
      BY <2>3 DEF SweepLists, NotSweeping
    <3> QED
      BY <3>1
  <2>4. CASE SweepRemoves
    <3>1. PICK c \in prune.todo :
            \/ Clears(c) /\ video' = [video EXCEPT ![c] = FALSE]
            \/ video[c] /\ Skips(c) /\ UNCHANGED video
      BY <2>4, Zenon DEF SweepRemoves
    <3>2. prune.at = "next" /\ UNCHANGED <<days, window>>
      BY <2>4, Zenon DEF SweepRemoves
    <3>3. video' \in [Recorded -> BOOLEAN]
      BY <3>1
    <3>4. c \in Recorded /\ prune.todo \ {c} \subseteq Recorded
      OBVIOUS
    <3>5. /\ prune' \in [at : {"idle", "next", "clear"}, window : Int,
                          todo : SUBSET Recorded, hand : Recorded \cup {NoCapture}]
          /\ prune'.at # "idle" /\ prune'.window = prune.window
          /\ prune'.todo = prune.todo \ {c}
      <4>1. CASE Clears(c)
        BY <3>4, <4>1 DEF Clears
      <4>2. CASE Skips(c)
        BY <3>2, <3>4, <4>2 DEF Skips
      <4> QED
        BY <3>1, <4>1, <4>2
    <3> QED
      BY <3>2, <3>3, <3>5
  <2>5. CASE SweepClears
    BY <2>5 DEF SweepClears
  <2>6. CASE SweepEnds \/ SweepDies
    BY <2>6 DEF SweepEnds, SweepDies, NotSweeping
  <2>7. CASE DayPasses
    BY <2>7 DEF DayPasses
  <2>8. CASE UNCHANGED captureVars
    BY <2>8 DEF captureVars
  <2> QED
    BY <2>1, <2>2, <2>3, <2>4, <2>5, <2>6, <2>7, <2>8 DEF CapturesNext
<1> QED
  BY <1>1, <1>2, PTL

\* However the setting changes and however often a sweep is cut short: only a
\* video older than the window of its sweep goes.
THEOREM OnlyAgedPruned == PartsSpec => PrunesOnlyAged
<1>1. CapturesInv /\ [CapturesNext]_captureVars
        => [\A c \in Recorded : video[c] /\ ~video'[c]
              => 0 < prune.window /\ prune.window < days[c]]_captureVars
  <2> SUFFICES ASSUME CapturesInv, CapturesNext, NEW c \in Recorded, video[c], ~video'[c]
               PROVE  0 < prune.window /\ prune.window < days[c]
    BY DEF captureVars
  <2>1. SweepRemoves
    BY DEF CapturesInv, CapturesNext, CreateCapture, SetsWindow, VideoWritten, FinishLooks,
        FinishCapture, SweepLists, SweepClears, SweepEnds, SweepDies, DayPasses
  <2>2. prune.at = "next" /\ c \in prune.todo
    BY <2>1 DEF CapturesInv, SweepRemoves
  <2> QED
    BY <2>2 DEF CapturesInv
<1> QED
  BY <1>1, CapturesTurns, CapturesInvHolds, PTL DEF PrunesOnlyAged
-----------------------------------------------------------------------------
(* Installing the speech model.                                            *)

\* Unless Init wrote over it, the state says whether an install is under way,
\* and there is one at most; whoever waits, waits for one that will answer.
Busy == {"downloading", "fetched", "failed"}

WhisperInv ==
    /\ WhisperTypeOK
    /\ ~passed =>
        /\ \A i \in Installers : installer[i].at \in Busy => state = "installing" /\ install = i
        /\ state = "installing" => install \in Installers /\ installer[install].at \in Busy
        /\ \A i \in Installers : installer[i].at = "waiting" =>
              /\ installer[i].for \in Installers
              /\ installer[installer[i].for].at \in Busy \cup {"closing"}

LEMMA WhisperInvHolds == WhisperInit /\ [][WhisperNext]_whisperVars => []WhisperInv
<1> USE WhisperAssumption DEF WhisperInv, WhisperTypeOK, WhisperStates, InstallerAt, Busy
<1>1. WhisperInit => WhisperInv
  BY DEF WhisperInit
<1>2. WhisperInv /\ [WhisperNext]_whisperVars => WhisperInv'
  <2> SUFFICES ASSUME WhisperInv, [WhisperNext]_whisperVars PROVE WhisperInv'
    OBVIOUS
  <2>1. CASE InitBegins
    BY <2>1 DEF InitBegins, SetsState
  <2>2. CASE InitEnds
    BY <2>2 DEF InitEnds, SetsState
  <2>3. ASSUME NEW i \in Installers, InstallBegins(i) PROVE WhisperInv'
    BY <2>3 DEF InstallBegins
  <2>4. ASSUME NEW i \in Installers, DownloadEnds(i) PROVE WhisperInv'
    BY <2>4 DEF DownloadEnds
  <2>5. ASSUME NEW i \in Installers, InstallEnds(i) PROVE WhisperInv'
    BY <2>5 DEF InstallEnds
  <2>6. ASSUME NEW i \in Installers, ChannelClosed(i) PROVE WhisperInv'
    BY <2>6 DEF ChannelClosed
  <2>7. CASE Close
    BY <2>7 DEF Close
  <2>8. CASE UNCHANGED whisperVars
    BY <2>8 DEF whisperVars
  <2> QED
    BY <2>1, <2>2, <2>3, <2>4, <2>5, <2>6, <2>7, <2>8 DEF WhisperNext
<1> QED
  BY <1>1, <1>2, PTL

\* However many ask to install, and whenever the daemon closes: one download at
\* a time, and nobody waits for nothing, unless Init wrote over an install.
THEOREM OneDownloadHolds == PartsSpec => []OneDownloadUnlessPassed
<1>1. WhisperInv => OneDownloadUnlessPassed
  <2> SUFFICES ASSUME WhisperInv, ~passed PROVE OneDownloadUnlessPassed
    BY DEF OneDownloadUnlessPassed
  <2>1. \A i \in Downloading : install = i
    BY DEF WhisperInv, Downloading, Busy
  <2>2. Cardinality(Downloading) <= 1
    <3>1. Downloading = {} \/ Downloading = {install}
      BY <2>1
    <3>2. Cardinality({}) = 0 /\ Cardinality({install}) = 1
      BY FS_EmptySet, FS_Singleton
    <3>3. Cardinality(Downloading) = 0 \/ Cardinality(Downloading) = 1
      BY <3>1, <3>2
    <3> QED
      BY <3>3
  <2> QED
    BY <2>1, <2>2 DEF WhisperInv, Busy, OneDownload, OneDownloadUnlessPassed
<1> QED
  BY <1>1, WhisperTurns, WhisperInvHolds, PTL

-----------------------------------------------------------------------------
(* Access tokens.                                                          *)

Entries == [access : Nat, refresh : Nat, fresh : BOOLEAN]
Tokens == [of : Items, access : Nat]
CallerStates == [at : {"idle", "wait", "asking", "persist", "verify", "done"},
                 of : Items, bundle : Entries, got : Entries, token : Tokens]

\* Every token that can be handed out next has been stored: those of entries,
\* of fresh memos, and of callers past their write.
CredTypes ==
    /\ item \in [Items -> Entries]
    /\ server \in [Items -> [honours : Nat, issued : Nat]]
    /\ memo \in [Processes -> [token : Tokens, recent : BOOLEAN]]
    /\ caller \in [Callers -> CallerStates]

StoredAt(c) ==
    /\ CallerAt(c, "verify")
          => [of |-> caller[c].of, access |-> caller[c].got.access] \in written
    /\ CallerAt(c, "done") => caller[c].token \in written

CredInv ==
    /\ CredTypes
    /\ \A i \in Items : item[i].access # 0 => [of |-> i, access |-> item[i].access] \in written
    /\ \A p \in Processes : memo[p].recent => memo[p].token \in written
    /\ \A c \in Callers : StoredAt(c)

\* One caller goes on: what it may hand out is stored, and what is stored stays.
LEMMA CallerGoesOn ==
    ASSUME CredInv, NEW c \in Callers, NEW x \in CallerStates,
           caller' = [caller EXCEPT ![c] = x],
           item' \in [Items -> Entries], server' \in [Items -> [honours : Nat, issued : Nat]],
           memo' \in [Processes -> [token : Tokens, recent : BOOLEAN]],
           written \subseteq written',
           \A i \in Items : \/ item'[i].access = item[i].access
                            \/ [of |-> i, access |-> item'[i].access] \in written',
           \A p \in Processes : memo'[p] = memo[p] \/ memo'[p].token \in written',
           x.at = "verify" => [of |-> x.of, access |-> x.got.access] \in written',
           x.at = "done" => x.token \in written'
    PROVE  CredInv'
<1>1. caller'[c] = x /\ \A d \in Callers \ {c} : caller'[d] = caller[d]
  BY DEF CredInv, CredTypes
<1>2. CredTypes'
  BY DEF CredInv, CredTypes
<1>3. ASSUME NEW i \in Items, item'[i].access # 0
      PROVE  [of |-> i, access |-> item'[i].access] \in written'
  <2>1. item[i].access # 0 => [of |-> i, access |-> item[i].access] \in written
    BY DEF CredInv
  <2> QED
    BY <1>3, <2>1
<1>4. \A p \in Processes : memo'[p].recent => memo'[p].token \in written'
  BY DEF CredInv
<1>5. ASSUME NEW d \in Callers PROVE StoredAt(d)'
  <2>1. CASE d = c
    BY <1>1, <2>1 DEF StoredAt, CallerAt
  <2>2. CASE d # c
    <3>1. StoredAt(d)
      BY DEF CredInv
    <3> QED
      BY <1>1, <2>2, <3>1 DEF StoredAt, CallerAt
  <2> QED
    BY <2>1, <2>2
<1> QED
  BY <1>2, <1>3, <1>4, <1>5 DEF CredInv

LEMMA CredInvHolds == CredInit /\ [][CredNext]_credVars => []CredInv
<1> USE CredentialsAssumption
<1>0. /\ NoEntry \in Entries /\ NoToken \in Tokens /\ Nobody \in CallerStates
      /\ Nobody.at = "idle" /\ NoMemo \in [token : Tokens, recent : BOOLEAN] /\ ~NoMemo.recent
  BY DEF NoEntry, NoToken, Nobody, NoMemo, Entries, Tokens, CallerStates
<1>1. CredInit => CredInv
  <2> SUFFICES ASSUME CredInit PROVE CredInv
    OBVIOUS
  <2>1. CredTypes
    BY <1>0 DEF CredInit, CredTypes, Entries
  <2>2. \A i \in Items : item[i].access # 0 => [of |-> i, access |-> item[i].access] \in written
    BY DEF CredInit, NoEntry
  <2> QED
    BY <1>0, <2>1, <2>2 DEF CredInit, CredInv, StoredAt, CallerAt
<1>2. CredInv /\ [CredNext]_credVars => CredInv'
  <2> SUFFICES ASSUME CredInv, [CredNext]_credVars PROVE CredInv'
    OBVIOUS
  <2>0. /\ \A c \in Callers : Home[c] \in Processes
        /\ \A i \in Items, token \in Tokens :
            /\ Gets(i, token) \in CallerStates
            /\ Gets(i, token).at = "done" /\ Gets(i, token).token = token
    BY <1>0 DEF Processes, Gets, Nobody, CallerStates
  <2>t. CredTypes
    BY DEF CredInv
  <2>c. ASSUME NEW c \in Callers
        PROVE  /\ caller[c] \in CallerStates /\ caller[c].of \in Items
               /\ caller[c].bundle \in Entries /\ caller[c].got \in Entries
               /\ server[caller[c].of] \in [honours : Nat, issued : Nat]
    BY <2>t DEF CredTypes, CallerStates
  <2>a. ASSUME NEW c \in Callers, NEW x \in CallerStates,
               caller' = [caller EXCEPT ![c] = x], UNCHANGED <<item, server, memo, written>>,
               x.at # "verify", x.at = "done" => x.token \in written
        PROVE  CredInv'
    BY <2>a, <2>t, CallerGoesOn DEF CredTypes
  <2>1. ASSUME NEW c \in Callers, NEW i \in Items, ReadBundle(c, i) PROVE CredInv'
    <3> DEFINE e == EntryFor(i)
    <3> DEFINE got == [of |-> e, access |-> item[e].access]
    <3> DEFINE waits == [Nobody EXCEPT !.at = "wait", !.of = e, !.bundle = item[e]]
    <3>1. e \in Items /\ item[e] \in Entries
      BY <2>t DEF EntryFor, CredTypes
    <3>2. got \in Tokens /\ got \in written
      BY <2>1, <3>1 DEF ReadBundle, Entries, Tokens, CredInv
    <3>3. waits \in CallerStates /\ waits.at = "wait"
      BY <1>0, <3>1 DEF CallerStates, Nobody
    <3>4. \/ caller' = [caller EXCEPT ![c] = Gets(e, got)]
          \/ caller' = [caller EXCEPT ![c] = waits]
      BY <2>1 DEF ReadBundle
    <3>5. UNCHANGED <<item, server, memo, written>>
      BY <2>1 DEF ReadBundle, ghosts
    <3> HIDE DEF e, got, waits
    <3> QED
      BY <2>a, <2>0, <3>1, <3>2, <3>3, <3>4, <3>5
  <2>2. ASSUME NEW c \in Callers, EnterRefresh(c) PROVE CredInv'
    <3>0. UNCHANGED <<item, server, memo, written>>
      BY <2>2 DEF EnterRefresh, ghosts
    <3>1. CASE memo[Home[c]].recent
      <4> DEFINE token == memo[Home[c]].token
      <4>1. caller' = [caller EXCEPT ![c] = Gets(caller[c].of, token)]
        BY <2>2, <3>1 DEF EnterRefresh
      <4>2. token \in Tokens /\ token \in written
        BY <2>0, <2>t, <3>1 DEF CredInv, CredTypes
      <4> HIDE DEF token
      <4> DEFINE x == Gets(caller[c].of, token)
      <4>3. x \in CallerStates /\ x.at = "done" /\ x.token = token
        BY <2>0, <2>c, <4>2
      <4> HIDE DEF x
      <4>4. caller' = [caller EXCEPT ![c] = x]
        BY <4>1 DEF x
      <4> QED
        BY <2>a, <3>0, <4>2, <4>3, <4>4
    <3>2. CASE ~memo[Home[c]].recent
      <4> DEFINE x == [caller[c] EXCEPT !.at = "asking"]
      <4>1. caller' = [caller EXCEPT ![c] = x]
        BY <2>2, <3>2 DEF EnterRefresh
      <4>2. x \in CallerStates /\ x.at = "asking"
        BY <2>c DEF CallerStates
      <4> HIDE DEF x
      <4> QED
        BY <2>a, <3>0, <4>1, <4>2
    <3> QED
      BY <3>1, <3>2
  <2>3. ASSUME NEW c \in Callers, ServerGrants(c) PROVE CredInv'
    <3> DEFINE i == caller[c].of
               n == server[i].issued + 1
               g == [access |-> n, fresh |-> TRUE,
                     refresh |-> IF i \in Rotating THEN n ELSE 0]
               y == [honours |-> IF i \in Rotating THEN n ELSE server[i].honours, issued |-> n]
               x == [caller[c] EXCEPT !.at = "persist", !.got = g]
    <3>0. n \in Nat /\ server[i].honours \in Nat
      BY <2>c
    <3>1. caller' = [caller EXCEPT ![c] = x] /\ server' = [server EXCEPT ![i] = y]
      BY <2>3 DEF ServerGrants
    <3>2. g \in Entries /\ y \in [honours : Nat, issued : Nat]
      BY <3>0 DEF Entries
    <3> HIDE DEF g, y
    <3>3. x \in CallerStates /\ x.at = "persist"
      BY <2>c, <3>2 DEF CallerStates
    <3>4. UNCHANGED <<item, memo, written>>
      BY <2>3 DEF ServerGrants, ghosts
    <3>5. server' \in [Items -> [honours : Nat, issued : Nat]]
      BY <2>t, <3>1, <3>2 DEF CredTypes
    <3> HIDE DEF x
    <3> QED
      BY <2>t, <3>1, <3>3, <3>4, <3>5, CallerGoesOn DEF CredTypes
  <2>4. ASSUME NEW c \in Callers, Persist(c) PROVE CredInv'
    <3> DEFINE i == caller[c].of
               y == Updated(caller[c].bundle, caller[c].got)
               x == [caller[c] EXCEPT !.at = "verify"]
               token == [of |-> i, access |-> caller[c].got.access]
    <3>1. /\ caller' = [caller EXCEPT ![c] = x] /\ item' = [item EXCEPT ![i] = y]
          /\ written' = written \cup {token} /\ UNCHANGED <<server, memo>>
      BY <2>4 DEF Persist
    <3>2. y \in Entries /\ y.access = caller[c].got.access
      BY <2>c DEF Updated, Entries
    <3>3. x \in CallerStates /\ x.of = i /\ x.got = caller[c].got
      BY <2>c DEF CallerStates
    <3> HIDE DEF x, y
    <3>4. /\ item' \in [Items -> Entries]
          /\ \A j \in Items : item'[j] = IF j = i THEN y ELSE item[j]
      BY <2>t, <3>1, <3>2 DEF CredTypes
    <3>5. \A j \in Items : \/ item'[j].access = item[j].access
                           \/ [of |-> j, access |-> item'[j].access] \in written'
      BY <3>1, <3>2, <3>4
    <3>6. x.at = "verify"
      BY <2>c DEF x, CallerStates
    <3> QED
      BY <2>t, <3>1, <3>3, <3>4, <3>5, <3>6, CallerGoesOn DEF CredTypes
  <2>5. ASSUME NEW c \in Callers, Verify(c) PROVE CredInv'
    <3> DEFINE token == [of |-> caller[c].of, access |-> caller[c].got.access]
               m == [token |-> token, recent |-> TRUE]
    <3>1. token \in Tokens /\ token \in written
      <4>1. StoredAt(c) /\ caller[c].at = "verify"
        BY <2>5 DEF CredInv, Verify, CallerAt
      <4>2. caller[c].got.access \in Nat
        BY <2>c DEF Entries
      <4> QED
        BY <2>c, <4>1, <4>2 DEF StoredAt, CallerAt, Tokens
    <3>2. /\ memo' = [memo EXCEPT ![Home[c]] = m]
          /\ caller' = [caller EXCEPT ![c] = Gets(caller[c].of, token)]
          /\ UNCHANGED <<item, server, written>>
      BY <2>5 DEF Verify, ghosts
    <3> HIDE DEF token
    <3>3. m \in [token : Tokens, recent : BOOLEAN] /\ m.token \in written
      BY <3>1
    <3> HIDE DEF m
    <3>4. /\ memo' \in [Processes -> [token : Tokens, recent : BOOLEAN]]
          /\ \A p \in Processes : memo'[p] = memo[p] \/ memo'[p].token \in written
      BY <2>0, <2>t, <3>2, <3>3 DEF CredTypes
    <3>5. /\ Gets(caller[c].of, token) \in CallerStates
          /\ Gets(caller[c].of, token).at = "done"
          /\ Gets(caller[c].of, token).token = token
      BY <2>0, <2>c, <3>1
    <3> QED
      BY <2>t, <3>1, <3>2, <3>4, <3>5, CallerGoesOn DEF CredTypes
  <2>6. ASSUME NEW c \in Callers, RefreshFails(c) \/ Use(c) PROVE CredInv'
    BY <1>0, <2>a, <2>6 DEF RefreshFails, Use, ghosts
  <2>8. ASSUME NEW p \in Processes, ProcessDies(p) PROVE CredInv'
    BY <1>0, <2>8 DEF ProcessDies, CredInv, CredTypes, StoredAt, CallerAt
  <2>9. CASE TokenExpires
    <3>1. PICK i \in Items : item' = [item EXCEPT ![i] = [item[i] EXCEPT !.fresh = FALSE]]
      BY <2>9 DEF TokenExpires
    <3>2. /\ [item[i] EXCEPT !.fresh = FALSE] \in Entries
          /\ [item[i] EXCEPT !.fresh = FALSE].access = item[i].access
      BY <2>t DEF CredTypes, Entries
    <3>3. item' \in [Items -> Entries] /\ \A j \in Items : item'[j].access = item[j].access
      BY <2>t, <3>1, <3>2 DEF CredTypes
    <3>4. UNCHANGED <<server, memo, caller, written>>
      BY <2>9 DEF TokenExpires, ghosts
    <3> QED
      BY <3>3, <3>4 DEF CredInv, CredTypes, StoredAt, CallerAt
  <2>10. CASE MemoAges
    <3>1. PICK p \in Processes : memo' = [memo EXCEPT ![p] = [memo[p] EXCEPT !.recent = FALSE]]
      BY <2>10 DEF MemoAges
    <3>2. UNCHANGED <<item, server, caller, written>>
      BY <2>10 DEF MemoAges, ghosts
    <3>3. /\ memo' \in [Processes -> [token : Tokens, recent : BOOLEAN]]
          /\ \A q \in Processes : memo'[q].recent => memo'[q] = memo[q]
      BY <2>t, <3>1 DEF CredTypes
    <3> QED
      BY <3>2, <3>3 DEF CredInv, CredTypes, StoredAt, CallerAt
  <2>11. CASE UNCHANGED credVars
    BY <2>11 DEF credVars, CredInv, CredTypes, StoredAt, CallerAt, ghosts
  <2> QED
    BY <2>1, <2>2, <2>3, <2>4, <2>5, <2>6, <2>8, <2>9, <2>10, <2>11 DEF CredNext
<1> QED
  BY <1>1, <1>2, PTL

\* For any number of processes, callers and entries: a token in use has been
\* stored, whoever refreshed it and whoever died meanwhile.
THEOREM UsedIsStoredHolds == PartsSpec => []UsedIsStored
<1>1. CredInv => UsedIsStored
  BY DEF CredInv, StoredAt, UsedIsStored
<1> QED
  BY <1>1, CredentialsTurns, CredInvHolds, PTL

\* The refresh tokens of one entry.
Waits(c, i) == caller[c].of = i /\ caller[c].at \in {"wait", "asking"}
Persists(c, i) == caller[c].of = i /\ caller[c].at = "persist"

\* What a caller or the entry holds has been issued.
Issued(i) ==
    /\ server[i].honours \in 1 .. server[i].issued
    /\ item[i].access # 0 => item[i].refresh \in 1 .. server[i].issued
    /\ \A c \in Callers : Waits(c, i) \/ Persists(c, i) =>
          /\ item[i].access # 0
          /\ caller[c].bundle.refresh \in 1 .. server[i].issued
    /\ \A c \in Callers : Persists(c, i) =>
          /\ caller[c].got.access # 0
          /\ caller[c].got.refresh \in 0 .. server[i].issued

\* Where the server does not rotate there is one token for ever.
OneForEver(i) ==
    i \notin Rotating =>
        /\ item[i].access # 0 => item[i].refresh = server[i].honours
        /\ \A c \in Callers : Waits(c, i) \/ Persists(c, i) =>
              caller[c].bundle.refresh = server[i].honours
        /\ \A c \in Callers : Persists(c, i) => caller[c].got.refresh = 0

\* Where it does, the one it honours is in the entry, or with the one caller
\* that is about to write it, unless it was lost on the way.
Handed(i) ==
    i \in Rotating \ lost =>
        /\ item[i].access # 0 /\ item[i].refresh # server[i].honours =>
              \E c \in Callers : Persists(c, i)
        /\ \A c \in Callers : Persists(c, i) =>
              /\ caller[c].got.refresh = server[i].honours
              /\ item[i].refresh # server[i].honours
              /\ \A d \in Callers : /\ Persists(d, i) => d = c
                                    /\ Waits(d, i) => caller[d].bundle.refresh
                                                         # server[i].honours

LoginAt(i) ==
    /\ Issued(i) /\ OneForEver(i) /\ Handed(i)
    /\ i \in Rotating => server[i].issued = server[i].honours

LoginInv == CredInv /\ \A i \in Items : LoginAt(i)

\* What is known of an entry holds as long as it, its tokens and whoever waits
\* for it or writes it stay.
LEMMA LoginStays ==
    ASSUME NEW i, LoginAt(i), UNCHANGED <<item[i], server[i]>>, lost' = lost,
           \A d \in Callers :
              /\ Waits(d, i)' <=> Waits(d, i)
              /\ Persists(d, i)' <=> Persists(d, i)
              /\ Waits(d, i) \/ Persists(d, i) => caller'[d] = caller[d]
    PROVE  LoginAt(i)'
<1>1. Issued(i)'
  BY DEF LoginAt, Issued
<1>2. OneForEver(i)'
  BY DEF LoginAt, OneForEver
<1>3. Handed(i)'
  BY DEF LoginAt, Handed
<1> QED
  BY <1>1, <1>2, <1>3 DEF LoginAt

\* Callers who wait on, or who are done, one way or another.
LEMMA CallersLeave ==
    ASSUME CredInv, CredInv', LoginInv, UNCHANGED <<item, server>>, lost \subseteq lost',
           \A d \in Callers :
              \/ caller'[d] = caller[d]
              \/ /\ caller'[d].at \notin {"wait", "asking", "persist"}
                 /\ caller[d].at = "persist" => caller[d].of \in lost'
              \/ /\ caller[d].at \in {"wait", "asking"}
                 /\ caller'[d].at \in {"wait", "asking"}
                 /\ caller'[d].of = caller[d].of
                 /\ caller'[d].bundle = caller[d].bundle
    PROVE  LoginInv'
<1> SUFFICES ASSUME NEW i \in Items
             PROVE  LoginAt(i)'
  BY DEF LoginInv
<1>1. \A d \in Callers :
         /\ Waits(d, i)' => Waits(d, i) /\ caller'[d].bundle = caller[d].bundle
         /\ Persists(d, i)' => Persists(d, i) /\ caller'[d] = caller[d]
         /\ Persists(d, i) /\ i \notin lost' => Persists(d, i)'
  BY DEF Waits, Persists
<1>2. LoginAt(i)
  BY DEF LoginInv
<1> QED
  <2>1. Issued(i)'
    BY <1>1, <1>2 DEF LoginAt, Issued
  <2>2. OneForEver(i)'
    BY <1>1, <1>2 DEF LoginAt, OneForEver, Issued
  <2>3. Handed(i)'
    BY <1>1, <1>2 DEF LoginAt, Handed, Issued
  <2> QED
    BY <1>1, <1>2, <2>1, <2>2, <2>3 DEF LoginAt

LEMMA LoginInvNext ==
    ASSUME LoginInv, CredInv', [CredNext]_credVars
    PROVE  LoginInv'
<1> USE CredentialsAssumption
<1>0. /\ CredInv /\ item \in [Items -> Entries]
      /\ server \in [Items -> [honours : Nat, issued : Nat]]
      /\ caller \in [Callers -> CallerStates] /\ Nobody.at = "idle"
  BY DEF LoginInv, CredInv, CredTypes, Nobody
<1>a. ASSUME NEW c \in Callers, NEW x, caller' = [caller EXCEPT ![c] = x],
             UNCHANGED <<item, server>>, lost \subseteq lost',
             \/ /\ x.at \notin {"wait", "asking", "persist"}
                /\ caller[c].at = "persist" => caller[c].of \in lost'
             \/ /\ caller[c].at \in {"wait", "asking"} /\ x.at \in {"wait", "asking"}
                /\ x.of = caller[c].of /\ x.bundle = caller[c].bundle
      PROVE  LoginInv'
  <2>1. \A d \in Callers : caller'[d] = IF d = c THEN x ELSE caller[d]
    BY <1>0, <1>a
  <2> QED
    BY <1>0, <1>a, <2>1, CallersLeave
<1>b. \A i, token : Gets(i, token).at = "done"
  BY DEF Gets, Nobody
<1>1. ASSUME NEW c \in Callers, NEW j \in Items, ReadBundle(c, j)
      PROVE  LoginInv'
  <2> DEFINE e == EntryFor(j)
  <2> DEFINE x == [Nobody EXCEPT !.at = "wait", !.of = e, !.bundle = item[e]]
  <2>1. e \in Items /\ item[e].access # 0 /\ caller[c].at = "idle"
        /\ UNCHANGED <<item, server, lost>>
    BY <1>1 DEF ReadBundle, EntryFor, CallerAt, ghosts
  <2>2. \/ caller' = [caller EXCEPT ![c] = Gets(e, [of |-> e, access |-> item[e].access])]
        \/ caller' = [caller EXCEPT ![c] = x] /\ item[e].refresh # 0
    BY <1>1 DEF ReadBundle
  <2>3. x.at = "wait" /\ x.of = e /\ x.bundle = item[e]
    BY DEF Nobody
  <2> HIDE DEF e, x
  <2>4. CASE caller' = [caller EXCEPT ![c] = Gets(e, [of |-> e, access |-> item[e].access])]
    BY <1>a, <1>b, <2>1, <2>4
  <2>5. CASE caller' = [caller EXCEPT ![c] = x]
    <3> SUFFICES ASSUME NEW i \in Items PROVE LoginAt(i)'
      BY DEF LoginInv
    <3>1. caller'[c] = x /\ \A d \in Callers \ {c} : caller'[d] = caller[d]
      BY <1>0, <2>5
    <3>2. /\ \A d \in Callers \ {c} : /\ Waits(d, i)' <=> Waits(d, i)
                                      /\ Persists(d, i)' <=> Persists(d, i)
          /\ ~Persists(c, i)' /\ ~Persists(c, i)
          /\ Waits(c, i)' <=> i = e
      BY <2>1, <2>3, <3>1 DEF Waits, Persists
    <3>3. LoginAt(i)
      BY DEF LoginInv
    <3>4. CASE i # e
      <4>1. \A d \in Callers :
               /\ Waits(d, i)' <=> Waits(d, i)
               /\ Persists(d, i)' <=> Persists(d, i)
               /\ Waits(d, i) \/ Persists(d, i) => caller'[d] = caller[d]
        BY <2>1, <3>1, <3>2, <3>4 DEF Waits
      <4> QED
        BY <2>1, <3>3, <4>1, LoginStays
    <3>5. CASE i = e
      <4>1. /\ caller'[c].bundle = item[i] /\ item[i].access # 0
            /\ item[i].refresh \in 1 .. server[i].issued
            /\ UNCHANGED <<item[i], server[i], lost>>
        BY <2>1, <2>3, <3>1, <3>3, <3>5 DEF LoginAt, Issued
      <4>2. \A d \in Callers :
               /\ Persists(d, i)' => Persists(d, i) /\ caller'[d] = caller[d]
               /\ Persists(d, i) => Persists(d, i)'
               /\ Waits(d, i)' => d = c \/ (Waits(d, i) /\ caller'[d] = caller[d])
        BY <3>1, <3>2
      <4>3. Issued(i)'
        BY <3>3, <4>1, <4>2 DEF LoginAt, Issued
      <4>4. OneForEver(i)'
        BY <3>3, <4>1, <4>2 DEF LoginAt, OneForEver
      <4>5. Handed(i)'
        BY <3>3, <4>1, <4>2 DEF LoginAt, Handed
      <4> QED
        BY <3>3, <4>1, <4>3, <4>4, <4>5 DEF LoginAt
    <3> QED
      BY <3>4, <3>5
  <2> QED
    BY <2>2, <2>4, <2>5
<1>2. ASSUME NEW c \in Callers, EnterRefresh(c)
      PROVE  LoginInv'
  <2>1. CASE caller' = [caller EXCEPT ![c] = [caller[c] EXCEPT !.at = "asking"]]
    <3>1. /\ [caller[c] EXCEPT !.at = "asking"].at = "asking"
          /\ [caller[c] EXCEPT !.at = "asking"].of = caller[c].of
          /\ [caller[c] EXCEPT !.at = "asking"].bundle = caller[c].bundle
      BY <1>0 DEF CallerStates
    <3> QED
      BY <1>2, <1>a, <2>1, <3>1 DEF EnterRefresh, CallerAt, ghosts
  <2>2. CASE \E token : caller' = [caller EXCEPT ![c] = Gets(caller[c].of, token)]
    <3>1. PICK token : caller' = [caller EXCEPT ![c] = Gets(caller[c].of, token)]
      BY <2>2
    <3>2. /\ Gets(caller[c].of, token).at = "done" /\ caller[c].at = "wait"
          /\ UNCHANGED <<item, server, lost>>
      BY <1>2, <1>b DEF EnterRefresh, CallerAt, ghosts
    <3> QED
      BY <1>a, <3>1, <3>2
  <2> QED
    BY <1>2, <2>1, <2>2 DEF EnterRefresh
<1>3. ASSUME NEW c \in Callers, ServerGrants(c)
      PROVE  LoginInv'
  <2> DEFINE e == caller[c].of
             n == server[e].issued + 1
             g == [access |-> n, fresh |-> TRUE, refresh |-> IF e \in Rotating THEN n ELSE 0]
             x == [caller[c] EXCEPT !.at = "persist", !.got = g]
             y == [honours |-> IF e \in Rotating THEN n ELSE server[e].honours, issued |-> n]
  <2>a. e \in Items
    BY <1>0 DEF CallerStates
  <2>b. n \in Nat
    BY <1>0, <2>a
  <2>c. /\ caller[c].at = "asking" /\ caller[c].bundle.refresh = server[e].honours
        /\ UNCHANGED <<item, lost>>
    BY <1>3 DEF ServerGrants, CallerAt, ghosts
  <2>1. e \in Items /\ n \in Nat /\ caller[c].at = "asking"
        /\ caller[c].bundle.refresh = server[e].honours
        /\ UNCHANGED <<item, lost>>
    BY <2>a, <2>b, <2>c
  <2>2. caller' = [caller EXCEPT ![c] = x]
    BY <1>3 DEF ServerGrants
  <2>3. server' = [server EXCEPT ![e] = y]
    BY <1>3 DEF ServerGrants
  <2>4. /\ x.at = "persist" /\ x.of = e /\ x.bundle = caller[c].bundle
        /\ x.got.refresh = IF e \in Rotating THEN n ELSE 0
        /\ x.got.access = n
    BY <1>0 DEF CallerStates
  <2>5. y.issued = server[e].issued + 1
        /\ y.honours = IF e \in Rotating THEN server[e].issued + 1 ELSE server[e].honours
    OBVIOUS
  <2> HIDE DEF x, y, g
  <2>6. /\ caller'[c] = x /\ \A d \in Callers \ {c} : caller'[d] = caller[d]
        /\ server'[e] = y /\ \A i \in Items \ {e} : server'[i] = server[i]
    BY <1>0, <2>1, <2>2, <2>3
  <2> SUFFICES ASSUME NEW i \in Items PROVE LoginAt(i)'
    BY DEF LoginInv
  <2>7. \A d \in Callers \ {c} : /\ Waits(d, i)' <=> Waits(d, i)
                                 /\ Persists(d, i)' <=> Persists(d, i)
    BY <2>6 DEF Waits, Persists
  <2>8. LoginAt(i) /\ server[i].issued \in Nat /\ server[i].honours \in Nat
    BY <1>0 DEF LoginInv
  <2>9. CASE i # e
    <3>1. ~Waits(c, i)' /\ ~Waits(c, i) /\ ~Persists(c, i)' /\ ~Persists(c, i)
      BY <2>4, <2>6, <2>9 DEF Waits, Persists
    <3>2. server'[i] = server[i] /\ \A d \in Callers : Waits(d, i) \/ Persists(d, i) => caller'[d] = caller[d]
      BY <2>6, <2>9, <3>1
    <3>3. \A d \in Callers : /\ Waits(d, i)' <=> Waits(d, i)
                             /\ Persists(d, i)' <=> Persists(d, i)
      BY <2>7, <3>1
    <3> QED
      BY <2>1, <2>8, <3>2, <3>3, LoginStays
  <2>10. CASE i = e
    <3>1. ~Waits(c, i)' /\ Waits(c, i) /\ Persists(c, i)' /\ ~Persists(c, i)
      BY <2>1, <2>4, <2>6, <2>10 DEF Waits, Persists
    <3>2. i \in Rotating \ lost => \A d \in Callers : ~Persists(d, i)
      BY <2>1, <2>8, <2>10, <3>1 DEF LoginAt, Issued, Handed
    <3>3. /\ item'[i] = item[i] /\ lost' = lost /\ item[i].access # 0
          /\ server[i].issued \in Nat /\ server'[i].issued = server[i].issued + 1
          /\ server'[i].honours = IF i \in Rotating THEN server[i].issued + 1
                                  ELSE server[i].honours
          /\ server[i].honours \in 1 .. server[i].issued
          /\ item[i].refresh \in 1 .. server[i].issued
      BY <2>1, <2>5, <2>6, <2>8, <2>10, <3>1 DEF LoginAt, Issued
    <3>a. n # 0
      BY <2>10, <3>3
    <3>b. caller'[c] = x /\ caller[c].bundle.refresh = server[i].honours /\ n = server[i].issued + 1
      BY <2>1, <2>6, <2>10
    <3> HIDE DEF n
    <3>4. /\ caller'[c].bundle.refresh = server[i].honours /\ caller'[c].got.access # 0
          /\ caller'[c].got.refresh = IF i \in Rotating THEN server[i].issued + 1 ELSE 0
      BY <2>4, <2>10, <3>a, <3>b
    <3>5. ASSUME NEW d \in Callers, Waits(d, i)' \/ Persists(d, i)', d # c
          PROVE  /\ caller'[d] = caller[d] /\ (Waits(d, i) \/ Persists(d, i))
                 /\ Persists(d, i)' => Persists(d, i)
      BY <2>6, <2>7, <3>5
    <3>6. Issued(i)'
      <4>1. ASSUME NEW d \in Callers, Waits(d, i)' \/ Persists(d, i)'
            PROVE  caller'[d].bundle.refresh \in 1 .. server'[i].issued
        <5>1. CASE d = c
          BY <3>3, <3>4, <5>1
        <5>2. CASE d # c
          <6>1. caller[d].bundle.refresh \in 1 .. server[i].issued /\ caller'[d] = caller[d]
            BY <2>8, <3>5, <4>1, <5>2 DEF LoginAt, Issued
          <6> QED
            BY <3>3, <6>1
        <5> QED
          BY <5>1, <5>2
      <4>2. ASSUME NEW d \in Callers, Persists(d, i)'
            PROVE  caller'[d].got.access # 0 /\ caller'[d].got.refresh \in 0 .. server'[i].issued
        <5>1. CASE d = c
          BY <3>3, <3>4, <5>1
        <5>2. CASE d # c
          <6>1. /\ caller[d].got.access # 0 /\ caller[d].got.refresh \in 0 .. server[i].issued
                /\ caller'[d] = caller[d]
            BY <2>8, <3>5, <4>2, <5>2 DEF LoginAt, Issued
          <6> QED
            BY <3>3, <6>1
        <5> QED
          BY <5>1, <5>2
      <4>3. /\ server'[i].honours \in 1 .. server'[i].issued
            /\ item'[i].refresh \in 1 .. server'[i].issued /\ item'[i].access # 0
        BY <3>3
      <4> QED
        BY <4>1, <4>2, <4>3 DEF Issued
    <3>7. OneForEver(i)'
      <4> SUFFICES ASSUME i \notin Rotating PROVE OneForEver(i)'
        BY DEF OneForEver
      <4>1. ASSUME NEW d \in Callers, Waits(d, i)' \/ Persists(d, i)'
            PROVE  /\ caller'[d].bundle.refresh = server[i].honours
                   /\ Persists(d, i)' => caller'[d].got.refresh = 0
        <5>1. CASE d = c
          BY <3>4, <5>1
        <5>2. CASE d # c
          BY <2>8, <3>5, <4>1, <5>2 DEF LoginAt, OneForEver
        <5> QED
          BY <5>1, <5>2
      <4>2. item'[i].refresh = server[i].honours
        BY <2>8, <3>3 DEF LoginAt, OneForEver
      <4> QED
        BY <3>3, <4>1, <4>2 DEF OneForEver
    <3>8. Handed(i)'
      <4> SUFFICES ASSUME i \in Rotating \ lost PROVE Handed(i)'
        BY <3>3 DEF Handed
      <4>1. \A d \in Callers : Persists(d, i)' => d = c
        BY <3>2, <3>5
      <4>2. item'[i].refresh # server'[i].honours
        BY <3>3
      <4>3. ASSUME NEW d \in Callers, Waits(d, i)'
            PROVE  caller'[d].bundle.refresh # server'[i].honours
        <5>1. d # c
          BY <3>1, <4>3
        <5>2. caller[d].bundle.refresh \in 1 .. server[i].issued /\ caller'[d] = caller[d]
          BY <2>8, <3>5, <4>3, <5>1 DEF LoginAt, Issued
        <5> QED
          BY <3>3, <5>2
      <4>4. caller'[c].got.refresh = server'[i].honours
        BY <3>3, <3>4
      <4> QED
        BY <3>1, <4>1, <4>2, <4>3, <4>4 DEF Handed
    <3> QED
      BY <2>8, <3>3, <3>6, <3>7, <3>8 DEF LoginAt
  <2> QED
    BY <2>9, <2>10
<1>4. ASSUME NEW c \in Callers, Persist(c)
      PROVE  LoginInv'
  <2> DEFINE e == caller[c].of
             y == Updated(caller[c].bundle, caller[c].got)
             x == [caller[c] EXCEPT !.at = "verify"]
  <2>1. e \in Items /\ caller[c].at = "persist" /\ UNCHANGED <<server, lost>>
        /\ caller[c].got \in Entries /\ caller[c].bundle \in Entries
    BY <1>0, <1>4 DEF Persist, CallerAt, CallerStates
  <2>2. item' = [item EXCEPT ![e] = y] /\ caller' = [caller EXCEPT ![c] = x]
    BY <1>4 DEF Persist
  <2>3. /\ x.at = "verify" /\ y.access = caller[c].got.access
        /\ y.refresh = IF caller[c].got.refresh = 0 THEN caller[c].bundle.refresh
                       ELSE caller[c].got.refresh
    BY <1>0, <2>1 DEF CallerStates, Updated, Entries
  <2> HIDE DEF x, y
  <2>4. /\ caller'[c] = x /\ \A d \in Callers \ {c} : caller'[d] = caller[d]
        /\ item'[e] = y /\ \A i \in Items \ {e} : item'[i] = item[i]
    BY <1>0, <2>1, <2>2
  <2> SUFFICES ASSUME NEW i \in Items PROVE LoginAt(i)'
    BY DEF LoginInv
  <2>5. /\ \A d \in Callers \ {c} : /\ Waits(d, i)' <=> Waits(d, i)
                                    /\ Persists(d, i)' <=> Persists(d, i)
        /\ ~Waits(c, i)' /\ ~Persists(c, i)' /\ ~Waits(c, i)
        /\ Persists(c, i) <=> i = e
    BY <2>1, <2>3, <2>4 DEF Waits, Persists
  <2>6. LoginAt(i)
    BY DEF LoginInv
  <2>7. CASE i # e
    <3>1. /\ UNCHANGED <<item[i], server[i], lost>>
          /\ \A d \in Callers :
               /\ Waits(d, i)' <=> Waits(d, i)
               /\ Persists(d, i)' <=> Persists(d, i)
               /\ Waits(d, i) \/ Persists(d, i) => caller'[d] = caller[d]
      BY <2>1, <2>4, <2>5, <2>7
    <3> QED
      BY <2>6, <3>1, LoginStays
  <2>8. CASE i = e
    <3> DEFINE n == IF caller[c].got.refresh = 0 THEN caller[c].bundle.refresh
                    ELSE caller[c].got.refresh
    <3>1. /\ Persists(c, i) /\ item[i].access # 0 /\ item'[i].access # 0 /\ item'[i].refresh = n
          /\ caller[c].got.access # 0 /\ UNCHANGED <<server[i], lost>>
          /\ caller[c].bundle.refresh \in 1 .. server[i].issued
          /\ caller[c].got.refresh \in 0 .. server[i].issued
          /\ server[i].honours \in 1 .. server[i].issued
      BY <2>1, <2>3, <2>4, <2>5, <2>6, <2>8 DEF LoginAt, Issued
    <3>2. server[i].issued \in Nat
      BY <1>0
    <3>3. n \in 1 .. server[i].issued
      BY <3>1, <3>2
    <3>4. \A d \in Callers : Waits(d, i)' \/ Persists(d, i)' =>
            /\ d # c /\ caller'[d] = caller[d]
            /\ Waits(d, i)' => Waits(d, i)
            /\ Persists(d, i)' => Persists(d, i)
      BY <2>4, <2>5
    <3>5. Issued(i)'
      BY <2>6, <3>1, <3>3, <3>4 DEF LoginAt, Issued
    <3>6. OneForEver(i)'
      <4>1. i \notin Rotating => n = server[i].honours
        BY <2>6, <3>1 DEF LoginAt, OneForEver
      <4> QED
        BY <2>6, <3>1, <3>4, <4>1 DEF LoginAt, OneForEver
    <3>7. Handed(i)'
      <4> SUFFICES ASSUME i \in Rotating \ lost PROVE Handed(i)'
        BY <3>1 DEF Handed
      <4>1. \A d \in Callers : Persists(d, i) => d = c
        BY <2>6, <3>1 DEF LoginAt, Handed
      <4>2. n = server[i].honours
        <5>1. caller[c].got.refresh = server[i].honours
          BY <2>6, <3>1 DEF LoginAt, Handed
        <5> QED
          BY <3>1, <3>2, <5>1
      <4> QED
        BY <3>1, <3>4, <4>1, <4>2 DEF Handed
    <3> QED
      BY <2>6, <3>1, <3>5, <3>6, <3>7 DEF LoginAt
  <2> QED
    BY <2>7, <2>8
<1>5. ASSUME NEW c \in Callers, Verify(c)
      PROVE  LoginInv'
  <2>1. PICK token : caller' = [caller EXCEPT ![c] = Gets(caller[c].of, token)]
    BY <1>5 DEF Verify
  <2> QED
    BY <1>5, <1>a, <1>b, <2>1 DEF Verify, CallerAt, ghosts
<1>6. ASSUME NEW c \in Callers, RefreshFails(c) \/ Use(c)
      PROVE  LoginInv'
  BY <1>0, <1>6, <1>a DEF RefreshFails, Use, CallerAt, ghosts
<1>7. ASSUME NEW p \in Processes, ProcessDies(p)
      PROVE  LoginInv'
  <2>1. /\ UNCHANGED <<item, server>> /\ lost \subseteq lost'
        /\ \A d \in Callers :
             \/ caller'[d] = caller[d]
             \/ /\ caller'[d] = Nobody
                /\ caller[d].at = "persist" => caller[d].of \in lost'
    BY <1>7 DEF ProcessDies, CallerAt
  <2> QED
    BY <1>0, <2>1, CallersLeave
<1>8. CASE TokenExpires
  <2>1. PICK j \in Items : item' = [item EXCEPT ![j] = [item[j] EXCEPT !.fresh = FALSE]]
    BY <1>8 DEF TokenExpires
  <2>2. \A i \in Items : item'[i].access = item[i].access /\ item'[i].refresh = item[i].refresh
    BY <1>0, <2>1 DEF Entries
  <2>3. UNCHANGED <<server, caller, lost>>
    BY <1>8 DEF TokenExpires, ghosts
  <2> SUFFICES ASSUME NEW i \in Items PROVE LoginAt(i)'
    BY DEF LoginInv
  <2>4. LoginAt(i) /\ \A d \in Callers : (Waits(d, i)' <=> Waits(d, i))
                                         /\ (Persists(d, i)' <=> Persists(d, i))
    BY <2>3 DEF LoginInv, Waits, Persists
  <2> QED
    <3>1. Issued(i)'
      BY <2>2, <2>3, <2>4 DEF LoginAt, Issued
    <3>2. OneForEver(i)'
      BY <2>2, <2>3, <2>4 DEF LoginAt, OneForEver, Issued
    <3>3. Handed(i)'
      BY <2>2, <2>3, <2>4 DEF LoginAt, Handed, Issued
    <3> QED
      BY <2>2, <2>3, <2>4, <3>1, <3>2, <3>3 DEF LoginAt
<1>9. CASE MemoAges \/ UNCHANGED credVars
  BY <1>0, <1>9, CallersLeave DEF MemoAges, credVars, ghosts
<1> QED
  BY <1>1, <1>2, <1>3, <1>4, <1>5, <1>6, <1>7, <1>8, <1>9 DEF CredNext

LEMMA LoginInvInit == ASSUME CredInit, CredInv PROVE LoginInv
<1> SUFFICES ASSUME NEW i \in Items PROVE LoginAt(i)
  BY DEF LoginInv
<1>1. /\ server[i].honours = 1 /\ server[i].issued = 1
      /\ item[i].access # 0 => item[i].refresh = 1
      /\ \A c \in Callers : caller[c].at = "idle"
  BY DEF CredInit, NoEntry, Nobody
<1> QED
  BY <1>1 DEF LoginAt, Issued, OneForEver, Handed, Waits, Persists

\* However many processes refresh, fail and die around one login: the entry
\* holds the refresh token the server honours, or a caller is about to write
\* it, or it died with a failed or interrupted write.
THEOREM LoginKeptHolds == PartsSpec => []LoginKept
<1>1. CredInit /\ [][CredNext]_credVars => []LoginInv
  <2>1. CredInit /\ CredInv => LoginInv
    BY LoginInvInit
  <2>2. LoginInv /\ CredInv' /\ [CredNext]_credVars => LoginInv'
    BY LoginInvNext
  <2> QED
    BY <2>1, <2>2, CredInvHolds, PTL
<1>2. LoginInv => LoginKept
  BY DEF LoginInv, LoginAt, OneForEver, Handed, LoginKept, Persists, CallerAt
<1> QED
  BY <1>1, <1>2, CredentialsTurns, PTL

-----------------------------------------------------------------------------
(* Polling the usage.                                                      *)

\* The arithmetic of the backoff, whatever the delay is and the server asks.
LEMMA JitterBounded ==
    ASSUME NEW d \in Nat, NEW e \in Jittered(d)
    PROVE  e \in Nat /\ 10 * e <= 11 * d + 10
<1>1. PICK n \in 0 .. ((2 * d) \div 10) : e = d - (((2 * d) \div 10) \div 2) + n
  BY DEF Jittered
<1> DEFINE j == (2 * d) \div 10
<1> DEFINE h == j \div 2
<1>2. j \in Nat /\ 10 * j <= 2 * d
  OBVIOUS
<1>3. h \in Nat /\ 2 * h <= j /\ j <= 2 * h + 1
  BY <1>2
<1>4. n \in Nat /\ n <= j /\ e = d - h + n
  BY <1>1, <1>2
<1> HIDE DEF j, h
<1> QED
  BY <1>2, <1>3, <1>4

LEMMA Larger ==
    ASSUME NEW b \in Nat, NEW e \in Nat, NEW m \in Nat, b <= m, 10 * e <= 11 * b + 10
    PROVE  10 * e <= 11 * m + 10
OBVIOUS

LEMMA BaseDelayBounded ==
    ASSUME NEW d \in Nat, NEW ra \in Nat
    PROVE  BaseDelay(d, ra) \in Nat /\ BaseDelay(d, ra) <= MaxDelay
BY PollAssumption DEF BaseDelay, AtMost

\* The detector remembers a reset time of the account that is polled as soon
\* as it has read one, and none later than the latest read.
PollReadings == [account : Nat, util : Int, resets : Nat, spent : BOOLEAN]
Loops == [pc : {"select", "asking", "observe", "evaluate"}, asked : Nat,
          retried : BOOLEAN, idle : BOOLEAN, reading : PollReadings]

PollInv ==
    /\ account \in Accounts /\ client \in Accounts
    /\ session \in [Accounts -> Nat]
    /\ snap \in PollReadings
    /\ loop \in Loops
    /\ LoopAt("asking") => loop.asked \in Accounts
    /\ delay \in Nat /\ DelayBounded
    /\ det \in [util : Int, reset : Nat]
    /\ newest \in Nat
    /\ newest # 0 => 0 < det.reset /\ det.reset <= newest

LEMMA PollInvHolds == PollInit /\ [][PollNext]_pollVars => []PollInv
<1> USE PollAssumption
<1>0. /\ NoReading \in PollReadings /\ NoReading.resets = 0
      /\ \A a \in Accounts : a \in Nat
  BY DEF NoReading, PollReadings
<1>1. PollInit => PollInv
  BY <1>0 DEF PollInit, PollInv, Selecting, LoopAt, Loops, DelayBounded
<1>2. PollInv /\ [PollNext]_pollVars => PollInv'
  <2> SUFFICES ASSUME PollInv, [PollNext]_pollVars PROVE PollInv'
    OBVIOUS
  <2>0. \A forced \in BOOLEAN : StartTick(forced) =>
          /\ loop' \in Loops
          /\ LoopAt("asking")' => loop'.asked \in Accounts
    <3> SUFFICES ASSUME NEW forced \in BOOLEAN, StartTick(forced)
                 PROVE  /\ loop' \in Loops
                        /\ LoopAt("asking")' => loop'.asked \in Accounts
      OBVIOUS
    <3>1. PICK idle \in BOOLEAN :
            \/ loop' = [Selecting EXCEPT !.pc = "observe"]
            \/ loop' = [Selecting EXCEPT !.pc = "asking", !.asked = client, !.idle = idle]
      BY DEF StartTick
    <3>2. client \in Nat /\ client \in Accounts
      BY <1>0 DEF PollInv
    <3>3. CASE loop' = [Selecting EXCEPT !.pc = "observe"]
      BY <1>0, <3>3 DEF Selecting, LoopAt, Loops
    <3>4. CASE loop' = [Selecting EXCEPT !.pc = "asking", !.asked = client, !.idle = idle]
      BY <1>0, <3>2, <3>4 DEF Selecting, LoopAt, Loops
    <3> QED
      BY <3>1, <3>3, <3>4
  <2>1. CASE TickerFires
    BY <2>0, <2>1 DEF TickerFires, PollInv, choice, stamps, backoff, watch, DelayBounded
  <2>2. CASE RefreshAsked
    BY <2>0, <2>2 DEF RefreshAsked, PollInv, choice, stamps, backoff, watch, DelayBounded, LoopAt
  <2>3. CASE Fetched
    <3>1. PICK r \in ApiReadings(loop.asked) :
            snap' = r /\ loop' = [Selecting EXCEPT !.pc = "observe", !.reading = r]
      BY <2>3 DEF Fetched
    <3>2. r \in PollReadings
      BY <1>0, <2>3 DEF Fetched, PollInv, LoopAt, ApiReadings, ResetsAt, PollReadings
    <3>3. loop' \in Loops /\ loop'.pc = "observe"
      BY <1>0, <3>1, <3>2 DEF Selecting, Loops
    <3>4. delay' \in Nat /\ DelayBounded'
      BY <2>3 DEF Fetched, DelayBounded
    <3> QED
      BY <2>3, <3>1, <3>2, <3>3, <3>4 DEF Fetched, PollInv, choice, watch, LoopAt
  <2>4. CASE RateLimited
    <3>1. PICK ra \in RetryAfters : delay' \in Jittered(BaseDelay(delay, ra))
      BY <2>4 DEF RateLimited, NextRateLimitDelay
    <3>2. BaseDelay(delay, ra) \in Nat /\ BaseDelay(delay, ra) <= MaxDelay
      BY BaseDelayBounded DEF PollInv
    <3>3. delay' \in Nat /\ 10 * delay' <= 11 * BaseDelay(delay, ra) + 10
      BY <3>1, <3>2, JitterBounded
    <3>4. delay' \in Nat /\ DelayBounded'
      <4> DEFINE b == BaseDelay(delay, ra)
      <4>1. b \in Nat /\ b <= MaxDelay /\ delay' \in Nat /\ 10 * delay' <= 11 * b + 10
        BY <3>2, <3>3
      <4> HIDE DEF b
      <4> QED
        BY <4>1, Larger DEF DelayBounded
    <3> QED
      BY <1>0, <2>4, <3>4 DEF RateLimited, PollInv, choice, watch, Selecting, LoopAt, Loops
  <2>5. CASE FetchFails
    <3>1. /\ loop' \in Loops
          /\ LoopAt("asking")' => loop'.asked \in Accounts
      <4>1. client \in Nat /\ client \in Accounts /\ loop \in Loops
        BY <1>0 DEF PollInv
      <4>2. CASE loop' = [Selecting EXCEPT !.pc = "observe"]
        BY <1>0, <4>2 DEF Selecting, LoopAt, Loops
      <4>3. CASE loop' = [loop EXCEPT !.asked = client, !.retried = TRUE]
        BY <4>1, <4>3 DEF LoopAt, Loops
      <4> QED
        BY <2>5, <4>2, <4>3 DEF FetchFails
    <3> QED
      BY <2>5, <3>1 DEF FetchFails, PollInv, choice, backoff, watch, DelayBounded
  <2>6. CASE Observe
    <3>1. InHand \in PollReadings
      BY DEF InHand, PollInv, Loops
    <3>2. /\ det' \in [util : Int, reset : Nat] /\ newest' \in Nat
          /\ newest' # 0 => 0 < det'.reset /\ det'.reset <= newest'
      BY <2>6, <3>1 DEF Observe, PollInv, PollReadings, Remember, watch
    <3> QED
      BY <1>0, <2>6, <3>2 DEF Observe, PollInv, choice, stamps, backoff, DelayBounded, Selecting,
         LoopAt, Loops
  <2>7. CASE RecordWeeklyBackoff
    BY <1>0, <2>7 DEF RecordWeeklyBackoff, PollInv, choice, stamps, backoff, DelayBounded, Selecting,
       LoopAt, Loops
  <2>8. CASE SetAccount
    BY <1>0, <2>8 DEF SetAccount, PollInv, DelayBounded, LoopAt
  <2>9. CASE SetClientAccount
    BY <2>9 DEF SetClientAccount, PollInv, backoff, watch, DelayBounded, LoopAt
  <2>10. CASE RequestRefresh
    BY <2>10 DEF RequestRefresh, PollInv, choice, backoff, watch, DelayBounded, LoopAt
  <2>11. CASE TimePasses
    BY <2>11 DEF TimePasses, PollInv, choice, DelayBounded, LoopAt
  <2>12. CASE NewSession
    BY <2>12 DEF NewSession, PollInv, choice, backoff, watch, DelayBounded, LoopAt
  <2>13. CASE UNCHANGED pollVars
    BY <2>13 DEF pollVars, PollInv, choice, backoff, watch, DelayBounded, LoopAt
  <2> QED
    BY <2>1, <2>2, <2>3, <2>4, <2>5, <2>6, <2>7, <2>8, <2>9, <2>10, <2>11, <2>12, <2>13
       DEF PollNext
<1> QED
  BY <1>1, <1>2, PTL

\* For any initial and maximal delay, and whatever the server asks for: the
\* next request after a 429 is at most the maximum and its jitter away.
THEOREM DelayHolds == PartsSpec => []DelayBounded
<1>1. PollInv => DelayBounded
  BY DEF PollInv
<1> QED
  BY <1>1, PollTurns, PollInvHolds, PTL

\* For any number of sessions, switches and readings without a reset time: a
\* session seen for the first time ends the weekly latch.
THEOREM NoSessionMissed == PartsSpec => MissesNoSession
<1>1. PollInv /\ [PollNext]_pollVars
        => [LoopAt("observe") /\ loop'.pc = "evaluate"
              /\ newest # 0 /\ InHand.resets > newest => ~latch'.held]_pollVars
  <2> SUFFICES ASSUME PollInv, PollNext, LoopAt("observe"), loop'.pc = "evaluate",
                      newest # 0, InHand.resets > newest
               PROVE  ~latch'.held
    BY DEF pollVars
  <2>1. Observe
    BY DEF LoopAt, PollNext, TickerFires, RefreshAsked, Fetched, RateLimited, FetchFails,
        RecordWeeklyBackoff, SetAccount, SetClientAccount, RequestRefresh, TimePasses, NewSession
  <2>2. InHand \in PollReadings /\ InHand # NoReading
    BY DEF InHand, PollInv, Loops, NoReading, PollReadings
  <2>3. Edge(InHand)
    BY <2>2 DEF Edge, PollInv, PollReadings
  <2> QED
    BY <2>1, <2>2, <2>3 DEF Observe, NoLatch
<1> QED
  BY <1>1, PollTurns, PollInvHolds, PTL DEF MissesNoSession

-----------------------------------------------------------------------------
(* Pull requests.                                                          *)

NeverAsked == ""
RowStates == {NeverAsked, "OPEN", "CLOSED", "MERGED", "GONE"}
RowTypes == [url : Urls \cup {NoUrl}, state : RowStates, failures : Nat, age : Int]
Olds == [url : Urls \cup {NoUrl}, state : RowStates]
Todos == [id : Rows, old : [url : Urls, state : RowStates]]
Shown == Rows \X (Urls \cup {NoUrl})
PassTypes ==
    {x \in [at : {"idle", "next", "asking", "write", "send"}, todo : SUBSET Todos,
            id : SUBSET Rows, old : Olds, answer : RowStates, changed : BOOLEAN,
            listed : SUBSET Shown] :
        x.at = "asking" => x.old.url \in Urls}

ProberTypes ==
    /\ pr \in [Urls -> RowStates]
    /\ row \in [Rows -> RowTypes]
    /\ pass \in [Passes -> PassTypes]

\* What a pass has in hand for a row names the URL the row has; a MERGED on
\* its way to the row is true, and stays so.
Matches(x, r) ==
    /\ \A t \in x.todo : t.id = r => t.old.url = row[r].url /\ row[r].url \in Urls
    /\ r \in x.id => x.old.url = row[r].url /\ row[r].url \in Urls
    /\ x.at = "write" /\ r \in x.id /\ x.answer = "MERGED" => pr[row[r].url] = "MERGED"

IsTrue(r) ==
    /\ row[r].state # NeverAsked => about[r] = row[r].url /\ row[r].url \in Urls
    /\ row[r].state = "MERGED" => pr[row[r].url] = "MERGED"

ProberInv ==
    /\ ProberTypes
    /\ \A r \in Rows \ swapped : IsTrue(r) /\ \A p \in Passes : Matches(pass[p], r)

\* Rows after a probe.
LEMMA RowChecked ==
    ASSUME NEW y \in RowTypes, NEW s \in RowStates, NEW n \in Nat
    PROVE  /\ [y EXCEPT !.state = s, !.failures = n, !.age = 0] \in RowTypes
           /\ [y EXCEPT !.failures = n, !.age = 0] \in RowTypes
<1> DEFINE RowUrls == Urls \cup {NoUrl}
<1> HIDE DEF RowUrls
<1>1. RowTypes = [url : RowUrls, state : RowStates, failures : Nat, age : Int]
  BY DEF RowTypes, RowUrls
<1>2. 0 \in Int
  OBVIOUS
<1> QED
  BY <1>1, <1>2

\* A pass moved on to x, and neither the rows nor GitHub did.
LEMMA PassMoves ==
    ASSUME ProberInv, NEW p \in Passes, NEW x \in PassTypes, pass' = [pass EXCEPT ![p] = x],
           UNCHANGED <<pr, row, swapped, about>>,
           \A r \in Rows \ swapped : Matches(pass[p], r) => Matches(x, r)
    PROVE  ProberInv'
<1>1. ProberTypes'
  BY DEF ProberInv, ProberTypes
<1>2. ASSUME NEW r \in Rows \ swapped, NEW q \in Passes PROVE Matches(pass[q], r)'
  <2>1. pass'[q] = IF q = p THEN x ELSE pass[q]
    BY DEF ProberInv, ProberTypes
  <2>2. Matches(pass[q], r) /\ Matches(pass[p], r)
    BY DEF ProberInv
  <2>3. Matches(IF q = p THEN x ELSE pass[q], r)
    BY <2>2
  <2> QED
    BY <2>1, <2>3 DEF Matches
<1>3. ASSUME NEW r \in Rows \ swapped PROVE IsTrue(r)'
  BY DEF ProberInv, IsTrue
<1> QED
  BY <1>1, <1>2, <1>3 DEF ProberInv

LEMMA ProberInvHolds == ProberInit /\ [][ProberNext]_proberVars => []ProberInv
<1> USE ProberAssumption DEF proberGhosts
<1>0. /\ NoRow \in Olds /\ NotRunning \in PassTypes
      /\ NotRunning.at = "idle" /\ NotRunning.todo = {} /\ NotRunning.id = {}
      /\ \A u \in Urls \cup {NoUrl} :
          Unprobed(u) \in RowTypes /\ Unprobed(u).url = u /\ Unprobed(u).state = NeverAsked
  <2>1. NoRow \in Olds
    BY DEF NoRow, Olds, RowStates, NeverAsked
  <2>2. /\ NotRunning \in PassTypes
        /\ NotRunning.at = "idle" /\ NotRunning.todo = {} /\ NotRunning.id = {}
    BY <2>1 DEF NotRunning, PassTypes, RowStates, NeverAsked
  <2>3. ASSUME NEW u \in Urls \cup {NoUrl}
        PROVE  Unprobed(u) \in RowTypes /\ Unprobed(u).url = u /\ Unprobed(u).state = NeverAsked
    BY DEF Unprobed, RowTypes, RowStates, NeverAsked
  <2> QED
    BY <2>1, <2>2, <2>3
<1>a. NeverAsked # "MERGED"
  BY DEF NeverAsked
<1>1. ProberInit => ProberInv
  <2> SUFFICES ASSUME ProberInit PROVE ProberInv
    OBVIOUS
  <2>1. ProberTypes
    BY <1>0 DEF ProberInit, ProberTypes, RowStates
  <2>2. ASSUME NEW r \in Rows PROVE IsTrue(r)
    BY <1>0, <1>a DEF ProberInit, IsTrue
  <2>3. ASSUME NEW r \in Rows, NEW p \in Passes PROVE Matches(pass[p], r)
    BY <1>0 DEF ProberInit, Matches
  <2> QED
    BY <2>1, <2>2, <2>3 DEF ProberInv
<1>2. ProberInv /\ [ProberNext]_proberVars => ProberInv'
  <2> SUFFICES ASSUME ProberInv, [ProberNext]_proberVars PROVE ProberInv'
    OBVIOUS
  <2>1. ASSUME NEW p \in Passes, NEW rows \in SUBSET Rows, NEW forced \in BOOLEAN,
               PassBegins(p, rows, forced)
        PROVE  ProberInv'
    <3> DEFINE todo == {[id |-> r, old |-> [url |-> row[r].url, state |-> row[r].state]] :
                          r \in {s \in rows : ShouldProbe(s, forced)}}
    <3> DEFINE x == [NotRunning EXCEPT !.at = "next", !.todo = todo]
    <3>1. todo \subseteq Todos
      BY DEF ProberInv, ProberTypes, RowTypes, ShouldProbe, Todos
    <3>2. \A t \in todo : t.id \in Rows /\ t.old.url = row[t.id].url /\ row[t.id].url \in Urls
      BY DEF ProberInv, ProberTypes, RowTypes, ShouldProbe
    <3>3. pass' = [pass EXCEPT ![p] = x] /\ UNCHANGED <<pr, row, swapped, about>>
      BY <2>1 DEF PassBegins
    <3> HIDE DEF todo
    <3>4. x \in PassTypes /\ x.at = "next" /\ x.todo = todo /\ x.id = {}
      BY <1>0, <3>1 DEF NotRunning, PassTypes, RowStates
    <3> HIDE DEF x
    <3>5. \A r \in Rows : Matches(x, r)
      BY <3>2, <3>4 DEF Matches
    <3> QED
      BY <3>3, <3>4, <3>5, PassMoves
  <2>2. ASSUME NEW p \in Passes, Asks(p) PROVE ProberInv'
    <3>1. PICK t \in pass[p].todo :
            pass' = [pass EXCEPT ![p].at = "asking", ![p].id = {t.id}, ![p].old = t.old,
                                 ![p].todo = @ \ {t}]
      BY <2>2 DEF Asks
    <3> DEFINE x == [pass[p] EXCEPT !.at = "asking", !.id = {t.id}, !.old = t.old,
                                    !.todo = pass[p].todo \ {t}]
    <3>2. pass[p] \in PassTypes /\ pass' = [pass EXCEPT ![p] = x]
      BY <3>1 DEF ProberInv, ProberTypes
    <3>3. t \in Todos /\ t.id \in Rows /\ t.old \in Olds /\ t.old.url \in Urls
      BY <3>2 DEF PassTypes, Todos, Olds
    <3>4. /\ x \in PassTypes /\ x.at = "asking" /\ x.id = {t.id} /\ x.old = t.old
          /\ x.todo = pass[p].todo \ {t}
      BY <3>2, <3>3 DEF PassTypes
    <3> HIDE DEF x
    <3>5. \A r \in Rows : Matches(pass[p], r) => Matches(x, r)
      BY <3>4 DEF Matches
    <3> QED
      BY <2>2, <3>2, <3>4, <3>5, PassMoves DEF Asks
  <2>3. ASSUME NEW p \in Passes, Answers(p) PROVE ProberInv'
    <3> DEFINE x == [pass[p] EXCEPT !.at = "write", !.answer = pr[pass[p].old.url]]
    <3>1. pass[p] \in PassTypes /\ pass' = [pass EXCEPT ![p] = x]
      BY <2>3 DEF Answers, ProberInv, ProberTypes
    <3>2. /\ x.at = "write" /\ x.id = pass[p].id /\ x.old = pass[p].old
          /\ x.todo = pass[p].todo /\ x.answer = pr[pass[p].old.url]
      BY <3>1 DEF PassTypes
    <3>3. pr[pass[p].old.url] \in RowStates
      BY <2>3, <3>1 DEF Answers, PassTypes, ProberInv, ProberTypes
    <3>4. x \in PassTypes
      BY <3>1, <3>3 DEF PassTypes
    <3>5. \A r \in Rows : Matches(pass[p], r) => Matches(x, r)
      BY <3>2 DEF Matches
    <3> HIDE DEF x
    <3> QED
      BY <2>3, <3>1, <3>4, <3>5, PassMoves DEF Answers
  <2>4. ASSUME NEW p \in Passes, Writes(p) PROVE ProberInv'
    <3>1. PICK r \in pass[p].id :
            row' = [row EXCEPT ![r].state = pass[p].answer, ![r].failures = 0, ![r].age = 0]
      BY <2>4 DEF Writes
    <3> DEFINE y == [row[r] EXCEPT !.state = pass[p].answer, !.failures = 0, !.age = 0]
    <3>2. pass[p] \in PassTypes /\ r \in Rows /\ row[r] \in RowTypes
      BY DEF ProberInv, ProberTypes, PassTypes
    <3>3. /\ row' = [row EXCEPT ![r] = y]
          /\ y \in RowTypes /\ y.url = row[r].url /\ y.state = pass[p].answer
      <4>1. pass[p].answer \in RowStates
        BY <3>2 DEF PassTypes
      <4>2. y \in RowTypes
        BY <3>2, <4>1, RowChecked
      <4>3. y.url = row[r].url /\ y.state = pass[p].answer
        BY <3>2 DEF RowTypes
      <4> QED
        BY <3>1, <4>2, <4>3
    <3> HIDE DEF y
    <3> DEFINE x == [NotRunning EXCEPT !.at = "next", !.todo = pass[p].todo,
                       !.changed = pass[p].changed \/ pass[p].answer # pass[p].old.state]
    <3>4. pass' = [pass EXCEPT ![p] = x]
      BY <2>4 DEF Writes
    <3>5. x \in PassTypes /\ x.at = "next" /\ x.id = {} /\ x.todo = pass[p].todo
      BY <1>0, <3>2 DEF NotRunning, PassTypes, RowStates
    <3> HIDE DEF x
    <3>a. /\ UNCHANGED <<pr, swapped>> /\ pass[p].at = "write"
          /\ \A s \in Rows : about'[s] = IF s \in pass[p].id THEN pass[p].old.url ELSE about[s]
      BY <2>4 DEF Writes, proberGhosts
    <3>b. /\ pass \in [Passes -> PassTypes] /\ row \in [Rows -> RowTypes] /\ ProberTypes
      BY DEF ProberInv, ProberTypes
    <3>c. /\ \A q \in Passes : pass'[q] = IF q = p THEN x ELSE pass[q]
          /\ pass' \in [Passes -> PassTypes]
      BY <3>4, <3>5, <3>b
    <3>d. /\ \A s \in Rows : /\ row'[s].url = row[s].url
                             /\ row'[s].state = IF s = r THEN pass[p].answer ELSE row[s].state
          /\ row' \in [Rows -> RowTypes]
      BY <3>2, <3>3, <3>b
    <3>6. /\ ProberTypes' /\ UNCHANGED <<pr, swapped>>
          /\ \A q \in Passes : pass'[q] = IF q = p THEN x ELSE pass[q]
          /\ \A s \in Rows : /\ row'[s].url = row[s].url
                             /\ row'[s].state = IF s = r THEN pass[p].answer ELSE row[s].state
      BY <3>a, <3>b, <3>c, <3>d DEF ProberTypes
    <3>7. ASSUME NEW s \in Rows \ swapped PROVE IsTrue(s)'
      <4>1. IsTrue(s) /\ Matches(pass[p], s)
        BY DEF ProberInv
      <4>2. /\ s \in pass[p].id => pass[p].old.url = row[s].url /\ row[s].url \in Urls
            /\ s \in pass[p].id /\ pass[p].answer = "MERGED" => pr[row[s].url] = "MERGED"
        BY <3>a, <4>1 DEF Matches
      <4>3. /\ row[s].state # NeverAsked => about[s] = row[s].url /\ row[s].url \in Urls
            /\ row[s].state = "MERGED" => pr[row[s].url] = "MERGED"
        BY <4>1 DEF IsTrue
      <4>4. CASE s # r
        BY <3>6, <3>a, <4>2, <4>3, <4>4 DEF IsTrue
      <4>5. CASE s = r
        BY <3>1, <3>6, <3>a, <4>2, <4>5 DEF IsTrue
      <4> QED
        BY <4>4, <4>5
    <3>8. ASSUME NEW s \in Rows \ swapped, NEW q \in Passes PROVE Matches(pass[q], s)'
      <4>1. Matches(pass[q], s)
        BY DEF ProberInv
      <4> QED
        BY <3>5, <3>6, <4>1 DEF Matches
    <3> QED
      BY <3>6, <3>7, <3>8 DEF ProberInv
  <2>5. ASSUME NEW p \in Passes, ProbeFails(p) PROVE ProberInv'
    <3>1. PICK r \in pass[p].id :
            row' = [row EXCEPT ![r].failures = IF Doubled[@] > Day THEN @ ELSE @ + 1, ![r].age = 0]
      BY <2>5 DEF ProbeFails
    <3> DEFINE n == IF Doubled[row[r].failures] > Day THEN row[r].failures ELSE row[r].failures + 1
    <3> DEFINE y == [row[r] EXCEPT !.failures = n, !.age = 0]
    <3>2. pass[p] \in PassTypes /\ r \in Rows /\ row[r] \in RowTypes
      BY DEF ProberInv, ProberTypes, PassTypes
    <3>3. /\ n \in Nat /\ y \in RowTypes /\ y.url = row[r].url /\ y.state = row[r].state
          /\ row' = [row EXCEPT ![r] = y]
      <4>1. n \in Nat
        BY <3>2 DEF RowTypes
      <4>2. row' = [row EXCEPT ![r] = y]
        BY <3>1
      <4> HIDE DEF n
      <4>3. y \in RowTypes
        <5>1. row[r].state \in RowStates
          BY <3>2 DEF RowTypes
        <5> QED
          BY <3>2, <4>1, <5>1, RowChecked
      <4>4. y.url = row[r].url /\ y.state = row[r].state
        BY <3>2 DEF RowTypes
      <4> QED
        BY <4>1, <4>2, <4>3, <4>4
    <3> HIDE DEF y
    <3> DEFINE x == [NotRunning EXCEPT !.at = "next", !.todo = pass[p].todo,
                                       !.changed = pass[p].changed]
    <3>4. pass' = [pass EXCEPT ![p] = x]
      BY <2>5 DEF ProbeFails
    <3>5. x \in PassTypes /\ x.at = "next" /\ x.id = {} /\ x.todo = pass[p].todo
      BY <1>0, <3>2 DEF NotRunning, PassTypes, RowStates
    <3> HIDE DEF x
    <3>6. /\ ProberTypes' /\ UNCHANGED <<pr, swapped, about>>
          /\ \A q \in Passes : pass'[q] = IF q = p THEN x ELSE pass[q]
          /\ \A s \in Rows : row'[s].url = row[s].url /\ row'[s].state = row[s].state
      BY <2>5, <3>2, <3>3, <3>4, <3>5 DEF ProbeFails, proberGhosts, ProberInv, ProberTypes
    <3>7. ASSUME NEW s \in Rows \ swapped PROVE IsTrue(s)'
      BY <3>6 DEF ProberInv, IsTrue
    <3>8. ASSUME NEW s \in Rows \ swapped, NEW q \in Passes PROVE Matches(pass[q], s)'
      <4>1. Matches(pass[q], s)
        BY DEF ProberInv
      <4> QED
        BY <3>5, <3>6, <4>1 DEF Matches
    <3> QED
      BY <3>6, <3>7, <3>8 DEF ProberInv
  <2>6. ASSUME NEW p \in Passes, Ends(p) PROVE ProberInv'
    <3>1. \A r \in Rows : Matches(NotRunning, r)
      BY <1>0 DEF Matches
    <3> QED
      BY <1>0, <2>6, <3>1, PassMoves DEF Ends
  <2>14. ASSUME NEW p \in Passes, Lists(p) PROVE ProberInv'
    <3>1. PICK listed :
            /\ listed = {<<r, row[r].url>> : r \in {s \in Rows : row[s].state = "MERGED"}}
            /\ pass' = [pass EXCEPT ![p].at = "send", ![p].listed = listed]
      BY <2>14 DEF Lists
    <3> DEFINE x == [pass[p] EXCEPT !.at = "send", !.listed = listed]
    <3>2. pass[p] \in PassTypes /\ pass' = [pass EXCEPT ![p] = x]
      BY <3>1 DEF ProberInv, ProberTypes
    <3>3. listed \in SUBSET Shown
      <4>1. \A r \in Rows : row[r].url \in Urls \cup {NoUrl}
        BY DEF ProberInv, ProberTypes, RowTypes
      <4> QED
        BY <3>1, <4>1 DEF Shown
    <3>4. x \in PassTypes /\ x.at = "send" /\ x.todo = pass[p].todo
          /\ x.id = pass[p].id /\ x.old = pass[p].old
      BY <3>2, <3>3 DEF PassTypes
    <3> HIDE DEF x
    <3>5. \A r \in Rows : Matches(pass[p], r) => Matches(x, r)
      BY <3>4 DEF Matches
    <3> QED
      BY <2>14, <3>2, <3>4, <3>5, PassMoves DEF Lists
  <2>15. ASSUME NEW p \in Passes, Sends(p) PROVE ProberInv'
    <3> DEFINE at == IF p \in Users /\ pass[p].changed THEN "next" ELSE "idle"
    <3> DEFINE x == [NotRunning EXCEPT !.at = at]
    <3>1. pass' = [pass EXCEPT ![p] = x] /\ UNCHANGED <<pr, row, swapped, about>>
      BY <2>15 DEF Sends
    <3>2. at \in {"next", "idle"}
      OBVIOUS
    <3> HIDE DEF at
    <3>3. x \in PassTypes /\ x.at = at /\ x.todo = {} /\ x.id = {}
      BY <1>0, <3>2 DEF NotRunning, PassTypes
    <3> HIDE DEF x
    <3>4. \A r \in Rows : Matches(x, r)
      BY <3>2, <3>3 DEF Matches
    <3> QED
      BY <3>1, <3>3, <3>4, PassMoves
  <2>7. ASSUME NEW u \in Users, Abandoned(u) PROVE ProberInv'
    <3> DEFINE x == [pass[u] EXCEPT !.todo = {}]
    <3>1. u \in Passes
      BY DEF Passes
    <3>2. pass[u] \in PassTypes /\ pass' = [pass EXCEPT ![u] = x]
      BY <2>7, <3>1 DEF Abandoned, ProberInv, ProberTypes
    <3>3. /\ x \in PassTypes /\ x.at = pass[u].at /\ x.id = pass[u].id /\ x.old = pass[u].old
          /\ x.todo = {} /\ x.answer = pass[u].answer
      BY <3>2 DEF PassTypes
    <3> HIDE DEF x
    <3>4. \A r \in Rows : Matches(pass[u], r) => Matches(x, r)
      BY <3>3 DEF Matches
    <3> QED
      BY <2>7, <3>1, <3>2, <3>3, <3>4, PassMoves DEF Abandoned
  <2>8. CASE UpsertTaskPR
    <3>1. PICK r \in Rows, u \in Urls :
            /\ row' = [row EXCEPT ![r] = Upserted(r, u)]
            /\ swapped' = IF u # row[r].url /\ \E p \in Passes :
                                r \in pass[p].id \cup {t.id : t \in pass[p].todo}
                          THEN swapped \cup {r} ELSE swapped
            /\ UNCHANGED <<pr, pass, about>>
      BY <2>8 DEF UpsertTaskPR
    <3>2. /\ Upserted(r, u) \in RowTypes
          /\ \/ Upserted(r, u) = row[r]
             \/ Upserted(r, u).state = NeverAsked /\ u # row[r].url
      <4>1. row[r] \in RowTypes
        BY DEF ProberInv, ProberTypes
      <4>2. CASE u \in {NoUrl, row[r].url}
        <5>1. Upserted(r, u) = row[r]
          BY <4>2 DEF Upserted
        <5> QED
          BY <4>1, <5>1
      <4>3. CASE u \notin {NoUrl, row[r].url}
        BY <1>0, <4>3 DEF Upserted
      <4> QED
        BY <4>2, <4>3
    <3>3. ProberTypes'
      BY <3>1, <3>2 DEF ProberInv, ProberTypes
    <3>4. ASSUME NEW s \in Rows \ swapped'
          PROVE  IsTrue(s)' /\ \A p \in Passes : Matches(pass[p], s)'
      <4>1. s \notin swapped /\ IsTrue(s) /\ \A p \in Passes : Matches(pass[p], s)
        BY <3>1 DEF ProberInv
      <4>2. CASE row'[s] = row[s]
        BY <3>1, <4>1, <4>2 DEF IsTrue, Matches
      <4>3. CASE row'[s] # row[s]
        <5>1. s = r /\ row'[s].state = NeverAsked /\ u # row[r].url
          BY <3>1, <3>2, <4>3 DEF ProberInv, ProberTypes
        <5>2. \A p \in Passes : r \notin pass[p].id /\ \A t \in pass[p].todo : t.id # r
          BY <3>1, <5>1
        <5> QED
          BY <1>a, <3>1, <5>1, <5>2 DEF IsTrue, Matches
      <4> QED
        BY <4>2, <4>3
    <3> QED
      BY <3>3, <3>4 DEF ProberInv
  <2>9. CASE GitHubMoves
    <3>1. PICK u \in Urls, s \in RowStates : pr[u] # "MERGED" /\ pr' = [pr EXCEPT ![u] = s]
      BY <2>9 DEF GitHubMoves, RowStates
    <3>2. ProberTypes' /\ UNCHANGED <<row, pass, swapped, about>>
      BY <2>9, <3>1 DEF GitHubMoves, ProberInv, ProberTypes
    <3>3. \A v \in Urls : pr[v] = "MERGED" => pr'[v] = "MERGED"
      BY <3>1 DEF ProberInv, ProberTypes
    <3>4. ASSUME NEW r \in Rows \ swapped PROVE IsTrue(r)' /\ \A p \in Passes : Matches(pass[p], r)'
      <4>1. IsTrue(r) /\ \A p \in Passes : Matches(pass[p], r)
        BY DEF ProberInv
      <4>2. IsTrue(r)'
        BY <1>a, <3>2, <3>3, <4>1 DEF IsTrue
      <4>3. ASSUME NEW p \in Passes PROVE Matches(pass[p], r)'
        BY <3>2, <3>3, <4>1 DEF Matches
      <4> QED
        BY <4>2, <4>3
    <3> QED
      BY <3>2, <3>4 DEF ProberInv
  <2>10. CASE IntervalPasses
    <3>1. \A r \in Rows : /\ row'[r] \in RowTypes
                         /\ row'[r].url = row[r].url /\ row'[r].state = row[r].state
      BY <2>10 DEF IntervalPasses, ProberInv, ProberTypes, RowTypes
    <3>2. ProberTypes' /\ UNCHANGED <<pr, pass, swapped, about>>
      BY <2>10, <3>1 DEF IntervalPasses, ProberInv, ProberTypes
    <3>3. ASSUME NEW r \in Rows \ swapped PROVE IsTrue(r)'
      BY <3>1, <3>2 DEF ProberInv, IsTrue
    <3>4. ASSUME NEW r \in Rows \ swapped, NEW p \in Passes PROVE Matches(pass[p], r)'
      <4>1. Matches(pass[p], r)
        BY DEF ProberInv
      <4> QED
        BY <3>1, <3>2, <4>1 DEF Matches
    <3> QED
      BY <3>2, <3>3, <3>4 DEF ProberInv
  <2>11. CASE UNCHANGED proberVars
    <3>1. UNCHANGED <<pr, row, pass, swapped, about>>
      BY <2>11 DEF proberVars
    <3>2. ProberTypes'
      BY <3>1 DEF ProberInv, ProberTypes
    <3>3. ASSUME NEW r \in Rows \ swapped PROVE IsTrue(r)'
      BY <3>1 DEF ProberInv, IsTrue
    <3>4. ASSUME NEW r \in Rows \ swapped, NEW p \in Passes PROVE Matches(pass[p], r)'
      <4>1. Matches(pass[p], r)
        BY DEF ProberInv
      <4> QED
        BY <3>1, <4>1 DEF Matches
    <3> QED
      BY <3>1, <3>2, <3>3, <3>4 DEF ProberInv
  <2>12. CASE SweepBegins
    BY <2>1, <2>12 DEF SweepBegins, Passes
  <2>13. ASSUME NEW u \in Users, RefreshTask(u) PROVE ProberInv'
    <3>1. PICK r \in Rows : PassBegins(u, {r}, TRUE)
      BY <2>13 DEF RefreshTask
    <3> QED
      BY <2>1, <3>1 DEF Passes
  <2> QED
    BY <2>2, <2>3, <2>4, <2>5, <2>6, <2>7, <2>8, <2>9, <2>10, <2>11, <2>12, <2>13,
       <2>14, <2>15
       DEF ProberNext
<1> QED
  BY <1>1, <1>2, PTL

\* For any number of rows, pull requests and refreshes at once: what a row says
\* was answered about the URL it names, and a merge it says is true, unless the
\* URL changed under a pass; whatever GitHub closes, reopens, hides or merges.
THEOREM SettledHolds == PartsSpec => []SettledIsTrueUnlessSwapped
<1>1. ProberInv => SettledIsTrueUnlessSwapped
  BY DEF ProberInv, IsTrue, SettledIsTrueUnlessSwapped, NeverAsked
<1> QED
  BY <1>1, ProberTurns, ProberInvHolds, PTL

-----------------------------------------------------------------------------
(* The agents' directories.                                                *)

\* A teardown no agent has met: what it has looked at is committed, what it
\* detaches is committed everywhere, and what it deletes is empty.
WorkdirInv ==
    /\ WorkdirTypeOK
    /\ teardown \in [at : {"idle", "checking", "detaching", "deleting"},
                     todo : SUBSET Trees, owned : SUBSET Trees]
    /\ ~met /\ agent => teardown = Resting
    /\ ~met =>
        /\ teardown.at = "checking" =>
              \A t \in Trees : work[t] = "tree" => t \in teardown.todo
        /\ teardown.at = "detaching" => \A t \in Trees : work[t] # "tree"
        /\ teardown.at = "deleting" => ~loose /\ \A t \in Trees : work[t] = "none"

LEMMA WorkdirInvNext ==
    ASSUME WorkdirInv, [WorkdirNext]_dirVars
    PROVE  WorkdirInv'
<1>0. /\ work \in [Trees -> Stages] /\ onBranch \in [Trees -> BOOLEAN]
      /\ teardown \in [at : {"idle", "checking", "detaching", "deleting"},
                       todo : SUBSET Trees, owned : SUBSET Trees]
      /\ Resting.at = "idle" /\ Resting.todo = {} /\ Resting.owned = {}
      /\ Resting \in [at : {"idle", "checking", "detaching", "deleting"},
                      todo : SUBSET Trees, owned : SUBSET Trees]
  BY DEF WorkdirInv, WorkdirTypeOK, Resting
<1> USE DEF WorkdirInv, WorkdirTypeOK
<1>1. CASE AgentBegins \/ AgentEnds
  BY <1>0, <1>1 DEF AgentBegins, AgentEnds
<1>2. CASE AgentWorks
  <2>1. UNCHANGED <<agent, teardown, met>> /\ (met \/ teardown = Resting)
    BY <1>2 DEF AgentWorks
  <2>2. /\ work' \in [Trees -> Stages] /\ onBranch' \in [Trees -> BOOLEAN]
        /\ loose' \in BOOLEAN
    <3>1. CASE \E t \in Trees, b \in BOOLEAN :
                  /\ work' = [work EXCEPT ![t] = "clean"]
                  /\ onBranch' = [onBranch EXCEPT ![t] = b]
                  /\ UNCHANGED loose
      BY <1>0, <3>1 DEF Stages
    <3>2. CASE /\ \E t \in Trees, s \in {"tree", "commit", "origin"} :
                     work' = [work EXCEPT ![t] = s]
               /\ UNCHANGED <<onBranch, loose>>
      BY <1>0, <3>2 DEF Stages
    <3>3. CASE loose' = TRUE /\ UNCHANGED <<work, onBranch>>
      BY <1>0, <3>3
    <3> QED
      BY <1>2, <3>1, <3>2, <3>3 DEF AgentWorks, Present
  <2> QED
    BY <1>0, <2>1, <2>2
<1>3. CASE TeardownBegins
  <2>1. /\ teardown'.at = "checking" /\ teardown'.todo = Present
        /\ teardown' \in [at : {"idle", "checking", "detaching", "deleting"},
                          todo : SUBSET Trees, owned : SUBSET Trees]
    BY <1>0, <1>3 DEF TeardownBegins, Present, Resting
  <2> QED
    BY <1>0, <1>3, <2>1 DEF TeardownBegins, Present
<1>4. CASE Checks
  <2>1. teardown.at = "checking" /\ UNCHANGED <<onBranch, loose, agent, met>>
    BY <1>4 DEF Checks
  <2>2. CASE teardown' = Resting /\ work' = work
    BY <1>0, <2>1, <2>2
  <2>3. CASE teardown.todo = {} /\ teardown' = [teardown EXCEPT !.at = "detaching"]
             /\ work' = work
    BY <1>0, <2>1, <2>3
  <2>4. ASSUME NEW t \in teardown.todo, Adopts(t),
               NEW stage \in {"commit", "origin"},
               \/ work' = [work EXCEPT ![t] = stage]
               \/ work[t] # "tree" /\ work' = work
        PROVE  WorkdirInv'
    <3>1. /\ t \in Trees
          /\ teardown'.at = "checking" /\ teardown'.todo = teardown.todo \ {t}
          /\ teardown' \in [at : {"idle", "checking", "detaching", "deleting"},
                            todo : SUBSET Trees, owned : SUBSET Trees]
      <4> DEFINE todo == teardown.todo \ {t}
                 owned == teardown.owned \cup {t}
      <4>1. t \in Trees /\ todo \in SUBSET Trees /\ owned \in SUBSET Trees
        BY <1>0
      <4>2. teardown' = [teardown EXCEPT !.todo = todo, !.owned = owned]
        BY <2>4 DEF Adopts
      <4> HIDE DEF todo, owned
      <4>3. /\ teardown'.at = "checking" /\ teardown'.todo = todo
            /\ teardown' \in [at : {"idle", "checking", "detaching", "deleting"},
                              todo : SUBSET Trees, owned : SUBSET Trees]
        BY <1>0, <2>1, <4>1, <4>2
      <4> QED
        BY <4>1, <4>3 DEF todo
    <3>2. work' \in [Trees -> Stages]
      BY <1>0, <2>4, <3>1 DEF Stages
    <3>3. work'[t] # "tree" /\ \A u \in Trees \ {t} : work'[u] = work[u]
      BY <1>0, <2>4, <3>1
    <3>4. teardown # Resting
      BY <1>0, <2>1
    <3> QED
      BY <1>0, <2>1, <3>1, <3>2, <3>3, <3>4
  <2> QED
    BY <1>4, <2>2, <2>3, <2>4 DEF Checks, LookAt, Keep
<1>5. CASE Detaches
  <2>1. PICK t \in teardown.owned :
          /\ work' \in {[work EXCEPT ![t] = "none"], work}
          /\ teardown' = [teardown EXCEPT !.owned = @ \ {t}]
    BY <1>5 DEF Detaches
  <2>2. /\ t \in Trees /\ teardown.at = "detaching" /\ teardown'.at = "detaching"
        /\ teardown' \in [at : {"idle", "checking", "detaching", "deleting"},
                          todo : SUBSET Trees, owned : SUBSET Trees]
    BY <1>0, <1>5, <2>1 DEF Detaches
  <2>3. /\ work' \in [Trees -> Stages] /\ teardown # Resting
        /\ \A u \in Trees : work'[u] \in {"none", work[u]}
    BY <1>0, <2>1, <2>2 DEF Stages
  <2> QED
    BY <1>0, <1>5, <2>2, <2>3 DEF Detaches
<1>6. CASE LooksForFiles
  <2>1. /\ teardown.at = "detaching" /\ UNCHANGED <<work, onBranch, loose, agent, met>>
        /\ \/ teardown' = Resting
           \/ /\ ~loose /\ Present = {}
              /\ teardown' = [Resting EXCEPT !.at = "deleting"]
    BY <1>6 DEF LooksForFiles
  <2>2. CASE teardown' = Resting
    BY <1>0, <2>1, <2>2
  <2>3. CASE ~loose /\ Present = {} /\ teardown' = [Resting EXCEPT !.at = "deleting"]
    <3>1. /\ teardown'.at = "deleting"
          /\ teardown' \in [at : {"idle", "checking", "detaching", "deleting"},
                            todo : SUBSET Trees, owned : SUBSET Trees]
      BY <1>0, <2>3
    <3>2. \A t \in Trees : work[t] = "none"
      BY <2>3 DEF Present
    <3> QED
      BY <1>0, <2>1, <2>3, <3>1, <3>2
  <2> QED
    BY <2>1, <2>2, <2>3
<1>7. CASE RemovesAll
  BY <1>0, <1>7 DEF RemovesAll, Stages
<1>8. CASE UNCHANGED dirVars
  BY <1>8 DEF dirVars
<1> QED
  BY <1>1, <1>2, <1>3, <1>4, <1>5, <1>6, <1>7, <1>8 DEF WorkdirNext

LEMMA WorkdirInvHolds == WorkdirInit /\ [][WorkdirNext]_dirVars => []WorkdirInv
<1>1. WorkdirInit => WorkdirInv
  <2> SUFFICES ASSUME WorkdirInit PROVE WorkdirInv
    OBVIOUS
  <2>1. /\ work = [t \in Trees |-> "none"] /\ onBranch = [t \in Trees |-> TRUE]
        /\ loose = FALSE /\ agent = FALSE /\ met = FALSE /\ teardown = Resting
    BY DEF WorkdirInit
  <2>2. Resting.at = "idle" /\ Resting.todo = {} /\ Resting.owned = {}
        /\ Resting \in [at : {"idle", "checking", "detaching", "deleting"},
                        todo : SUBSET Trees, owned : SUBSET Trees]
    BY DEF Resting
  <2>3. work \in [Trees -> Stages] /\ onBranch \in [Trees -> BOOLEAN]
    BY <2>1 DEF Stages
  <2> QED
    BY <2>1, <2>2, <2>3 DEF WorkdirInv, WorkdirTypeOK
<1> QED
  BY <1>1, WorkdirInvNext, PTL

\* However many worktrees an agent made, however commits, pushes and removals
\* fail: a teardown no agent comes back to removes a worktree only when the work
\* of every one is committed, and no file that is in none.
THEOREM OnlyBackedWorkHolds == PartsSpec => OnlyBackedWorkGoes
<1>1. WorkdirInv /\ [WorkdirNext]_dirVars =>
        [~met /\ ~agent =>
            /\ loose => loose'
            /\ (\E t \in Present : work'[t] = "none")
                  => \A t \in Present : work[t] # "tree"]_dirVars
  <2> SUFFICES ASSUME WorkdirInv, WorkdirNext, ~met, ~agent
               PROVE  /\ loose => loose'
                      /\ (\E t \in Present : work'[t] = "none")
                            => \A t \in Present : work[t] # "tree"
    OBVIOUS
  <2>0. work \in [Trees -> Stages] /\ Present \subseteq Trees
    BY DEF WorkdirInv, WorkdirTypeOK, Present
  <2>1. CASE AgentBegins \/ TeardownBegins \/ LooksForFiles
    BY <2>1 DEF AgentBegins, TeardownBegins, LooksForFiles, Present
  <2>2. CASE Checks
    <3>1. \A t \in Present : work'[t] # "none"
      BY <2>0, <2>2 DEF Checks, LookAt, Keep, Present
    <3> QED
      BY <2>2, <3>1 DEF Checks
  <2>3. CASE Detaches
    BY <2>0, <2>3 DEF Detaches, WorkdirInv
  <2>4. CASE RemovesAll
    BY <2>4 DEF RemovesAll, WorkdirInv, Present
  <2> QED
    BY <2>1, <2>2, <2>3, <2>4 DEF WorkdirNext, AgentWorks, AgentEnds
<1> QED
  BY <1>1, WorkdirTurns, WorkdirInvHolds, PTL DEF OnlyBackedWorkGoes

-----------------------------------------------------------------------------
(* The settings.                                                           *)

Named == Logins \cup {Empty}
Stored == Named \cup {Unset}
Config == [keys : [Keys -> Values], account : [AccountKeys -> Named]]
Request == [at : {"idle", "writing"}, kind : {"none", "put", "select"},
            todo : SUBSET ((Keys \X Values) \cup (AccountKeys \X Named)),
            got : Config, unread : SUBSET Keys, alone : BOOLEAN]

SettingsTypes ==
    /\ table \in [keys : [Keys -> Values], account : [AccountKeys -> Stored]]
    /\ cfg \in Config
    /\ handler \in [Handlers -> Request]
    /\ spoiled \subseteq {"put", "select"}

\* A request knows whether it met another of its kind, and so does "spoiled".
Company(h) ==
    /\ handler[h].at = "idle" <=> handler[h].kind = "none"
    /\ handler[h].kind # "none" /\ handler[h].alone => InFlight(handler[h].kind) = {h}
    /\ handler[h].kind \notin spoiled \cup {"none"} => handler[h].alone

\* What a PUT that met no other has loaded is what the table has.
PutAt(h) ==
    handler[h].kind = "put" =>
        /\ handler[h].todo \subseteq Keys \X Values
        /\ handler[h].todo # {} => handler[h].unread = Keys
        /\ handler[h].alone => \A k \in Keys \ handler[h].unread :
              handler[h].got.keys[k] = table.keys[k]

\* What a selection has written is all of one account, but for what it has yet
\* to write; if it met no other, the table has the same.
SelectsAt(h, a) ==
    /\ handler[h].todo \subseteq {<<k, Discovered(a)[k]>> : k \in AccountKeys}
    /\ \A k \in AccountKeys : <<k, Discovered(a)[k]>> \notin handler[h].todo =>
          /\ handler[h].got.account[k] = Discovered(a)[k]
          /\ handler[h].alone => table.account[k] = Discovered(a)[k]
SelectAt(h) == handler[h].kind = "select" => \E a \in Logins : SelectsAt(h, a)

SettingsInv ==
    /\ SettingsTypes /\ MemoryAgrees /\ OneWholeAccount
    /\ \A h \in Handlers : Company(h) /\ PutAt(h) /\ SelectAt(h)

LEMMA DiscoveredType == \A a \in Logins : Discovered(a) \in [AccountKeys -> Named]
BY DEF Discovered, Named

LEMMA LoadedType ==
    ASSUME NEW stored \in [AccountKeys -> Stored]
    PROVE  LoadedAccount(stored) \in [AccountKeys -> Named]
<1> DEFINE of == [k \in AccountKeys |-> Chosen(stored[k], Discovered(EnvLogin)[k])]
<1>1. of \in [AccountKeys -> Named]
  BY DiscoveredType, SettingsAssumption DEF Chosen, Stored
<1>2. of["dir"] \in Boxed => Discovered(of["dir"]) \in [AccountKeys -> Named]
  BY DiscoveredType, SettingsAssumption
<1> QED
  BY <1>1, <1>2 DEF LoadedAccount

\* A whole account in the table is loaded as it is.
LEMMA LoadsWhole ==
    ASSUME NEW a \in Logins
    PROVE  LoadedAccount(Discovered(a)) = Discovered(a)
<1> DEFINE of == [k \in AccountKeys |-> Chosen(Discovered(a)[k], Discovered(EnvLogin)[k])]
<1>1. \A k \in AccountKeys : Discovered(a)[k] # Unset
  BY SettingsAssumption DEF Discovered, Unset, Empty
<1>2. of = Discovered(a)
  <2>1. of = [k \in AccountKeys |-> Discovered(a)[k]]
    BY <1>1 DEF Chosen
  <2> QED
    BY <2>1 DEF Discovered
<1>3. of["dir"] = a /\ (a \in Boxed => of["keychain"] # Empty)
  BY <1>2, SettingsAssumption DEF Discovered, AccountKeys
<1> QED
  BY <1>2, <1>3 DEF LoadedAccount

LEMMA SettingsInvInit == SettingsInit => SettingsInv
<1> SUFFICES ASSUME SettingsInit PROVE SettingsInv
  OBVIOUS
<1> DEFINE unset == [k \in AccountKeys |-> Unset]
<1>1. Nothing.keys \in [Keys -> Values] /\ Nothing \in Config /\ Waiting \in Request
  BY DiscoveredType, SettingsAssumption DEF Nothing, Waiting, Config, Request
<1>2. /\ table = [keys |-> Nothing.keys, account |-> unset]
      /\ cfg = [keys |-> Nothing.keys, account |-> LoadedAccount(unset)]
      /\ handler = [h \in Handlers |-> Waiting] /\ spoiled = {}
  BY DEF SettingsInit
<1>3. unset \in [AccountKeys -> Stored]
  BY DEF Stored
<1>4. SettingsTypes
  BY <1>1, <1>2, <1>3, LoadedType DEF SettingsTypes, Config
<1>5. \A h \in Handlers : Company(h) /\ PutAt(h) /\ SelectAt(h)
  BY <1>2 DEF Company, PutAt, SelectAt, Waiting
<1>6. LoadedAccount(unset) = Discovered(EnvLogin)
  <2> DEFINE of == [k \in AccountKeys |-> Chosen(unset[k], Discovered(EnvLogin)[k])]
  <2>1. of = Discovered(EnvLogin)
    BY DEF Chosen, Discovered
  <2>2. of["dir"] = EnvLogin /\ (EnvLogin \in Boxed => of["keychain"] # Empty)
    BY <2>1, SettingsAssumption DEF Discovered, AccountKeys
  <2> QED
    BY <2>1, <2>2 DEF LoadedAccount
<1> QED
  BY <1>2, <1>4, <1>5, <1>6, SettingsAssumption
     DEF SettingsInv, MemoryAgrees, OneWholeAccount

\* A request that reads or ends leaves the others as they were.
LEMMA Alike ==
    ASSUME SettingsInv, NEW h \in Handlers, table' = table,
           spoiled \subseteq spoiled' \cup {handler[h].kind},
           handler' = [handler EXCEPT ![h] = Waiting],
           spoiled' \subseteq {"put", "select"},
           handler[h].kind \notin spoiled' \cup {"none"} => handler[h].alone
    PROVE  /\ \A g \in Handlers : Company(g)' /\ PutAt(g)' /\ SelectAt(g)'
           /\ handler' \in [Handlers -> Request]
           /\ \A kind \in {"put", "select"} : InFlight(kind)' = InFlight(kind) \ {h}
<1>1. handler \in [Handlers -> Request]
  BY DEF SettingsInv, SettingsTypes
<1>2. Waiting \in Request
  BY DiscoveredType, SettingsAssumption DEF Nothing, Waiting, Config, Request
<1>3. handler' \in [Handlers -> Request]
  BY <1>1, <1>2
<1>4. Waiting.at = "idle" /\ Waiting.kind = "none"
  BY DEF Waiting
<1>5. \A kind \in {"put", "select"} : InFlight(kind)' = InFlight(kind) \ {h}
  BY <1>1, <1>4 DEF InFlight
<1>6. ASSUME NEW g \in Handlers PROVE Company(g)' /\ PutAt(g)' /\ SelectAt(g)'
  <2>1. CASE g = h
    BY <1>1, <1>4, <2>1 DEF Company, PutAt, SelectAt
  <2>2. CASE g # h
    <3>1. handler'[g] = handler[g] /\ Company(g) /\ PutAt(g) /\ SelectAt(g)
      BY <1>1, <2>2 DEF SettingsInv
    <3>2. PutAt(g)' /\ SelectAt(g)'
      BY <3>1 DEF PutAt, SelectAt, SelectsAt
    <3>3. handler[g].kind \in {"none", "put", "select"}
      BY <1>1 DEF Request
    <3>4. handler[g].kind # "none" /\ handler[g].alone =>
            InFlight(handler[g].kind)' = {g}
      BY <1>5, <2>2, <3>1, <3>3 DEF Company
    <3>5. handler[g].kind \notin spoiled' \cup {"none"} => handler[g].alone
      <4> SUFFICES ASSUME handler[g].kind \notin spoiled' \cup {"none"},
                          handler[g].kind \in spoiled
                   PROVE  FALSE
        BY <3>1 DEF Company
      <4>1. handler[h].kind = handler[g].kind /\ handler[h].alone
        OBVIOUS
      <4>2. InFlight(handler[h].kind) = {h}
        BY <4>1 DEF SettingsInv, Company
      <4> QED
        BY <2>2, <4>1, <4>2 DEF InFlight
    <3> QED
      BY <3>1, <3>2, <3>4, <3>5 DEF Company
  <2> QED
    BY <2>1, <2>2
<1> QED
  BY <1>3, <1>5, <1>6

LEMMA SettingsInvArrives ==
    ASSUME SettingsInv, NEW h \in Handlers, NEW kind \in {"put", "select"}, NEW todo,
           Arrives(h, kind, todo),
           kind = "put" => todo \subseteq Keys \X Values,
           kind = "select" => \E a \in Logins :
               todo = {<<k, Discovered(a)[k]>> : k \in AccountKeys}
    PROVE  SettingsInv'
<1> DEFINE new == [at |-> "writing", kind |-> kind, todo |-> todo, got |-> Nothing,
                   unread |-> Keys, alone |-> InFlight(kind) = {}]
<1>1. /\ handler \in [Handlers -> Request]
      /\ table \in [keys : [Keys -> Values], account : [AccountKeys -> Stored]]
      /\ cfg \in Config /\ spoiled \subseteq {"put", "select"}
  BY DEF SettingsInv, SettingsTypes
<1>2. /\ table' = table /\ cfg' = cfg
      /\ spoiled' = IF InFlight(kind) = {} THEN spoiled ELSE spoiled \cup {kind}
      /\ handler[h].kind = "none"
      /\ handler' = [g \in Handlers |->
            IF g = h THEN new
            ELSE IF g \in InFlight(kind) THEN [handler[g] EXCEPT !.alone = FALSE]
            ELSE handler[g]]
  BY DEF Arrives, Waiting
<1>3. todo \in SUBSET ((Keys \X Values) \cup (AccountKeys \X Named))
  BY DiscoveredType
<1>4. new \in Request
  BY <1>3, DiscoveredType, SettingsAssumption DEF Nothing, Config, Request
<1>5. \A g \in Handlers : g # h =>
        /\ handler'[g] \in Request
        /\ handler'[g].kind = handler[g].kind /\ handler'[g].at = handler[g].at
        /\ handler'[g].todo = handler[g].todo /\ handler'[g].got = handler[g].got
        /\ handler'[g].unread = handler[g].unread
        /\ handler'[g].alone = (handler[g].alone /\ handler[g].kind # kind)
  <2> SUFFICES ASSUME NEW g \in Handlers, g # h
               PROVE  /\ handler'[g] \in Request
                      /\ handler'[g].kind = handler[g].kind
                      /\ handler'[g].at = handler[g].at
                      /\ handler'[g].todo = handler[g].todo
                      /\ handler'[g].got = handler[g].got
                      /\ handler'[g].unread = handler[g].unread
                      /\ handler'[g].alone = (handler[g].alone /\ handler[g].kind # kind)
    OBVIOUS
  <2>1. handler[g] \in Request /\ handler[g].alone \in BOOLEAN
    BY <1>1 DEF Request
  <2>2. CASE g \in InFlight(kind)
    <3>1. handler'[g] = [handler[g] EXCEPT !.alone = FALSE] /\ handler[g].kind = kind
      BY <1>2, <2>2 DEF InFlight
    <3> QED
      BY <2>1, <3>1 DEF Request
  <2>3. CASE g \notin InFlight(kind)
    <3>1. handler'[g] = handler[g] /\ handler[g].kind # kind
      BY <1>2, <2>3 DEF InFlight
    <3> QED
      BY <2>1, <3>1
  <2> QED
    BY <2>2, <2>3
<1>6. handler'[h] = new
  BY <1>2
<1>7. handler' \in [Handlers -> Request]
  BY <1>2, <1>4, <1>5, <1>6
<1>8. InFlight(kind)' = InFlight(kind) \cup {h}
      /\ \A other : other # kind => InFlight(other)' \subseteq InFlight(other)
                    /\ (other # "none" => InFlight(other)' = InFlight(other))
  BY <1>2, <1>5, <1>6 DEF InFlight
<1>9. ASSUME NEW g \in Handlers PROVE Company(g)' /\ PutAt(g)' /\ SelectAt(g)'
  <2>1. CASE g = h
    <3>1. Company(g)'
      BY <1>2, <1>6, <1>8, <2>1 DEF Company
    <3>2. PutAt(g)'
      BY <1>6, <2>1 DEF PutAt
    <3>3. SelectAt(g)'
      <4> SUFFICES ASSUME kind = "select" PROVE \E a \in Logins : SelectsAt(h, a)'
        BY <1>6, <2>1 DEF SelectAt
      <4>1. PICK a \in Logins : todo = {<<k, Discovered(a)[k]>> : k \in AccountKeys}
        OBVIOUS
      <4>2. SelectsAt(h, a)'
        BY <1>6, <4>1 DEF SelectsAt
      <4> QED
        BY <4>2
    <3> QED
      BY <3>1, <3>2, <3>3
  <2>2. CASE g # h
    <3>1. Company(g) /\ PutAt(g) /\ SelectAt(g)
      BY DEF SettingsInv
    <3>2. PutAt(g)'
      BY <1>2, <1>5, <2>2, <3>1 DEF PutAt
    <3>3. SelectAt(g)'
      <4> SUFFICES ASSUME handler[g].kind = "select"
                   PROVE  \E a \in Logins : SelectsAt(g, a)'
        BY <1>5, <2>2 DEF SelectAt
      <4>1. PICK a \in Logins : SelectsAt(g, a)
        BY <3>1 DEF SelectAt
      <4>2. SelectsAt(g, a)'
        BY <1>2, <1>5, <2>2, <4>1 DEF SelectsAt
      <4> QED
        BY <4>2
    <3>4. Company(g)'
      BY <1>2, <1>5, <1>8, <2>2, <3>1 DEF Company, InFlight
    <3> QED
      BY <3>2, <3>3, <3>4
  <2> QED
    BY <2>1, <2>2
<1>10. MemoryAgrees' /\ OneWholeAccount'
  BY <1>2, <1>8 DEF SettingsInv, MemoryAgrees, OneWholeAccount
<1> QED
  BY <1>1, <1>2, <1>7, <1>9, <1>10 DEF SettingsInv, SettingsTypes

LEMMA SettingsInvWrites ==
    ASSUME SettingsInv, NEW h \in Handlers, SetSetting(h)
    PROVE  SettingsInv'
<1>1. /\ handler \in [Handlers -> Request]
      /\ table \in [keys : [Keys -> Values], account : [AccountKeys -> Stored]]
      /\ cfg \in Config /\ spoiled \subseteq {"put", "select"}
  BY DEF SettingsInv, SettingsTypes
<1>2. PICK w \in handler[h].todo :
        /\ table' = IF handler[h].kind = "put" THEN [table EXCEPT !.keys[w[1]] = w[2]]
                    ELSE [table EXCEPT !.account[w[1]] = w[2]]
        /\ handler' = [handler EXCEPT ![h] = Wrote(handler[h], w)]
  BY DEF SetSetting
<1>3. /\ cfg' = cfg /\ spoiled' = spoiled /\ handler[h].at = "writing"
      /\ handler[h] \in Request /\ handler[h].got \in Config
      /\ Company(h) /\ PutAt(h) /\ SelectAt(h)
  BY <1>1 DEF SetSetting, SettingsInv, Request
<1>4. CASE handler[h].kind = "put"
  <2>1. w[1] \in Keys /\ w[2] \in Values
    BY <1>2, <1>3, <1>4 DEF PutAt
  <2> DEFINE x == Wrote(handler[h], w)
  <2>2. /\ table' = [table EXCEPT !.keys[w[1]] = w[2]]
        /\ handler' = [handler EXCEPT ![h] = x]
    BY <1>2, <1>4
  <2>a. /\ x \in Request /\ x.todo = handler[h].todo \ {w}
        /\ x.kind = handler[h].kind /\ x.at = handler[h].at
        /\ x.alone = handler[h].alone /\ x.unread = handler[h].unread
    BY <1>3, <1>4 DEF Wrote, Request, Config
  <2> HIDE DEF x
  <2>b. handler'[h] = x /\ \A g \in Handlers \ {h} : handler'[g] = handler[g]
    BY <1>1, <2>2
  <2>3. /\ table' \in [keys : [Keys -> Values], account : [AccountKeys -> Stored]]
        /\ table'.account = table.account
    BY <1>1, <2>1, <2>2
  <2>4. handler' \in [Handlers -> Request]
    BY <1>1, <2>2, <2>a
  <2>5. \A g \in Handlers : /\ handler'[g].kind = handler[g].kind
                            /\ handler'[g].at = handler[g].at
                            /\ handler'[g].alone = handler[g].alone
                            /\ g # h => handler'[g] = handler[g]
    BY <2>a, <2>b
  <2>6. \A kind : InFlight(kind)' = InFlight(kind)
    BY <2>5 DEF InFlight
  <2>7. ASSUME NEW g \in Handlers PROVE Company(g)' /\ PutAt(g)' /\ SelectAt(g)'
    <3>1. Company(g) /\ PutAt(g) /\ SelectAt(g)
      BY DEF SettingsInv
    <3>2. Company(g)'
      BY <1>3, <2>5, <2>6, <3>1 DEF Company
    <3>3. CASE g = h
      <4>1. /\ handler'[h].todo = handler[h].todo \ {w}
            /\ handler'[h].unread = handler[h].unread
        BY <2>a, <2>b
      <4>2. handler[h].unread = Keys
        BY <1>2, <1>3, <1>4 DEF PutAt
      <4>3. PutAt(h)'
        BY <1>3, <1>4, <2>5, <4>1, <4>2 DEF PutAt
      <4> QED
        BY <1>4, <2>5, <3>2, <3>3, <4>3 DEF SelectAt
    <3>4. CASE g # h
      <4>1. handler[g].kind = "put" => ~handler[g].alone
        BY <1>4, <3>1, <3>4 DEF Company, InFlight
      <4>2. PutAt(g)'
        BY <2>5, <3>1, <3>4, <4>1 DEF PutAt
      <4>3. SelectAt(g)'
        BY <2>3, <2>5, <3>1, <3>4 DEF SelectAt, SelectsAt
      <4> QED
        BY <3>2, <4>2, <4>3
    <3> QED
      BY <3>3, <3>4
  <2>8. h \in InFlight("put")'
    BY <1>4, <2>5 DEF InFlight
  <2>9. MemoryAgrees' /\ OneWholeAccount'
    BY <1>3, <2>3, <2>6, <2>8 DEF SettingsInv, MemoryAgrees, OneWholeAccount
  <2> QED
    BY <1>1, <1>3, <2>3, <2>4, <2>7, <2>9 DEF SettingsInv, SettingsTypes
<1>5. CASE handler[h].kind # "put"
  <2>1. handler[h].kind = "select"
    BY <1>3, <1>5 DEF Company, Request
  <2>2. PICK a \in Logins : SelectsAt(h, a)
    BY <1>3, <2>1 DEF SelectAt
  <2>3. PICK k \in AccountKeys : w = <<k, Discovered(a)[k]>>
    BY <1>2, <2>2 DEF SelectsAt
  <2>4. Discovered(a)[k] \in Named
    BY DiscoveredType
  <2>5. table' = [table EXCEPT !.account[k] = Discovered(a)[k]]
    BY <1>2, <1>5, <2>3
  <2>6. /\ table' \in [keys : [Keys -> Values], account : [AccountKeys -> Stored]]
        /\ table'.keys = table.keys
        /\ table'.account = [table.account EXCEPT ![k] = Discovered(a)[k]]
    BY <1>1, <2>4, <2>5 DEF Stored
  <2> DEFINE x == Wrote(handler[h], w)
             got == IF handler[h].kind = "put" THEN handler[h].got
                    ELSE [handler[h].got EXCEPT !.account[w[1]] = w[2]]
  <2>8. handler' = [handler EXCEPT ![h] = x]
    BY <1>2
  <2>7. /\ got \in Config
        /\ got.account = [handler[h].got.account EXCEPT ![k] = Discovered(a)[k]]
    <3>1. got = [handler[h].got EXCEPT !.account[k] = Discovered(a)[k]]
      BY <1>5, <2>3
    <3> HIDE DEF got
    <3> QED
      BY <1>3, <2>4, <3>1 DEF Config
  <2>c. x = [handler[h] EXCEPT !.todo = handler[h].todo \ {w}, !.got = got]
    BY DEF Wrote
  <2> HIDE DEF got, x
  <2>a. /\ x \in Request /\ x.todo = handler[h].todo \ {w} /\ x.got = got
        /\ x.kind = handler[h].kind /\ x.at = handler[h].at
        /\ x.alone = handler[h].alone
    BY <1>3, <2>7, <2>c DEF Request
  <2>b. handler'[h] = x /\ \A g \in Handlers \ {h} : handler'[g] = handler[g]
    BY <1>1, <2>8
  <2>9. /\ handler' \in [Handlers -> Request]
        /\ handler'[h].todo = handler[h].todo \ {w} /\ handler'[h].got = got
    BY <1>1, <2>8, <2>a, <2>b
  <2>10. \A g \in Handlers : /\ handler'[g].kind = handler[g].kind
                             /\ handler'[g].at = handler[g].at
                             /\ handler'[g].alone = handler[g].alone
                             /\ g # h => handler'[g] = handler[g]
    BY <2>a, <2>b
  <2>11. \A kind : InFlight(kind)' = InFlight(kind)
    BY <2>10 DEF InFlight
  <2>12. SelectsAt(h, a)'
    <3>1. handler'[h].todo \subseteq {<<j, Discovered(a)[j]>> : j \in AccountKeys}
      BY <2>2, <2>9 DEF SelectsAt
    <3>2. ASSUME NEW j \in AccountKeys, <<j, Discovered(a)[j]>> \notin handler'[h].todo
          PROVE  /\ handler'[h].got.account[j] = Discovered(a)[j]
                 /\ handler'[h].alone => table'.account[j] = Discovered(a)[j]
      <4>1. CASE j = k
        BY <1>1, <1>3, <2>6, <2>7, <2>9, <4>1 DEF Config
      <4>2. CASE j # k
        <5>1. <<j, Discovered(a)[j]>> \notin handler[h].todo
          BY <2>3, <2>9, <3>2, <4>2
        <5>2. /\ handler[h].got.account[j] = Discovered(a)[j]
              /\ handler[h].alone => table.account[j] = Discovered(a)[j]
          BY <2>2, <5>1 DEF SelectsAt
        <5> QED
          BY <1>1, <1>3, <2>6, <2>7, <2>9, <2>10, <4>2, <5>2 DEF Config
      <4> QED
        BY <4>1, <4>2
    <3> QED
      BY <3>1, <3>2 DEF SelectsAt, Discovered
  <2>13. ASSUME NEW g \in Handlers PROVE Company(g)' /\ PutAt(g)' /\ SelectAt(g)'
    <3>1. Company(g) /\ PutAt(g) /\ SelectAt(g)
      BY DEF SettingsInv
    <3>2. Company(g)'
      BY <1>3, <2>10, <2>11, <3>1 DEF Company
    <3>3. CASE g = h
      BY <1>5, <2>10, <2>12, <3>2, <3>3 DEF PutAt, SelectAt
    <3>4. CASE g # h
      <4>1. handler[g].kind = "select" => ~handler[g].alone
        BY <2>1, <3>1, <3>4 DEF Company, InFlight
      <4>2. PutAt(g)'
        BY <2>6, <2>10, <3>1, <3>4 DEF PutAt
      <4>3. SelectAt(g)'
        BY <2>10, <3>1, <3>4, <4>1 DEF SelectAt, SelectsAt
      <4> QED
        BY <3>2, <4>2, <4>3
    <3> QED
      BY <3>3, <3>4
  <2>14. h \in InFlight("select")'
    BY <2>1, <2>10 DEF InFlight
  <2>15. MemoryAgrees' /\ OneWholeAccount'
    BY <1>3, <2>6, <2>11, <2>14 DEF SettingsInv, MemoryAgrees, OneWholeAccount
  <2> QED
    BY <1>1, <1>3, <2>6, <2>9, <2>13, <2>15 DEF SettingsInv, SettingsTypes
<1> QED
  BY <1>4, <1>5

LEMMA SettingsInvLoads ==
    ASSUME SettingsInv, NEW h \in Handlers, LoadsKey(h)
    PROVE  SettingsInv'
<1>1. /\ handler \in [Handlers -> Request]
      /\ table \in [keys : [Keys -> Values], account : [AccountKeys -> Stored]]
      /\ cfg \in Config /\ spoiled \subseteq {"put", "select"}
  BY DEF SettingsInv, SettingsTypes
<1>2. PICK k \in handler[h].unread :
        handler' = [handler EXCEPT ![h] = Loaded(handler[h], k)]
  BY DEF LoadsKey
<1> DEFINE got == [keys |-> [handler[h].got.keys EXCEPT ![k] = table.keys[k]],
                   account |-> LoadedAccount(table.account)]
           x == Loaded(handler[h], k)
<1>3. /\ table' = table /\ cfg' = cfg /\ spoiled' = spoiled
      /\ handler[h].kind = "put" /\ handler[h].todo = {}
      /\ handler[h] \in Request /\ handler[h].got \in Config /\ k \in Keys
      /\ table.keys[k] \in Values
      /\ Company(h) /\ PutAt(h)
  BY <1>1, <1>2 DEF LoadsKey, SettingsInv, Request
<1>4. LoadedAccount(table.account) \in [AccountKeys -> Named]
  BY <1>1, LoadedType
<1>5. got \in Config /\ got.keys = [handler[h].got.keys EXCEPT ![k] = table.keys[k]]
  BY <1>3, <1>4 DEF Config
<1>6. handler' = [handler EXCEPT ![h] = x]
  BY <1>2
<1>a. /\ x \in Request /\ x.unread = handler[h].unread \ {k} /\ x.got = got
      /\ x.kind = handler[h].kind /\ x.at = handler[h].at
      /\ x.alone = handler[h].alone /\ x.todo = handler[h].todo
  BY <1>3, <1>5 DEF Loaded, Request
<1> HIDE DEF got, x
<1>b. handler'[h] = x /\ \A g \in Handlers \ {h} : handler'[g] = handler[g]
  BY <1>1, <1>6
<1>7. /\ handler' \in [Handlers -> Request]
      /\ handler'[h].unread = handler[h].unread \ {k} /\ handler'[h].got = got
      /\ handler'[h].todo = handler[h].todo
  BY <1>1, <1>6, <1>a, <1>b
<1>8. \A g \in Handlers : /\ handler'[g].kind = handler[g].kind
                          /\ handler'[g].at = handler[g].at
                          /\ handler'[g].alone = handler[g].alone
                          /\ g # h => handler'[g] = handler[g]
  BY <1>a, <1>b
<1>9. \A kind : InFlight(kind)' = InFlight(kind)
  BY <1>8 DEF InFlight
<1>10. PutAt(h)'
  <2>1. handler[h].alone => \A j \in Keys \ handler'[h].unread :
                                got.keys[j] = table.keys[j]
    BY <1>3, <1>5, <1>7 DEF PutAt, Config
  <2> QED
    BY <1>3, <1>7, <1>8, <2>1 DEF PutAt
<1>11. ASSUME NEW g \in Handlers PROVE Company(g)' /\ PutAt(g)' /\ SelectAt(g)'
  <2>1. Company(g) /\ PutAt(g) /\ SelectAt(g)
    BY DEF SettingsInv
  <2>2. Company(g)'
    BY <1>3, <1>8, <1>9, <2>1 DEF Company
  <2>3. CASE g = h
    BY <1>3, <1>8, <1>10, <2>2, <2>3 DEF SelectAt
  <2>4. CASE g # h
    BY <1>3, <1>8, <2>1, <2>2, <2>4 DEF PutAt, SelectAt, SelectsAt
  <2> QED
    BY <2>3, <2>4
<1>12. MemoryAgrees' /\ OneWholeAccount'
  BY <1>3, <1>9 DEF SettingsInv, MemoryAgrees, OneWholeAccount
<1> QED
  BY <1>1, <1>3, <1>7, <1>11, <1>12 DEF SettingsInv, SettingsTypes

\* A PUT that met no other hands over the keys as they are in the table.
LEMMA SettingsInvSets ==
    ASSUME SettingsInv, NEW h \in Handlers, SetConfig(h)
    PROVE  SettingsInv'
<1>1. /\ handler \in [Handlers -> Request] /\ cfg \in Config
      /\ table \in [keys : [Keys -> Values], account : [AccountKeys -> Stored]]
      /\ spoiled \subseteq {"put", "select"}
  BY DEF SettingsInv, SettingsTypes
<1>2. /\ handler[h].kind = "put" /\ handler[h].todo = {} /\ handler[h].unread = {}
      /\ cfg' = [cfg EXCEPT !.keys = handler[h].got.keys]
      /\ handler' = [handler EXCEPT ![h] = Waiting]
      /\ spoiled' = IF handler[h].alone THEN spoiled \ {"put"} ELSE spoiled
      /\ table' = table
  BY DEF SetConfig, Settles
<1>3. handler[h].got.keys \in [Keys -> Values] /\ Company(h) /\ PutAt(h)
  BY <1>1 DEF Request, Config, SettingsInv
<1>4. cfg' \in Config /\ cfg'.account = cfg.account /\ cfg'.keys = handler[h].got.keys
  BY <1>1, <1>2, <1>3 DEF Config
<1>5. "put" \notin spoiled' => handler[h].alone
  BY <1>2, <1>3 DEF Company
<1>6. /\ \A g \in Handlers : Company(g)' /\ PutAt(g)' /\ SelectAt(g)'
      /\ handler' \in [Handlers -> Request]
      /\ \A kind \in {"put", "select"} : InFlight(kind)' = InFlight(kind) \ {h}
  <2>1. spoiled \subseteq spoiled' \cup {handler[h].kind} /\ spoiled' \subseteq {"put", "select"}
    BY <1>1, <1>2
  <2> QED
    BY <1>2, <1>5, <2>1, Alike
<1>7. handler[h].alone => handler[h].got.keys = table.keys
  <2> SUFFICES ASSUME handler[h].alone PROVE handler[h].got.keys = table.keys
    OBVIOUS
  <2>1. \A k \in Keys : handler[h].got.keys[k] = table.keys[k]
    BY <1>2, <1>3 DEF PutAt
  <2> QED
    BY <1>1, <1>3, <2>1
<1>8. InFlight("select")' = InFlight("select")
  BY <1>2, <1>6 DEF InFlight
<1>9. MemoryAgrees' /\ OneWholeAccount'
  BY <1>2, <1>4, <1>5, <1>7, <1>8 DEF SettingsInv, MemoryAgrees, OneWholeAccount
<1> QED
  BY <1>1, <1>2, <1>4, <1>6, <1>9 DEF SettingsInv, SettingsTypes

\* A selection hands over one account; if it met no other, the one in the table.
LEMMA SettingsInvSelects ==
    ASSUME SettingsInv, NEW h \in Handlers, SetAccountTo(h)
    PROVE  SettingsInv'
<1>1. /\ handler \in [Handlers -> Request] /\ cfg \in Config
      /\ table \in [keys : [Keys -> Values], account : [AccountKeys -> Stored]]
      /\ spoiled \subseteq {"put", "select"}
  BY DEF SettingsInv, SettingsTypes
<1>2. /\ handler[h].kind = "select" /\ handler[h].todo = {}
      /\ cfg' = [cfg EXCEPT !.account = handler[h].got.account]
      /\ handler' = [handler EXCEPT ![h] = Waiting]
      /\ spoiled' = IF handler[h].alone THEN spoiled \ {"select"} ELSE spoiled
      /\ table' = table
  BY DEF SetAccountTo, Settles
<1>3. handler[h].got.account \in [AccountKeys -> Named] /\ Company(h) /\ SelectAt(h)
  BY <1>1 DEF Request, Config, SettingsInv
<1>4. cfg' \in Config /\ cfg'.keys = cfg.keys /\ cfg'.account = handler[h].got.account
  BY <1>1, <1>2, <1>3 DEF Config
<1>5. "select" \notin spoiled' => handler[h].alone
  BY <1>2, <1>3 DEF Company
<1>6. /\ \A g \in Handlers : Company(g)' /\ PutAt(g)' /\ SelectAt(g)'
      /\ handler' \in [Handlers -> Request]
      /\ \A kind \in {"put", "select"} : InFlight(kind)' = InFlight(kind) \ {h}
  <2>1. spoiled \subseteq spoiled' \cup {handler[h].kind} /\ spoiled' \subseteq {"put", "select"}
    BY <1>1, <1>2
  <2> QED
    BY <1>2, <1>5, <2>1, Alike
<1>7. PICK a \in Logins : SelectsAt(h, a)
  BY <1>2, <1>3 DEF SelectAt
<1>8. Discovered(a) \in [AccountKeys -> Named]
  BY DiscoveredType
<1>9. handler[h].got.account = Discovered(a)
  <2>1. \A k \in AccountKeys : handler[h].got.account[k] = Discovered(a)[k]
    BY <1>2, <1>7 DEF SelectsAt
  <2> QED
    BY <1>3, <1>8, <2>1
<1>10. handler[h].alone => table.account = Discovered(a)
  <2> SUFFICES ASSUME handler[h].alone PROVE table.account = Discovered(a)
    OBVIOUS
  <2>1. \A k \in AccountKeys : table.account[k] = Discovered(a)[k]
    BY <1>2, <1>7 DEF SelectsAt
  <2>2. table.account \in [AccountKeys -> Stored]
    BY <1>1
  <2> QED
    BY <1>8, <2>1, <2>2
<1>11. InFlight("put")' = InFlight("put")
  BY <1>2, <1>6 DEF InFlight
<1>12. "select" \notin spoiled' => cfg'.account = LoadedAccount(table'.account)
  BY <1>2, <1>4, <1>5, <1>9, <1>10, LoadsWhole
<1>13. MemoryAgrees' /\ OneWholeAccount'
  BY <1>2, <1>4, <1>9, <1>11, <1>12 DEF SettingsInv, MemoryAgrees, OneWholeAccount
<1> QED
  BY <1>1, <1>2, <1>4, <1>6, <1>13 DEF SettingsInv, SettingsTypes

LEMMA SettingsInvNext ==
    ASSUME SettingsInv, [SettingsNext]_settingsVars
    PROVE  SettingsInv'
<1>1. /\ handler \in [Handlers -> Request] /\ cfg \in Config
      /\ table \in [keys : [Keys -> Values], account : [AccountKeys -> Stored]]
      /\ spoiled \subseteq {"put", "select"}
  BY DEF SettingsInv, SettingsTypes
<1>2. ASSUME NEW h \in Handlers, PutConfig(h) PROVE SettingsInv'
  <2>1. PICK put \in SUBSET Keys \ {{}} : \E body \in [put -> Values] :
            Arrives(h, "put", {<<k, body[k]>> : k \in put})
    BY <1>2 DEF PutConfig
  <2>2. PICK body \in [put -> Values] :
            Arrives(h, "put", {<<k, body[k]>> : k \in put})
    BY <2>1
  <2>3. {<<k, body[k]>> : k \in put} \subseteq Keys \X Values
    OBVIOUS
  <2> QED
    BY <2>2, <2>3, SettingsInvArrives
<1>3. ASSUME NEW h \in Handlers, SelectAccount(h) PROVE SettingsInv'
  <2>1. PICK a \in Logins :
            Arrives(h, "select", {<<k, Discovered(a)[k]>> : k \in AccountKeys})
    BY <1>3 DEF SelectAccount
  <2> QED
    BY <2>1, SettingsInvArrives
<1>4. ASSUME NEW h \in Handlers, SetSettingFails(h) PROVE SettingsInv'
  <2>1. /\ spoiled' = spoiled \cup {handler[h].kind} /\ table' = table /\ cfg' = cfg
        /\ handler' = [handler EXCEPT ![h] = Waiting]
        /\ handler[h].at = "writing" /\ handler[h] \in Request /\ Company(h)
    BY <1>1, <1>4 DEF SetSettingFails, SettingsInv
  <2>2. handler[h].kind \in {"put", "select"}
    BY <2>1 DEF Company, Request
  <2>3. /\ \A g \in Handlers : Company(g)' /\ PutAt(g)' /\ SelectAt(g)'
        /\ handler' \in [Handlers -> Request]
        /\ \A kind \in {"put", "select"} : InFlight(kind)' = InFlight(kind) \ {h}
    BY <1>1, <2>1, <2>2, Alike
  <2>4. MemoryAgrees' /\ OneWholeAccount'
    BY <2>1, <2>2, <2>3 DEF SettingsInv, MemoryAgrees, OneWholeAccount, InFlight
  <2> QED
    BY <1>1, <2>1, <2>2, <2>3, <2>4 DEF SettingsInv, SettingsTypes
<1>5. CASE Reload
  <2>1. /\ cfg' = [keys |-> table.keys, account |-> LoadedAccount(table.account)]
        /\ spoiled' = (spoiled \ {"put"}) \cup
                      (IF InFlight("select") # {} THEN {"select"} ELSE {})
        /\ handler' = [h \in Handlers |-> Waiting] /\ table' = table
    BY <1>5 DEF Reload
  <2>2. Waiting \in Request /\ Waiting.at = "idle" /\ Waiting.kind = "none"
    BY DiscoveredType, SettingsAssumption DEF Nothing, Waiting, Config, Request
  <2>3. handler' \in [Handlers -> Request]
    BY <2>1, <2>2
  <2>4. cfg' \in Config
    BY <1>1, <2>1, LoadedType DEF Config
  <2>5. \A g \in Handlers : Company(g)' /\ PutAt(g)' /\ SelectAt(g)'
    BY <2>1, <2>2 DEF Company, PutAt, SelectAt
  <2>6. MemoryAgrees'
    BY <2>1 DEF MemoryAgrees
  <2>7. OneWholeAccount'
    BY <2>1 DEF SettingsInv, MemoryAgrees, OneWholeAccount
  <2> QED
    BY <1>1, <2>1, <2>3, <2>4, <2>5, <2>6, <2>7 DEF SettingsInv, SettingsTypes
<1>6. CASE UNCHANGED settingsVars
  <2>1. \A h \in Handlers : /\ Company(h)' <=> Company(h)
                            /\ PutAt(h)' <=> PutAt(h)
                            /\ SelectAt(h)' <=> SelectAt(h)
    BY <1>6 DEF settingsVars, Company, PutAt, SelectAt, SelectsAt, InFlight
  <2> QED
    BY <1>6, <2>1 DEF settingsVars, SettingsInv, SettingsTypes, MemoryAgrees,
                      OneWholeAccount, InFlight
<1> QED
  BY <1>2, <1>3, <1>4, <1>5, <1>6, SettingsInvWrites, SettingsInvLoads, SettingsInvSets,
     SettingsInvSelects DEF SettingsNext

LEMMA SettingsInvHolds == SettingsInit /\ [][SettingsNext]_settingsVars => []SettingsInv
BY SettingsInvInit, SettingsInvNext, PTL

\* Whatever requests overlap and however they fail, with no PUT in flight and
\* none having met another since the last that was alone, memory has the keys
\* of the table; with no selection, the account a restart would load.
THEOREM MemoryAgreesHolds == PartsSpec => []MemoryAgrees
<1>1. SettingsInv => MemoryAgrees
  BY DEF SettingsInv
<1> QED
  BY <1>1, SettingsTurns, SettingsInvHolds, PTL

\* Runs are launched with one account's directory, keychain and password file,
\* unless selections met or one was cut in half and none has been made since.
THEOREM OneWholeAccountHolds == PartsSpec => []OneWholeAccount
<1>1. SettingsInv => OneWholeAccount
  BY DEF SettingsInv
<1> QED
  BY <1>1, SettingsTurns, SettingsInvHolds, PTL
-----------------------------------------------------------------------------
(* Every part's variables stay within their types: what the invariants     *)
(* above leave open, part by part, and then together.                      *)

\* A pass has at most one row in hand, and no wait is counted past a day.
ProberBounds ==
    /\ swapped \subseteq Rows
    /\ \A r \in Rows : row[r].age \in 0 .. Day
    /\ \A p \in Passes : pass[p].id = {} \/ \E r \in Rows : pass[p].id = {r}

LEMMA ProberTyped == ProberInit /\ [][ProberNext]_proberVars => []ProberTypeOK
<1> USE ProberAssumption
<1>1. ProberInit => ProberBounds
  <2> SUFFICES ASSUME ProberInit PROVE ProberBounds
    OBVIOUS
  <2>1. NotRunning.id = {} /\ Unprobed(NoUrl).age \in 0 .. Day
    BY DEF NotRunning, Unprobed
  <2> QED
    BY <2>1 DEF ProberInit, ProberBounds
<1>2. ProberInv /\ ProberBounds /\ [ProberNext]_proberVars => ProberBounds'
  <2> SUFFICES ASSUME ProberInv, ProberBounds, [ProberNext]_proberVars PROVE ProberBounds'
    OBVIOUS
  <2>0. pass \in [Passes -> PassTypes] /\ row \in [Rows -> RowTypes] /\ NotRunning.id = {}
    BY DEF ProberInv, ProberTypes, NotRunning
  <2>1. ASSUME NEW p \in Passes, NEW x, pass' = [pass EXCEPT ![p] = x],
               x.id = {} \/ \E r \in Rows : x.id = {r}
        PROVE  \A q \in Passes : pass'[q].id = {} \/ \E r \in Rows : pass'[q].id = {r}
    BY <2>0, <2>1 DEF ProberBounds
  <2>2. ASSUME NEW p \in Passes, NEW todo, NEW at, NEW changed,
               pass' = [pass EXCEPT ![p] = [NotRunning EXCEPT !.at = at, !.todo = todo,
                                                              !.changed = changed]]
        PROVE  \A q \in Passes : pass'[q].id = {} \/ \E r \in Rows : pass'[q].id = {r}
    <3> DEFINE x == [NotRunning EXCEPT !.at = at, !.todo = todo, !.changed = changed]
    <3>1. x.id = {}
      BY DEF NotRunning
    <3>2. pass' = [pass EXCEPT ![p] = x]
      BY <2>2
    <3> HIDE DEF x
    <3> QED
      BY <2>1, <3>1, <3>2
  <2>3. ASSUME NEW r \in Rows, NEW y, row' = [row EXCEPT ![r] = y], y.age \in 0 .. Day
        PROVE  \A s \in Rows : row'[s].age \in 0 .. Day
    BY <2>0, <2>3 DEF ProberBounds
  <2>4. ASSUME NEW p \in Passes, NEW rows, NEW forced, PassBegins(p, rows, forced)
        PROVE  ProberBounds'
    <3>1. PICK todo : pass' = [pass EXCEPT ![p] = [NotRunning EXCEPT !.at = "next", !.todo = todo]]
      BY <2>4 DEF PassBegins
    <3>2. [NotRunning EXCEPT !.at = "next", !.todo = todo].id = {}
      BY DEF NotRunning
    <3>3. UNCHANGED <<row, swapped>>
      BY <2>4 DEF PassBegins, proberGhosts
    <3> QED
      BY <2>1, <3>1, <3>2, <3>3 DEF ProberBounds
  <2>5. ASSUME NEW p \in Passes, Asks(p) PROVE ProberBounds'
    <3>1. PICK t \in pass[p].todo :
            pass' = [pass EXCEPT ![p].at = "asking", ![p].id = {t.id}, ![p].old = t.old,
                                 ![p].todo = @ \ {t}]
      BY <2>5 DEF Asks
    <3> DEFINE x == [pass[p] EXCEPT !.at = "asking", !.id = {t.id}, !.old = t.old,
                                    !.todo = @ \ {t}]
    <3>2. pass' = [pass EXCEPT ![p] = x]
      BY <3>1
    <3>3. x.id = {t.id}
      BY <2>0 DEF PassTypes
    <3>4. t.id \in Rows
      BY <2>0 DEF PassTypes, Todos
    <3> HIDE DEF x
    <3>5. UNCHANGED <<row, swapped>>
      BY <2>5 DEF Asks, proberGhosts
    <3> QED
      BY <2>1, <3>2, <3>3, <3>4, <3>5 DEF ProberBounds
  <2>6. ASSUME NEW p \in Passes, Answers(p) PROVE ProberBounds'
    <3> DEFINE x == [pass[p] EXCEPT !.at = "write", !.answer = pr[pass[p].old.url]]
    <3>1. pass' = [pass EXCEPT ![p] = x] /\ UNCHANGED <<row, swapped>>
      BY <2>6 DEF Answers, proberGhosts
    <3>2. x.id = pass[p].id
      BY <2>0 DEF PassTypes
    <3> HIDE DEF x
    <3> QED
      BY <2>1, <3>1, <3>2 DEF ProberBounds
  <2>7. ASSUME NEW p \in Passes, Writes(p) PROVE ProberBounds'
    <3>1. PICK r \in pass[p].id :
            row' = [row EXCEPT ![r].state = pass[p].answer, ![r].failures = 0, ![r].age = 0]
      BY <2>7 DEF Writes
    <3> DEFINE y == [row[r] EXCEPT !.state = pass[p].answer, !.failures = 0, !.age = 0]
    <3>2. r \in Rows
      BY <2>0 DEF PassTypes
    <3>3. row' = [row EXCEPT ![r] = y]
      BY <3>1
    <3>a. y.age \in 0 .. Day
      BY <2>0, <3>2 DEF RowTypes
    <3> HIDE DEF y
    <3>4. \A s \in Rows : row'[s].age \in 0 .. Day
      BY <2>3, <3>2, <3>3, <3>a
    <3>5. \A q \in Passes : pass'[q].id = {} \/ \E s \in Rows : pass'[q].id = {s}
      BY <2>2, <2>7 DEF Writes
    <3> QED
      BY <2>7, <3>4, <3>5 DEF Writes, ProberBounds, proberGhosts
  <2>8. ASSUME NEW p \in Passes, ProbeFails(p) PROVE ProberBounds'
    <3>1. PICK r \in pass[p].id :
            row' = [row EXCEPT ![r].failures = IF Doubled[@] > Day THEN @ ELSE @ + 1,
                               ![r].age = 0]
      BY <2>8 DEF ProbeFails
    <3> DEFINE y == [row[r] EXCEPT !.failures = IF Doubled[@] > Day THEN @ ELSE @ + 1,
                                   !.age = 0]
    <3>2. r \in Rows
      BY <2>0 DEF PassTypes
    <3>3. row' = [row EXCEPT ![r] = y]
      BY <3>1
    <3>a. y.age \in 0 .. Day
      BY <2>0, <3>2 DEF RowTypes
    <3> HIDE DEF y
    <3>4. \A s \in Rows : row'[s].age \in 0 .. Day
      BY <2>3, <3>2, <3>3, <3>a
    <3>5. \A q \in Passes : pass'[q].id = {} \/ \E s \in Rows : pass'[q].id = {s}
      BY <2>2, <2>8 DEF ProbeFails
    <3> QED
      BY <2>8, <3>4, <3>5 DEF ProbeFails, ProberBounds, proberGhosts
  <2>9. ASSUME NEW p \in Passes, Ends(p) PROVE ProberBounds'
    BY <2>0, <2>1, <2>9 DEF Ends, ProberBounds, proberGhosts
  <2>15. ASSUME NEW p \in Passes, Lists(p) PROVE ProberBounds'
    <3>1. PICK listed : pass' = [pass EXCEPT ![p].at = "send", ![p].listed = listed]
      BY <2>15 DEF Lists
    <3> DEFINE x == [pass[p] EXCEPT !.at = "send", !.listed = listed]
    <3>2. pass' = [pass EXCEPT ![p] = x] /\ UNCHANGED <<row, swapped>>
      BY <2>15, <3>1 DEF Lists, proberGhosts
    <3>3. x.id = pass[p].id
      BY <2>0 DEF PassTypes
    <3> HIDE DEF x
    <3> QED
      BY <2>1, <3>2, <3>3 DEF ProberBounds
  <2>16. ASSUME NEW p \in Passes, Sends(p) PROVE ProberBounds'
    <3>1. PICK at : pass' = [pass EXCEPT ![p] = [NotRunning EXCEPT !.at = at]]
      BY <2>16 DEF Sends
    <3>2. [NotRunning EXCEPT !.at = at].id = {}
      BY DEF NotRunning
    <3>3. UNCHANGED <<row, swapped>>
      BY <2>16 DEF Sends
    <3> QED
      BY <2>1, <3>1, <3>2, <3>3 DEF ProberBounds
  <2>10. ASSUME NEW u \in Users, Abandoned(u) PROVE ProberBounds'
    <3> DEFINE x == [pass[u] EXCEPT !.todo = {}]
    <3>1. pass' = [pass EXCEPT ![u] = x] /\ UNCHANGED <<row, swapped>> /\ u \in Passes
      BY <2>10 DEF Abandoned, proberGhosts, Passes
    <3>2. x.id = pass[u].id
      BY <2>0, <3>1 DEF PassTypes
    <3> HIDE DEF x
    <3> QED
      BY <2>1, <3>1, <3>2 DEF ProberBounds
  <2>11. CASE UpsertTaskPR
    <3>1. PICK r \in Rows, u \in Urls :
            /\ row' = [row EXCEPT ![r] = Upserted(r, u)]
            /\ swapped' = swapped \cup {r} \/ swapped' = swapped
            /\ UNCHANGED pass
      BY <2>11 DEF UpsertTaskPR
    <3>2. Upserted(r, u).age \in 0 .. Day
      BY DEF Upserted, Unprobed, ProberBounds
    <3>3. \A s \in Rows : row'[s].age \in 0 .. Day
      BY <2>3, <3>1, <3>2
    <3> QED
      BY <3>1, <3>3 DEF ProberBounds
  <2>12. CASE GitHubMoves
    BY <2>12 DEF GitHubMoves, ProberBounds, proberGhosts
  <2>13. CASE IntervalPasses
    <3>1. \A r \in Rows : row'[r].age = IF row[r].age < Day THEN row[r].age + 1 ELSE row[r].age
      BY <2>0, <2>13 DEF IntervalPasses, RowTypes
    <3> QED
      BY <2>13, <3>1 DEF IntervalPasses, ProberBounds, proberGhosts
  <2>14. CASE UNCHANGED proberVars
    BY <2>14 DEF proberVars, proberGhosts, ProberBounds
  <2> QED
    BY <2>4, <2>5, <2>6, <2>7, <2>8, <2>9, <2>10, <2>11, <2>12, <2>13, <2>14, <2>15, <2>16
       DEF ProberNext, SweepBegins, RefreshTask, Passes
<1>3. ProberInv /\ ProberBounds => ProberTypeOK
  <2> SUFFICES ASSUME ProberInv, ProberBounds PROVE ProberTypeOK
    OBVIOUS
  <2>1. pass \in [Passes -> PassTypes] /\ row \in [Rows -> RowTypes]
    BY DEF ProberInv, ProberTypes
  <2>2. ASSUME NEW p \in Passes PROVE Cardinality(pass[p].id) <= 1
    <3>1. Cardinality({}) = 0 /\ \A r \in Rows : Cardinality({r}) = 1
      BY FS_EmptySet, FS_Singleton
    <3>2. pass[p].id = {} \/ \E r \in Rows : pass[p].id = {r}
      BY DEF ProberBounds
    <3>3. Cardinality(pass[p].id) = 0 \/ Cardinality(pass[p].id) = 1
      BY <3>1, <3>2
    <3> QED
      BY <3>3
  <2> QED
    BY <2>1, <2>2 DEF ProberTypeOK, ProberBounds, RowTypes, RowStates, PassTypes, NeverAsked
<1> QED
  BY <1>1, <1>2, <1>3, ProberInvHolds, PTL
LEMMA CapturesTyped == CapturesInit /\ [][CapturesNext]_captureVars => []CapturesTypeOK
<1> DEFINE Rows1 == [status : {"none", "processing", "ready", "failed"}, path : BOOLEAN]
           Typed == /\ capture \in [Recorded -> Rows1]
                    /\ days \in [Recorded -> 0 .. Oldest]
                    /\ finisher \in [Finishers -> Recorded \cup {NoCapture}]
<1> USE CapturesAssumption
<1>1. CapturesInit => Typed
  <2>1. [status |-> "none", path |-> FALSE] \in Rows1 /\ 0 \in 0 .. Oldest
    OBVIOUS
  <2> HIDE DEF Rows1
  <2> QED
    BY <2>1 DEF CapturesInit
<1>2. Typed /\ [CapturesNext]_captureVars => Typed'
  <2> SUFFICES ASSUME Typed, [CapturesNext]_captureVars PROVE Typed'
    OBVIOUS
  <2>1. /\ \A r \in Rows1, s \in {"none", "processing", "ready", "failed"} :
              [r EXCEPT !.status = s] \in Rows1
        /\ \A r \in Rows1 : [r EXCEPT !.path = FALSE] \in Rows1
        /\ [status |-> "ready", path |-> TRUE] \in Rows1
    OBVIOUS
  <2> HIDE DEF Rows1
  <2>2. CASE CreateCapture
    <3>1. PICK c \in Recorded :
            capture' = [capture EXCEPT ![c] = [capture[c] EXCEPT !.status = "processing"]]
      BY <2>2 DEF CreateCapture
    <3> QED
      BY <2>1, <2>2, <3>1 DEF CreateCapture
  <2>3. ASSUME NEW f \in Finishers, FinishLooks(f) PROVE Typed'
    <3>1. PICK c \in Recorded :
            \/ finisher' = [finisher EXCEPT ![f] = c] /\ UNCHANGED capture
            \/ /\ capture' = [capture EXCEPT ![c] = [capture[c] EXCEPT !.status = "failed"]]
               /\ UNCHANGED finisher
      BY <2>3 DEF FinishLooks
    <3>2. [capture[c] EXCEPT !.status = "failed"] \in Rows1 /\ UNCHANGED days
      BY <2>1, <2>3 DEF FinishLooks
    <3> QED
      BY <3>1, <3>2
  <2>4. ASSUME NEW f \in Finishers, FinishCapture(f) PROVE Typed'
    BY <2>1, <2>4 DEF FinishCapture
  <2>5. CASE SweepClears
    <3>1. \/ capture' = [capture EXCEPT ![prune.hand] = [capture[prune.hand] EXCEPT !.path = FALSE]]
          \/ capture' = capture
      BY <2>5 DEF SweepClears
    <3>2. capture' \in [Recorded -> Rows1]
      <4>1. CASE prune.hand \in Recorded
        BY <2>1, <3>1, <4>1
      <4>2. CASE prune.hand \notin Recorded
        BY <3>1, <4>2
      <4> QED
        BY <4>1, <4>2
    <3> QED
      BY <2>5, <3>2 DEF SweepClears
  <2>6. CASE DayPasses
    <3>1. days' \in [Recorded -> 0 .. Oldest]
      BY <2>6 DEF DayPasses
    <3> QED
      BY <2>6, <3>1 DEF DayPasses
  <2>7. CASE SweepDies
    BY <2>7 DEF SweepDies
  <2>8. CASE \/ SetsWindow \/ SweepLists \/ SweepRemoves \/ SweepEnds \/ VideoWritten
             \/ UNCHANGED captureVars
    BY <2>8 DEF SetsWindow, SweepLists, SweepRemoves, SweepEnds, VideoWritten, captureVars
  <2> QED
    BY <2>2, <2>3, <2>4, <2>5, <2>6, <2>7, <2>8 DEF CapturesNext
<1>3. CapturesInv /\ Typed => CapturesTypeOK
  <2> SUFFICES ASSUME CapturesInv, Typed PROVE CapturesTypeOK
    OBVIOUS
  <2> QED
    BY DEF CapturesInv, CapturesTypeOK
<1> QED
  BY <1>1, <1>2, <1>3, CapturesInvHolds, PTL

\* A child that is alive is waited for, and no more runs are counted than fit.
CaffBounds ==
    /\ cmd \in Children \cup {NoChild} /\ manual \in BOOLEAN
    /\ living \subseteq waiter /\ waiter \subseteq Children
    /\ worker \in [Slots -> [at : {"none", "starting", "in", "in-read", "left", "left-read"},
                             count : 0 .. Cardinality(Slots)]]

LEMMA CaffTyped ==
    ASSUME IsFiniteSet(Slots)
    PROVE  CaffInit /\ [][CaffNext]_caffVars => []CaffTypeOK
<1>0. Cardinality(Slots) \in Nat /\ 0 \in 0 .. Cardinality(Slots)
  BY FS_CardinalityType
<1>1. CaffInit => CaffBounds
  <2>1. Rest \in [at : {"none", "starting", "in", "in-read", "left", "left-read"},
                  count : 0 .. Cardinality(Slots)]
    BY <1>0 DEF Rest
  <2> QED
    BY <2>1 DEF CaffInit, CaffBounds
<1>2. RunningCount \in 0 .. Cardinality(Slots)
  <2>1. {w \in Slots : worker[w].at \in {"starting", "in", "in-read"}} \subseteq Slots
    OBVIOUS
  <2>2. RunningCount \in Nat /\ RunningCount <= Cardinality(Slots)
    BY <2>1, FS_Subset, FS_CardinalityType DEF RunningCount
  <2> QED
    BY <1>0, <2>2
<1>3. CaffBounds /\ [CaffNext]_caffVars => CaffBounds'
  <2> SUFFICES ASSUME CaffBounds, [CaffNext]_caffVars PROVE CaffBounds'
    OBVIOUS
  <2> DEFINE Managed == /\ cmd \in Children \cup {NoChild} /\ manual \in BOOLEAN
                        /\ living \subseteq waiter /\ waiter \subseteq Children
             Counted == worker \in [Slots -> [at : {"none", "starting", "in", "in-read", "left",
                                                    "left-read"},
                                              count : 0 .. Cardinality(Slots)]]
  <2>0. Managed /\ Counted /\ (Managed' /\ Counted' => CaffBounds')
    BY DEF CaffBounds
  <2>1. Kill \/ Spawn(TRUE) \/ Spawn(FALSE) \/ UNCHANGED process => Managed'
    BY <2>0 DEF Kill, Spawn, process
  <2>2. \A n : SetAutomatic(n) => Managed'
    BY <2>1 DEF SetAutomatic
  <2>3. ASSUME NEW w \in Slots, NEW from,
               NEW to \in {"none", "starting", "in", "in-read", "left", "left-read"},
               NEW n \in 0 .. Cardinality(Slots), Moves(w, from, to, n)
        PROVE  Counted'
    BY <2>0, <2>3 DEF Moves
  <2> HIDE DEF Managed, Counted
  <2>4. ASSUME NEW w \in Slots, Launch(w) \/ Leave(w) \/ ReadCount(w) PROVE CaffBounds'
    BY <1>0, <1>2, <2>0, <2>1, <2>3, <2>4 DEF Launch, Leave, ReadCount
  <2>5. ASSUME NEW w \in Slots, PassCount(w) PROVE CaffBounds'
    BY <1>0, <2>0, <2>2, <2>3, <2>5 DEF PassCount
  <2>6. CASE Toggle
    BY <2>0, <2>1, <2>6 DEF Toggle, Counted
  <2>7. CASE Signal \/ Shutdown
    BY <2>0, <2>1, <2>7 DEF Signal, Shutdown, Counted
  <2>8. CASE Reap
    BY <2>0, <2>8 DEF Reap, Managed, Counted
  <2>9. CASE ChildDies
    BY <2>0, <2>9 DEF ChildDies, Managed, Counted
  <2>10. CASE UNCHANGED caffVars
    BY <2>0, <2>10 DEF caffVars, process, Managed, Counted
  <2> QED
    BY <2>4, <2>5, <2>6, <2>7, <2>8, <2>9, <2>10 DEF CaffNext
<1>4. CaffBounds => CaffTypeOK
  BY DEF CaffBounds, CaffTypeOK
<1> QED
  BY <1>1, <1>3, <1>4, PTL

\* One caller at most is in the mutex of a process.
CredBounds ==
    /\ mutex \in [Processes -> SUBSET Callers]
    /\ \A p \in Processes : mutex[p] = {} \/ \E c \in Callers : mutex[p] = {c}
    /\ lost \subseteq Items

LEMMA CredTyped == CredInit /\ [][CredNext]_credVars => []CredTypeOK
<1> USE CredentialsAssumption
<1>1. CredInit => CredBounds
  BY DEF CredInit, CredBounds
<1>2. CredInv /\ CredBounds /\ [CredNext]_credVars => CredBounds'
  <2> SUFFICES ASSUME CredInv, CredBounds, [CredNext]_credVars PROVE CredBounds'
    OBVIOUS
  <2>1. \A c \in Callers : caller[c].of \in Items /\ Home[c] \in Processes
    BY DEF CredInv, CredTypes, CallerStates, Processes
  <2>2. ASSUME NEW c \in Callers,
               \/ \E i \in Items : ReadBundle(c, i)
               \/ EnterRefresh(c) \/ ServerGrants(c) \/ Persist(c) \/ Verify(c)
               \/ RefreshFails(c) \/ Use(c)
        PROVE  CredBounds'
    <3>1. \/ mutex' = mutex \/ mutex' = [mutex EXCEPT ![Home[c]] = {}]
          \/ mutex' = [mutex EXCEPT ![Home[c]] = {c}]
      BY <2>2 DEF ReadBundle, EnterRefresh, ServerGrants, Persist, Verify, RefreshFails, Use
    <3>2. lost' = lost \/ lost' = lost \cup {caller[c].of}
      BY <2>2 DEF ReadBundle, EnterRefresh, ServerGrants, Persist, Verify, RefreshFails, Use,
         ghosts
    <3> QED
      BY <2>1, <3>1, <3>2 DEF CredBounds
  <2>3. ASSUME NEW p \in Processes, ProcessDies(p) PROVE CredBounds'
    <3>1. mutex' = [mutex EXCEPT ![p] = {}] /\ lost' \subseteq Items
      BY <2>1, <2>3 DEF ProcessDies, CredBounds
    <3> QED
      BY <3>1 DEF CredBounds
  <2>4. CASE TokenExpires \/ MemoAges \/ UNCHANGED credVars
    BY <2>4 DEF TokenExpires, MemoAges, credVars, ghosts, CredBounds
  <2> QED
    BY <2>2, <2>3, <2>4 DEF CredNext
<1>3. CredInv /\ CredBounds => CredTypeOK
  <2> SUFFICES ASSUME CredInv, CredBounds PROVE CredTypeOK
    OBVIOUS
  <2>1. /\ item \in [Items -> Entries] /\ caller \in [Callers -> CallerStates]
    BY DEF CredInv, CredTypes
  <2>2. ASSUME NEW p \in Processes PROVE Cardinality(mutex[p]) <= 1
    <3>1. Cardinality({}) = 0 /\ \A c \in Callers : Cardinality({c}) = 1
      BY FS_EmptySet, FS_Singleton
    <3>2. mutex[p] = {} \/ \E c \in Callers : mutex[p] = {c}
      BY DEF CredBounds
    <3>3. Cardinality(mutex[p]) = 0 \/ Cardinality(mutex[p]) = 1
      BY <3>1, <3>2
    <3> QED
      BY <3>3
  <2> QED
    BY <2>1, <2>2 DEF CredTypeOK, CredBounds, Entries, CallerStates
<1> QED
  BY <1>1, <1>2, <1>3, CredInvHolds, PTL

\* Every edit that is in the tree or committed has been made, and what is kept
\* is in the tree.
WtBounds ==
    /\ tree.dirty \subseteq made /\ kept \subseteq tree.dirty
    /\ branch.tip \subseteq made /\ origin.tip \subseteq made
    /\ task \in {"fresh", "resume", "rest"}

LEMMA WtTyped == WtInit /\ [][WtNext]_wtVars => []WtTypeOK
<1> DEFINE Repo == /\ tree.dirty \subseteq made /\ kept \subseteq tree.dirty
                   /\ branch.tip \subseteq made /\ origin.tip \subseteq made
           Task == task \in {"fresh", "resume", "rest"}
<1>1. WtInit => WtBounds
  BY DEF WtInit, WtBounds, NoTree, NoBranch
<1>2. WtInv /\ WtBounds /\ [WtNext]_wtVars => WtBounds'
  <2> SUFFICES ASSUME WtInv, WtBounds, [WtNext]_wtVars PROVE WtBounds'
    OBVIOUS
  <2>0. Repo /\ Task /\ (Repo' /\ Task' => WtBounds')
    BY DEF WtBounds
  <2>a. Content \subseteq made
    BY <2>0 DEF Content
  <2>b. ASSUME NEW tip \in SUBSET made, PushTo(tip), made' = made PROVE origin'.tip \subseteq made'
    BY <2>0, <2>b DEF PushTo, At
  <2>c. CheckpointSaves /\ made' = made => Repo'
    BY <2>0, <2>a, <2>b DEF CheckpointSaves, CleanTree, At
  <2>d. /\ RemoveWorktree /\ made' = made => Repo'
        /\ CheckpointFails /\ made' = made => Repo'
        /\ UNCHANGED repo /\ made' = made => Repo'
    BY <2>0 DEF RemoveWorktree, CheckpointFails, repo, NoTree
  <2>f. ASSUME branch.there, PushTo(branch.tip), UNCHANGED <<tree, branch, kept>>,
               made' = made
        PROVE  Repo'
    BY <2>0, <2>b, <2>f
  <2>g. \A at, next : CleanUp(at, next) /\ made' = made => Repo'
    BY <2>c, <2>d DEF CleanUp, CheckpointOrKeep, ThenRemove
  <2>h. \A at, next : CheckpointOrRemove(at, next) /\ made' = made => Repo'
    BY <2>c, <2>d DEF CheckpointOrRemove
  <2>1. CASE FreshRun \/ ResumedRun \/ AddFails \/ CreatesRun
    <3>1. made' = made /\ UNCHANGED repo /\ Task'
      BY <2>0, <2>1 DEF FreshRun, ResumedRun, Begins, AddFails, CreatesRun, wtGhosts
    <3> QED
      BY <2>0, <2>d, <3>1
  <2>12. CASE ClearsTree \/ ClearsBranch \/ Adds
    <3>1. made' = made /\ Task'
      BY <2>0, <2>12 DEF ClearsTree, ClearsBranch, Adds, actors, wtGhosts
    <3>2. CASE ClearsTree
      BY <2>0, <2>d, <3>1, <3>2 DEF ClearsTree
    <3>3. CASE ClearsBranch
      BY <2>0, <3>1, <3>3 DEF ClearsBranch, NoBranch
    <3>4. CASE Adds
      <4>1. CleanTree.dirty = {} /\ At({}).tip = {} /\ tree.dirty = {}
        BY <3>4 DEF CleanTree, At, Adds, WtInv, RepoOK
      <4>2. /\ tree' = CleanTree /\ branch' \in {At({}), origin}
            /\ UNCHANGED <<origin, kept>>
        BY <3>4 DEF Adds
      <4> QED
        BY <2>0, <3>1, <4>1, <4>2
    <3> QED
      BY <2>12, <3>2, <3>3, <3>4
  <2>2. CASE AgentEdits
    <3>1. PICK e \in Edits \ made :
            /\ tree' = [tree EXCEPT !.dirty = tree.dirty \cup {e}]
            /\ made' = made \cup {e}
      BY <2>2 DEF AgentEdits
    <3>2. tree'.dirty = tree.dirty \cup {e}
      BY <3>1 DEF WtInv, RepoOK, TreeTypes
    <3>3. UNCHANGED <<branch, origin, kept, task>>
      BY <2>2 DEF AgentEdits, actors
    <3> QED
      BY <2>0, <3>1, <3>2, <3>3
  <2>3. CASE AgentPushes
    BY <2>0, <2>3, <2>c DEF AgentPushes, actors, wtGhosts
  <2>4. CASE Succeeds
    <3>1. made' = made /\ task' = "rest"
      BY <2>4 DEF Succeeds
    <3>2. Repo'
      BY <2>4, <2>d, <2>f, <3>1 DEF Succeeds
    <3> QED
      BY <2>0, <3>1, <3>2
  <2>5. CASE Interrupted
    <3>1. made' = made /\ UNCHANGED repo /\ Task'
      BY <2>0, <2>5 DEF Interrupted
    <3> QED
      BY <2>0, <2>d, <3>1
  <2>13. CASE DaemonDies
    <3>1. Task'
      BY <2>0, <2>13 DEF DaemonDies
    <3>2. kept' = tree.dirty /\ UNCHANGED <<tree, branch, origin, made>>
      BY <2>13 DEF DaemonDies
    <3> QED
      BY <2>0, <3>1, <3>2
  <2>6. CASE Requeued \/ FilingDecided \/ Filed
    <3>1. made' = made /\ UNCHANGED repo /\ Task'
      BY <2>0, <2>6 DEF Requeued, FilingDecided, Filed, wtGhosts
    <3> QED
      BY <2>0, <2>d, <3>1
  <2>7. CASE WorkerSettles
    BY <2>0, <2>7, <2>g DEF WorkerSettles, wtGhosts
  <2>8. CASE CleanerCleans
    BY <2>0, <2>8, <2>g DEF CleanerCleans, wtGhosts
  <2>9. CASE RecoverLists
    <3>1. made' = made /\ task' = task
      BY <2>9 DEF RecoverLists, wtGhosts
    <3>2. Repo'
      BY <2>9, <2>d, <2>f, <3>1 DEF RecoverLists
    <3> QED
      BY <2>0, <3>1, <3>2
  <2>10. CASE RecoverCleans
    <3>1. made' = made /\ task' = task
      BY <2>10 DEF RecoverCleans, wtGhosts
    <3>2. Repo'
      BY <2>10, <2>d, <2>h, <3>1 DEF RecoverCleans, ThenRemove
    <3> QED
      BY <2>0, <3>1, <3>2
  <2>11. CASE UNCHANGED wtVars
    BY <2>0, <2>d, <2>11 DEF wtVars, wtGhosts, actors
  <2> QED
    BY <2>1, <2>2, <2>3, <2>4, <2>5, <2>6, <2>7, <2>8, <2>9, <2>10, <2>11, <2>12,
       <2>13 DEF WtNext
<1>3. WtInv /\ WtBounds => WtTypeOK
  BY DEF WtInv, RepoOK, PlacesOK, WtBounds, WtTypeOK, TreeTypes
<1> QED
  BY <1>1, <1>2, <1>3, WtInvHolds, PTL

\* The poll reads what the API may answer, of one of the accounts.
ApiTypes == [account : Accounts, util : Utils, resets : Nat, spent : BOOLEAN]

PollBounds ==
    /\ switching \in BOOLEAN /\ switches \in 0 .. Switches
    /\ snap \in ApiTypes \cup {NoReading} /\ loop.reading \in ApiTypes \cup {NoReading}
    /\ recent \in BOOLEAN /\ idleFresh \in BOOLEAN /\ hold \in BOOLEAN /\ wake \in BOOLEAN
    /\ latch \in [held : BOOLEAN, due : BOOLEAN]
    /\ det \in [util : Nat, reset : Nat]

LEMMA PollTyped == PollInit /\ [][PollNext]_pollVars => []PollTypeOK
<1> DEFINE Flags == /\ switching \in BOOLEAN /\ switches \in 0 .. Switches
                    /\ recent \in BOOLEAN /\ idleFresh \in BOOLEAN
                    /\ hold \in BOOLEAN /\ wake \in BOOLEAN
           Read == snap \in ApiTypes \cup {NoReading} /\ loop.reading \in ApiTypes \cup {NoReading}
           Watched == latch \in [held : BOOLEAN, due : BOOLEAN] /\ det \in [util : Nat, reset : Nat]
<1> USE PollAssumption
<1>0. NoLatch \in [held : BOOLEAN, due : BOOLEAN] /\ Selecting.reading = NoReading
  BY DEF NoLatch, Selecting
<1>1. PollInit => PollBounds
  <2> SUFFICES ASSUME PollInit PROVE PollBounds
    OBVIOUS
  <2>1. switches \in 0 .. Switches /\ det \in [util : Nat, reset : Nat]
    BY DEF PollInit
  <2>2. latch \in [held : BOOLEAN, due : BOOLEAN] /\ snap = NoReading /\ loop.reading = NoReading
    BY <1>0 DEF PollInit
  <2>3. /\ switching \in BOOLEAN /\ recent \in BOOLEAN /\ idleFresh \in BOOLEAN
        /\ hold \in BOOLEAN /\ wake \in BOOLEAN
    BY DEF PollInit
  <2> QED
    BY <2>1, <2>2, <2>3 DEF PollBounds
<1>2. PollInv /\ PollBounds /\ [PollNext]_pollVars => PollBounds'
  <2> SUFFICES ASSUME PollInv, PollBounds, [PollNext]_pollVars PROVE PollBounds'
    OBVIOUS
  <2>0. Flags /\ Read /\ Watched /\ (Flags' /\ Read' /\ Watched' => PollBounds')
    BY DEF PollBounds
  <2>a. /\ \A pc : [Selecting EXCEPT !.pc = pc].reading = NoReading
        /\ \A r : [Selecting EXCEPT !.pc = "observe", !.reading = r].reading = r
        /\ \A a, idle : [Selecting EXCEPT !.pc = "asking", !.asked = a, !.idle = idle].reading
                           = NoReading
        /\ \A a : [loop EXCEPT !.asked = a, !.retried = TRUE].reading = loop.reading
    BY DEF Selecting, PollInv, Loops
  <2>b. \A forced : StartTick(forced) => loop'.reading = NoReading
    BY <2>a DEF StartTick
  <2>1. CASE TickerFires \/ RefreshAsked
    <3>1. snap' = snap /\ loop'.reading \in {NoReading, loop.reading}
      BY <2>1, <2>b DEF TickerFires, RefreshAsked
    <3>2. Flags' /\ Watched'
      BY <2>0, <2>1 DEF TickerFires, RefreshAsked, choice, stamps, backoff, watch
    <3> QED
      BY <2>0, <3>1, <3>2
  <2>2. CASE Fetched
    <3>1. PICK r \in ApiReadings(loop.asked) :
            snap' = r /\ loop' = [Selecting EXCEPT !.pc = "observe", !.reading = r]
      BY <2>2 DEF Fetched
    <3>2. r \in ApiTypes
      <4>1. loop.asked \in Accounts /\ loop.asked \in Nat /\ session[loop.asked] \in Nat
        BY <2>2 DEF Fetched, PollInv
      <4> QED
        BY <4>1 DEF ApiReadings, ResetsAt, ApiTypes
    <3>3. Read'
      BY <2>a, <3>1, <3>2
    <3>4. idleFresh' \in BOOLEAN
      BY <2>2 DEF Fetched, PollInv, Loops
    <3>5. Flags' /\ Watched'
      BY <2>0, <2>2, <3>4 DEF Fetched, choice, watch
    <3> QED
      BY <2>0, <3>3, <3>5
  <2>3. CASE RateLimited \/ FetchFails
    <3>1. snap' = snap /\ loop'.reading \in {NoReading, loop.reading}
      BY <2>3, <2>a DEF RateLimited, FetchFails
    <3>2. Flags' /\ Watched'
      BY <2>0, <2>3 DEF RateLimited, FetchFails, choice, stamps, backoff, watch
    <3> QED
      BY <2>0, <3>1, <3>2
  <2>4. CASE Observe
    <3>1. InHand \in ApiTypes \cup {NoReading}
      BY <2>0 DEF InHand
    <3>2. Watched'
      <4>1. CASE InHand = NoReading
        BY <2>0, <2>4, <4>1 DEF Observe, watch
      <4>2. CASE InHand # NoReading
        <5>1. InHand.util \in Nat /\ InHand.resets \in Nat /\ det.reset \in Nat
          BY <2>0, <3>1, <4>2 DEF ApiTypes
        <5>2. det' = Remember(InHand) /\ latch' \in {NoLatch, latch}
          BY <2>4, <4>2 DEF Observe
        <5> QED
          BY <1>0, <2>0, <5>1, <5>2 DEF Remember
      <4> QED
        BY <4>1, <4>2
    <3>3. Read' /\ Flags'
      BY <2>0, <2>4, <2>a DEF Observe, choice, stamps, backoff
    <3> QED
      BY <2>0, <3>2, <3>3
  <2>5. CASE RecordWeeklyBackoff
    <3>1. latch' \in [held : BOOLEAN, due : BOOLEAN]
      BY <1>0, <2>0, <2>5 DEF RecordWeeklyBackoff
    <3>2. Read' /\ Flags' /\ det' = det
      BY <1>0, <2>0, <2>5 DEF RecordWeeklyBackoff, choice, stamps, backoff
    <3> QED
      BY <2>0, <3>1, <3>2
  <2>6. CASE SetAccount
    <3>1. switches' \in 0 .. Switches
      BY <2>0, <2>6 DEF SetAccount
    <3> QED
      BY <2>0, <2>6, <3>1 DEF SetAccount
  <2>7. CASE SetClientAccount \/ RequestRefresh \/ NewSession
    <3>1. Flags'
      BY <2>0, <2>7 DEF SetClientAccount, RequestRefresh, NewSession, choice, stamps, backoff
    <3>2. Read' /\ Watched'
      BY <2>0, <2>7 DEF SetClientAccount, RequestRefresh, NewSession, watch
    <3> QED
      BY <2>0, <3>1, <3>2
  <2>8. CASE TimePasses
    <3>1. latch' \in [held : BOOLEAN, due : BOOLEAN]
      BY <2>0, <2>8 DEF TimePasses
    <3>2. Flags' /\ Read' /\ det' = det
      BY <2>0, <2>8 DEF TimePasses, choice, stamps
    <3> QED
      BY <2>0, <3>1, <3>2
  <2>9. CASE UNCHANGED pollVars
    BY <2>0, <2>9 DEF pollVars, choice, stamps, backoff, watch
  <2> QED
    BY <2>1, <2>2, <2>3, <2>4, <2>5, <2>6, <2>7, <2>8, <2>9 DEF PollNext
<1>3. PollInv /\ PollBounds => PollTypeOK
  BY DEF PollInv, PollBounds, PollTypeOK, ApiTypes, Loops
<1> QED
  BY <1>1, <1>2, <1>3, PollInvHolds, PTL
\* The directory that is chosen is always one of an account: in the table (if
\* it was ever chosen), in memory, and in what requests have loaded or picked.
DirNamed ==
    /\ table.account["dir"] \in Logins \cup {Unset}
    /\ cfg.account["dir"] \in Logins
    /\ \A h \in Handlers : handler[h].got.account["dir"] \in Logins

LEMMA DirDiscovered == \A a \in Logins : Discovered(a)["dir"] = a
BY DEF Discovered, AccountKeys

LEMMA DirLoaded ==
    ASSUME NEW stored \in [AccountKeys -> Stored], stored["dir"] \in Logins \cup {Unset}
    PROVE  LoadedAccount(stored)["dir"] \in Logins
<1> DEFINE of == [k \in AccountKeys |-> Chosen(stored[k], Discovered(EnvLogin)[k])]
<1>1. "dir" \in AccountKeys /\ EnvLogin \in Logins /\ Boxed \subseteq Logins
  BY SettingsAssumption DEF AccountKeys
<1>2. of["dir"] \in Logins
  BY <1>1, DirDiscovered DEF Chosen
<1>3. LoadedAccount(stored) \in {of, Discovered(of["dir"])}
  BY DEF LoadedAccount
<1> HIDE DEF of
<1> QED
  BY <1>2, <1>3, DirDiscovered

LEMMA SettingsTyped == SettingsInit /\ [][SettingsNext]_settingsVars => []SettingsTypeOK
<1>0. /\ "dir" \in AccountKeys /\ Inherited \in Logins
      /\ Nothing.account["dir"] \in Logins /\ Waiting.got = Nothing
  BY SettingsAssumption, DirDiscovered DEF AccountKeys, Nothing, Waiting
<1>1. SettingsInit => DirNamed
  <2> SUFFICES ASSUME SettingsInit PROVE DirNamed
    OBVIOUS
  <2>1. /\ table.account \in [AccountKeys -> Stored] /\ table.account["dir"] = Unset
        /\ cfg.account = LoadedAccount(table.account)
        /\ \A h \in Handlers : handler[h] = Waiting
    BY <1>0 DEF SettingsInit, Stored
  <2> QED
    BY <1>0, <2>1, DirLoaded DEF DirNamed
<1>2. SettingsInv /\ DirNamed /\ [SettingsNext]_settingsVars => DirNamed'
  <2> SUFFICES ASSUME SettingsInv, DirNamed, [SettingsNext]_settingsVars PROVE DirNamed'
    OBVIOUS
  <2>0. /\ handler \in [Handlers -> Request]
        /\ table \in [keys : [Keys -> Values], account : [AccountKeys -> Stored]]
        /\ cfg \in Config
    BY DEF SettingsInv, SettingsTypes
  <2>a. LoadedAccount(table.account)["dir"] \in Logins
    BY <2>0, DirLoaded DEF DirNamed
  <2>b. ASSUME NEW h \in Handlers, NEW x, handler' = [handler EXCEPT ![h] = x],
               x.got.account["dir"] \in Logins
        PROVE  \A g \in Handlers : handler'[g].got.account["dir"] \in Logins
    BY <2>0, <2>b DEF DirNamed
  <2>1. ASSUME NEW h \in Handlers, NEW kind, NEW todo, Arrives(h, kind, todo)
        PROVE  DirNamed'
    <3>1. ASSUME NEW g \in Handlers PROVE handler'[g].got.account["dir"] \in Logins
      <4>1. handler'[h].got = Nothing
        BY <2>1 DEF Arrives
      <4>2. ASSUME g # h PROVE handler'[g].got = handler[g].got
        <5>1. handler[g] \in Request /\ handler'[g] \in {handler[g], [handler[g] EXCEPT !.alone = FALSE]}
          BY <2>0, <2>1, <4>2 DEF Arrives
        <5> QED
          BY <5>1 DEF Request
      <4> QED
        BY <1>0, <4>1, <4>2 DEF DirNamed
    <3> QED
      BY <2>1, <3>1 DEF Arrives, DirNamed
  <2>2. ASSUME NEW h \in Handlers, SetSetting(h) PROVE DirNamed'
    <3>1. PICK w \in handler[h].todo :
            /\ table' = IF handler[h].kind = "put" THEN [table EXCEPT !.keys[w[1]] = w[2]]
                        ELSE [table EXCEPT !.account[w[1]] = w[2]]
            /\ handler' = [handler EXCEPT ![h] = Wrote(handler[h], w)]
      BY <2>2 DEF SetSetting
    <3>2. cfg' = cfg /\ handler[h].at = "writing" /\ handler[h] \in Request
      BY <2>0, <2>2 DEF SetSetting
    <3> DEFINE x == Wrote(handler[h], w)
    <3>3. CASE handler[h].kind = "put"
      <4>1. table'.account = table.account
        BY <2>0, <3>1, <3>3
      <4>2. x.got = handler[h].got
        BY <3>2, <3>3 DEF Wrote, Request
      <4> HIDE DEF x
      <4> QED
        BY <2>b, <3>1, <3>2, <4>1, <4>2 DEF DirNamed, x
    <3>4. CASE handler[h].kind # "put"
      <4>1. handler[h].kind = "select"
        BY <3>2, <3>4 DEF SettingsInv, Company, Request
      <4>2. PICK a \in Logins, k \in AccountKeys : w = <<k, Discovered(a)[k]>>
        BY <3>1, <4>1 DEF SettingsInv, SelectAt, SelectsAt
      <4>3. k = "dir" => Discovered(a)[k] \in Logins
        BY DirDiscovered
      <4>4. table'.account["dir"] \in Logins \cup {Unset}
        <5>1. table' = [table EXCEPT !.account[k] = Discovered(a)[k]]
          BY <3>1, <3>4, <4>2
        <5>2. table'.account = [table.account EXCEPT ![k] = Discovered(a)[k]]
          BY <2>0, <5>1
        <5> QED
          BY <1>0, <2>0, <4>3, <5>2 DEF DirNamed
      <4>5. x.got = [handler[h].got EXCEPT !.account[k] = Discovered(a)[k]]
        BY <3>2, <3>4, <4>2 DEF Wrote, Request
      <4>6. x.got.account = [handler[h].got.account EXCEPT ![k] = Discovered(a)[k]]
            /\ handler[h].got.account \in [AccountKeys -> Named]
        BY <3>2, <4>5 DEF Request, Config
      <4>7. x.got.account["dir"] \in Logins
        BY <1>0, <4>3, <4>6 DEF DirNamed
      <4> QED
        BY <2>b, <3>1, <3>2, <4>4, <4>7 DEF DirNamed
    <3> QED
      BY <3>3, <3>4
  <2>3. ASSUME NEW h \in Handlers, LoadsKey(h) PROVE DirNamed'
    <3>1. PICK k \in handler[h].unread : handler' = [handler EXCEPT ![h] = Loaded(handler[h], k)]
      BY <2>3 DEF LoadsKey
    <3>2. UNCHANGED <<table, cfg>> /\ handler[h] \in Request
      BY <2>0, <2>3 DEF LoadsKey
    <3> DEFINE x == Loaded(handler[h], k)
    <3>3. x.got.account = LoadedAccount(table.account)
      BY <3>2 DEF Loaded, Request
    <3>4. x.got.account["dir"] \in Logins /\ handler' = [handler EXCEPT ![h] = x]
      BY <2>a, <3>1, <3>3
    <3> HIDE DEF x
    <3> QED
      BY <2>b, <3>2, <3>4 DEF DirNamed
  <2>4. ASSUME NEW h \in Handlers, SetSettingFails(h) PROVE DirNamed'
    BY <1>0, <2>b, <2>4 DEF SetSettingFails, DirNamed
  <2>5. ASSUME NEW h \in Handlers, SetConfig(h) \/ SetAccountTo(h) PROVE DirNamed'
    <3>1. /\ handler' = [handler EXCEPT ![h] = Waiting] /\ table' = table
          /\ cfg' \in {[cfg EXCEPT !.keys = handler[h].got.keys],
                       [cfg EXCEPT !.account = handler[h].got.account]}
      BY <2>5 DEF SetConfig, SetAccountTo
    <3>2. cfg'.account \in {cfg.account, handler[h].got.account}
      BY <2>0, <3>1 DEF Config
    <3> QED
      BY <1>0, <2>b, <3>1, <3>2 DEF DirNamed
  <2>6. CASE Reload
    <3>1. cfg'.account = LoadedAccount(table.account) /\ table' = table
          /\ \A h \in Handlers : handler'[h] = Waiting
      BY <2>6 DEF Reload
    <3> QED
      BY <1>0, <2>a, <3>1 DEF DirNamed
  <2>7. CASE UNCHANGED settingsVars
    BY <2>7 DEF settingsVars, DirNamed
  <2> QED
    BY <2>1, <2>2, <2>3, <2>4, <2>5, <2>6, <2>7 DEF SettingsNext, PutConfig, SelectAccount
<1>3. SettingsInv /\ DirNamed => SettingsTypeOK
  BY DEF SettingsInv, SettingsTypes, DirNamed, SettingsTypeOK, Config, Request
<1> QED
  BY <1>1, <1>2, <1>3, SettingsInvHolds, PTL

\* For any number of rows, callers, runs, recordings and requests: what every
\* part keeps stays within its type, among them that no process holds the
\* refresh mutex twice, that no broadcast counts more runs than there are, that
\* every uncommitted edit is in a tree that is there, and that the directory
\* runs are launched with is one of an account.
THEOREM PartsTypesHold ==
    ASSUME IsFiniteSet(Slots)
    PROVE  PartsSpec => []PartsTypeOK
<1>1. PartsInit => part \in Subjects
  BY DEF PartsInit
<1>2. part \in Subjects /\ [PartsNext]_partVars => (part \in Subjects)'
  BY DEF PartsNext, Turn, partVars
<1>3. PartsSpec => [](part \in Subjects)
  BY <1>1, <1>2, PTL DEF PartsSpec
<1>4. LockInv => LockTypeOK
  BY DEF LockInv
<1>5. VoiceInv => VoiceTypeOK
  BY DEF VoiceInv
<1>6. WhisperInv => WhisperTypeOK
  BY DEF WhisperInv
<1>7. WorkdirInv => WorkdirTypeOK
  BY DEF WorkdirInv
<1>8. PartsSpec => []LockTypeOK /\ []VoiceTypeOK /\ []WhisperTypeOK /\ []WorkdirTypeOK
  BY <1>4, <1>5, <1>6, <1>7, LockTurns, LockInvHolds, VoiceTurns, VoiceInvHolds, WhisperTurns,
     WhisperInvHolds, WorkdirTurns, WorkdirInvHolds, PTL
<1>9. PartsSpec => []PollTypeOK /\ []CredTypeOK /\ []CaffTypeOK /\ []ProberTypeOK
  BY PollTurns, PollTyped, CredentialsTurns, CredTyped, CaffeinateTurns, CaffTyped,
     ProberTurns, ProberTyped, PTL
<1>10. PartsSpec => []WtTypeOK /\ []SettingsTypeOK /\ []CapturesTypeOK
  BY WorktreeTurns, WtTyped, SettingsTurns, SettingsTyped, CapturesTurns, CapturesTyped, PTL
<1>11. /\ part \in Subjects
       /\ PollTypeOK /\ CredTypeOK /\ LockTypeOK /\ CaffTypeOK /\ ProberTypeOK /\ WtTypeOK
       /\ VoiceTypeOK /\ WhisperTypeOK /\ SettingsTypeOK /\ WorkdirTypeOK /\ CapturesTypeOK
       => PartsTypeOK
  BY DEF PartsTypeOK
<1> QED
  BY <1>3, <1>8, <1>9, <1>10, <1>11, PTL
=============================================================================
