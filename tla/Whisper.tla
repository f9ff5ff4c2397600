------------------------------- MODULE Whisper -------------------------------
(***************************************************************************)
(* internal/whisper: whether the speech model is there, and fetching it.   *)
(* Init runs in a goroutine at startup while handlers may already ask for  *)
(* an install; Close waits for the install it finds.  The mutex is not     *)
(* held over the look at the disk, nor over the download.                  *)
(***************************************************************************)
EXTENDS Integers, FiniteSets

CONSTANTS Installers,  \* goroutines of POST /api/voice/install
          NoInstall

ASSUME WhisperAssumption == NoInstall \notin Installers

VARIABLES
    state,      \* s.state
    install,    \* s.installDone and s.installCancel: who made them
    cancelled,  \* installers whose context is cancelled
    installer,  \* [Installers -> where it is, and whom it waits for]
    checking,   \* Init: "begin", "looking", "over"
    closing,    \* Close: "open", "waiting", "closed", and for whom
    onDisk,     \* external: the weights are in the cache
    passed      \* ghost: Init wrote over an install in progress

whisperVars == <<state, install, cancelled, installer, checking, closing, onDisk, passed>>

WhisperStates == {"unknown", "checking", "ready", "unavailable", "installing", "error"}

InstallerAt(at, for) == [at |-> at, for |-> for]

WhisperInit ==
    /\ state = "unknown" /\ install = NoInstall /\ cancelled = {}
    /\ installer = [i \in Installers |-> InstallerAt("idle", NoInstall)]
    /\ checking = "begin" /\ closing = [at |-> "open", for |-> NoInstall]
    /\ onDisk \in BOOLEAN
    /\ passed = FALSE

Downloading == {i \in Installers : installer[i].at = "downloading"}

-----------------------------------------------------------------------------
(* Init.                                                                   *)

SetsState(s) ==
    /\ state' = s
    /\ passed' = (passed \/ state = "installing")
    /\ UNCHANGED <<install, cancelled, installer, closing, onDisk>>

InitBegins ==
    /\ checking = "begin" /\ checking' = "looking"
    /\ SetsState("checking")

\* Without uv, or without the weights: unavailable.
InitEnds ==
    /\ checking = "looking" /\ checking' = "over"
    /\ \/ onDisk /\ SetsState("ready")
       \/ SetsState("unavailable")

-----------------------------------------------------------------------------
(* Install.                                                                *)

\* Mistake: an install in progress is not looked for.
InstallBeginsAnew(i) ==
    /\ closing.at # "closed" /\ installer[i].at = "idle" /\ state # "ready"
    /\ installer' = [installer EXCEPT ![i] = InstallerAt("downloading", NoInstall)]
    /\ state' = "installing" /\ install' = i
    /\ cancelled' = cancelled \ {i}
    /\ UNCHANGED <<checking, closing, onDisk, passed>>

\* The next to ask waits for the one in progress.
InstallBegins(i) ==
    /\ closing.at # "closed" /\ installer[i].at = "idle" /\ state # "ready"
    /\ IF state = "installing"
       THEN /\ installer' = [installer EXCEPT ![i] =
                    IF install = NoInstall THEN @ ELSE InstallerAt("waiting", install)]
            /\ UNCHANGED <<state, install, cancelled>>
       ELSE /\ installer' = [installer EXCEPT ![i] = InstallerAt("downloading", NoInstall)]
            /\ state' = "installing" /\ install' = i
            /\ cancelled' = cancelled \ {i}
    /\ UNCHANGED <<checking, closing, onDisk, passed>>

\* External: the download comes to an end, or is killed with its context.
DownloadEnds(i) ==
    /\ installer[i].at = "downloading"
    /\ \/ i \notin cancelled /\ onDisk' = TRUE
                /\ installer' = [installer EXCEPT ![i] = InstallerAt("fetched", NoInstall)]
       \/ UNCHANGED onDisk
                /\ installer' = [installer EXCEPT ![i] = InstallerAt("failed", NoInstall)]
    /\ UNCHANGED <<state, install, cancelled, checking, closing, passed>>

\* Under the mutex; then the channel is closed, which waiters see.
InstallEnds(i) ==
    /\ installer[i].at \in {"fetched", "failed"}
    /\ state' = IF installer[i].at = "fetched" THEN "ready" ELSE "error"
    /\ install' = NoInstall
    /\ installer' = [installer EXCEPT ![i] = InstallerAt("closing", NoInstall)]
    /\ UNCHANGED <<cancelled, checking, closing, onDisk, passed>>

\* Mistake: the channel is left open after a failure.
ChannelClosedOnSuccess(i) ==
    /\ installer[i].at = "closing" /\ state = "ready"
    /\ installer' = [j \in Installers |->
           IF j = i \/ installer[j] = InstallerAt("waiting", i)
           THEN InstallerAt("idle", NoInstall) ELSE installer[j]]
    /\ closing' = IF closing = [at |-> "waiting", for |-> i]
                  THEN [at |-> "closed", for |-> NoInstall] ELSE closing
    /\ UNCHANGED <<state, install, cancelled, checking, onDisk, passed>>

ChannelClosed(i) ==
    /\ installer[i].at = "closing"
    /\ installer' = [j \in Installers |->
           IF j = i \/ installer[j] = InstallerAt("waiting", i)
           THEN InstallerAt("idle", NoInstall) ELSE installer[j]]
    /\ closing' = IF closing = [at |-> "waiting", for |-> i]
                  THEN [at |-> "closed", for |-> NoInstall] ELSE closing
    /\ UNCHANGED <<state, install, cancelled, checking, onDisk, passed>>

-----------------------------------------------------------------------------
(* Close, on the way out of runServe.                                      *)

Close ==
    /\ closing.at = "open"
    /\ closing' = IF install = NoInstall THEN [at |-> "closed", for |-> NoInstall]
                  ELSE [at |-> "waiting", for |-> install]
    /\ cancelled' = cancelled \cup ({install} \ {NoInstall})
    /\ UNCHANGED <<state, install, installer, checking, onDisk, passed>>

WhisperNext ==
    \/ InitBegins \/ InitEnds
    \/ \E i \in Installers :
        InstallBegins(i) \/ DownloadEnds(i) \/ InstallEnds(i) \/ ChannelClosed(i)
    \/ Close

WhisperTypeOK ==
    /\ state \in WhisperStates /\ install \in Installers \cup {NoInstall}
    /\ cancelled \subseteq Installers
    /\ installer \in [Installers -> [at : {"idle", "waiting", "downloading", "fetched",
                                           "failed", "closing"},
                                     for : Installers \cup {NoInstall}]]
    /\ checking \in {"begin", "looking", "over"}
    /\ closing \in [at : {"open", "waiting", "closed"}, for : Installers \cup {NoInstall}]

-----------------------------------------------------------------------------
(* One download.                                                           *)

\* whisper.go:121-122, "It is safe to call concurrently; only one download runs
\* at a time".
OneDownload == Cardinality(Downloading) <= 1

\* The same, unless Init wrote over the state of an install in progress; and
\* an install anybody waits for is one that is under way.
OneDownloadUnlessPassed ==
    ~passed =>
        /\ OneDownload
        /\ \A i \in Downloading : install = i
        /\ \A i \in Installers : installer[i].at = "waiting" =>
              installer[installer[i].for].at \in {"downloading", "fetched", "failed", "closing"}

\* Whoever waits for an install gets an answer, and so does Close, also when
\* Init has set the state back in the middle and a second download began.
WaitersReturn ==
    /\ \A i \in Installers : installer[i].at = "waiting" ~> installer[i].at = "idle"
    /\ closing.at = "waiting" ~> closing.at = "closed"
=============================================================================
