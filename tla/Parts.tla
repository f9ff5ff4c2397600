-------------------------------- MODULE Parts --------------------------------
(***************************************************************************)
(* The machines beside the daemon's core, and the queue policy, checked    *)
(* together.  They share no state, so one behaviour is a behaviour of one  *)
(* of them: "part" says which, and the others rest.                        *)
(***************************************************************************)
EXTENDS UsagePoll, Credentials, DaemonLock, Caffeinate, Prober, Worktree,
        Voice, Whisper, Settings, Workdir, Captures, PolicyCheck

CONSTANT Subjects   \* the parts that are looked at

VARIABLE part

AllParts == {"policy", "poll", "credentials", "lock", "caffeinate", "prober",
             "worktree", "voice", "whisper", "settings", "workdir", "captures"}

ASSUME PartsAssumption == Subjects \subseteq AllParts

partVars == <<part, checkVars, pollVars, credVars, lockVars, caffVars, proberVars,
              wtVars, voiceVars, whisperVars, settingsVars, dirVars, captureVars>>

\* A part that rests needs one initial state only.
Single(p) ==
    /\ p # "policy" => running = {} /\ force = {} /\ usage = CHOOSE u \in Usages : TRUE
    /\ p # "poll" => account = CHOOSE a \in Accounts : TRUE
    /\ p # "credentials" => \A i \in Items : item[i] = NoEntry
    /\ p # "whisper" => ~onDisk
    /\ p # "captures" => window = CHOOSE w \in Windows : TRUE

PartsInit ==
    /\ part \in Subjects
    /\ CheckInit /\ PollInit /\ CredInit /\ LockInit /\ CaffInit /\ ProberInit
    /\ WtInit /\ VoiceInit /\ WhisperInit /\ SettingsInit /\ WorkdirInit /\ CapturesInit
    /\ Single(part)

\* Only part p moves.
Turn(p) ==
    /\ part = p /\ UNCHANGED part
    /\ IF p = "policy" THEN CheckNext ELSE UNCHANGED checkVars
    /\ IF p = "poll" THEN PollNext ELSE UNCHANGED pollVars
    /\ IF p = "credentials" THEN CredNext ELSE UNCHANGED credVars
    /\ IF p = "lock" THEN LockNext ELSE UNCHANGED lockVars
    /\ IF p = "caffeinate" THEN CaffNext ELSE UNCHANGED caffVars
    /\ IF p = "prober" THEN ProberNext ELSE UNCHANGED proberVars
    /\ IF p = "worktree" THEN WtNext ELSE UNCHANGED wtVars
    /\ IF p = "voice" THEN VoiceNext ELSE UNCHANGED voiceVars
    /\ IF p = "whisper" THEN WhisperNext ELSE UNCHANGED whisperVars
    /\ IF p = "settings" THEN SettingsNext ELSE UNCHANGED settingsVars
    /\ IF p = "workdir" THEN WorkdirNext ELSE UNCHANGED dirVars
    /\ IF p = "captures" THEN CapturesNext ELSE UNCHANGED captureVars

PartsNext == \E p \in AllParts : Turn(p)

PartsSpec == PartsInit /\ [][PartsNext]_partVars

\* The values every part's variables stay within.
PartsTypeOK ==
    /\ part \in Subjects
    /\ PollTypeOK /\ CredTypeOK /\ LockTypeOK /\ CaffTypeOK /\ ProberTypeOK /\ WtTypeOK
    /\ VoiceTypeOK /\ WhisperTypeOK /\ SettingsTypeOK /\ WorkdirTypeOK /\ CapturesTypeOK

-----------------------------------------------------------------------------
(* Fairness.  A part never turns into another, so that fairness of what    *)
(* one of several parts does is fairness in each of them.                  *)

\* Timers fire and goroutines run on: the tick of the poll, the minute and the
\* backoff it waits for; sweeps and their intervals; the clock of a recording.
GoesOn ==
    /\ WF_pollVars(part = "poll" /\ TickerFires /\ ~idleFresh)
    /\ WF_pollVars(part = "poll" /\ (RateLimited \/ FetchFails \/ Fetched))
    /\ WF_pollVars(part = "poll" /\ (Observe \/ RecordWeeklyBackoff))
    /\ WF_pollVars(part = "poll" /\ idleFresh /\ TimePasses /\ ~idleFresh')
    /\ WF_pollVars(part = "poll" /\ hold /\ TimePasses /\ ~hold')
    /\ WF_pollVars(part = "poll" /\ SetClientAccount)
    /\ WF_proberVars(part = "prober" /\ SweepBegins)
    /\ WF_proberVars(part = "prober" /\ IntervalPasses)
    /\ \A p \in Passes :
        /\ WF_proberVars(part = "prober" /\ (Asks(p) \/ Writes(p) \/ Lists(p) \/ Sends(p) \/ Ends(p)))
        /\ WF_proberVars(part = "prober" /\ (Answers(p) \/ ProbeFails(p)))
    /\ WF_voiceVars(part = "voice" /\ ClockTicks)
    /\ WF_voiceVars(part = "voice" /\ (WatchdogFires \/ WatchdogAborts))
    /\ \A i \in Installers :
        WF_whisperVars(part = "whisper" /\ (DownloadEnds(i) \/ InstallEnds(i) \/ ChannelClosed(i)))
    /\ WF_captureVars(part = "captures" /\ (SweepLists \/ SweepRemoves \/ SweepEnds))
    /\ WF_captureVars(part = "captures" /\ SweepClears)

\* What is tried again and again goes through some time: the usage API and
\* GitHub answer, a file can be removed, a row be written.
GoesThrough ==
    /\ SF_pollVars(part = "poll" /\ Fetched)
    /\ SF_proberVars(part = "prober" /\ Answers(Sweep))
    /\ \A c \in Recorded :
        /\ SF_captureVars(part = "captures" /\ SweepRemoves /\ prune'.hand = c)
        /\ SF_captureVars(part = "captures" /\ SweepClears /\ prune.hand = c /\ ~capture'[c].path)

FairPartsSpec == PartsSpec /\ GoesOn /\ GoesThrough
=============================================================================
