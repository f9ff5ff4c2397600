-------------------------------- MODULE Voice --------------------------------
(***************************************************************************)
(* internal/ble: the voice button of the display.  A START notification    *)
(* starts a recorder process and a watchdog; STOP, the watchdog and the    *)
(* end of the daemon each run in goroutines of their own and take the      *)
(* recording from the same mutex-guarded fields.  What was taken is        *)
(* transcribed and posted as a task.                                       *)
(***************************************************************************)
EXTENDS Integers

CONSTANTS Recordings,  \* bound: recordings, one for each START that is heard
          NoRecording,
          Limit,       \* maxRecordSec, in ticks
          Stops        \* bound: STOP goroutines under way at once

ASSUME VoiceAssumption ==
    NoRecording \notin Recordings /\ Limit \in Nat \ {0} /\ Stops \in Nat \ {0}

VARIABLES
    rec,       \* b.recCmd and b.recFile
    recorder,  \* external: [Recordings -> "none", "alive", "ended"]
    age,       \* [Recordings -> ticks since its start]
    watchdog,  \* recordings whose watchdog goroutine still waits
    stops,     \* goroutines of stopAndCreateTask that have taken nothing yet
    taker,     \* [Recordings -> what the goroutine that took it is doing]
    link,      \* connected to the display
    bridge,    \* the daemon: "up", "ending" (its context is gone), "down"
    posted     \* ghost: [Recordings -> tasks made of it]

recording == <<rec, recorder, age, watchdog, stops, taker, posted>>
voiceVars == <<recording, link, bridge>>

VoiceInit ==
    /\ rec = NoRecording
    /\ recorder = [r \in Recordings |-> "none"]
    /\ age = [r \in Recordings |-> 0]
    /\ watchdog = {} /\ stops = 0
    /\ taker = [r \in Recordings |-> "none"]
    /\ link = FALSE /\ bridge = "up"
    /\ posted = [r \in Recordings |-> 0]

-----------------------------------------------------------------------------
(* The button.                                                             *)

\* runLoop and run: the display is found, or a push to it fails.
Link ==
    /\ bridge = "up"
    /\ link' = ~link
    /\ UNCHANGED <<recording, bridge>>

\* Mistake: the recorder is started without its watchdog.
StartRecordingUnwatched ==
    /\ link /\ bridge # "down" /\ rec = NoRecording
    /\ \E r \in Recordings :
        /\ recorder[r] = "none"
        /\ rec' = r
        /\ recorder' = [recorder EXCEPT ![r] = "alive"]
    /\ UNCHANGED <<age, watchdog, stops, taker, posted, link, bridge>>

\* Mistake: a recording in progress does not keep a second one from starting.
StartRecordingAnyway ==
    /\ link /\ bridge # "down"
    /\ \E r \in Recordings :
        /\ recorder[r] = "none"
        /\ rec' = r
        /\ recorder' = [recorder EXCEPT ![r] = "alive"]
        /\ watchdog' = watchdog \cup {r}
    /\ UNCHANGED <<age, stops, taker, posted, link, bridge>>

StartRecording ==
    /\ link /\ bridge # "down" /\ rec = NoRecording
    /\ \E r \in Recordings :
        /\ recorder[r] = "none"
        /\ rec' = r
        /\ recorder' = [recorder EXCEPT ![r] = "alive"]
        /\ watchdog' = watchdog \cup {r}
    /\ UNCHANGED <<age, stops, taker, posted, link, bridge>>

\* A STOP while the link is down is lost.
StopPressed ==
    /\ link /\ bridge # "down" /\ stops < Stops
    /\ stops' = stops + 1
    /\ UNCHANGED <<rec, recorder, age, watchdog, taker, posted, link, bridge>>

-----------------------------------------------------------------------------
(* The goroutines.                                                         *)

\* Mistake: the fields are cleared by whoever has waited for the recorder.
TakeLate(step) ==
    /\ rec' = rec
    /\ taker' = IF rec = NoRecording THEN taker ELSE [taker EXCEPT ![rec] = step]

\* Under recMu: the fields are read and cleared.
Take(step) ==
    /\ rec' = NoRecording
    /\ taker' = IF rec = NoRecording THEN taker ELSE [taker EXCEPT ![rec] = step]

StopRuns ==
    /\ stops > 0
    /\ stops' = stops - 1
    /\ Take("stopping")
    /\ UNCHANGED <<recorder, age, watchdog, posted, link, bridge>>

\* The watchdog of r takes the recording it finds.
WatchdogFires ==
    /\ \E r \in watchdog : age[r] = Limit /\ watchdog' = watchdog \ {r}
    /\ Take("stopping")
    /\ UNCHANGED <<recorder, age, stops, posted, link, bridge>>

WatchdogAborts ==
    /\ bridge = "ending"
    /\ \E r \in watchdog : watchdog' = watchdog \ {r}
    /\ Take("aborting")
    /\ UNCHANGED <<recorder, age, stops, posted, link, bridge>>

\* SIGINT, Wait, and for a STOP the transcription.
RecorderStopped ==
    /\ \E r \in Recordings :
        /\ taker[r] \in {"stopping", "aborting"}
        /\ recorder' = [recorder EXCEPT ![r] = "ended"]
        /\ taker' = [taker EXCEPT ![r] = IF @ = "stopping" THEN "transcribing" ELSE "none"]
    /\ UNCHANGED <<rec, age, watchdog, stops, posted, link, bridge>>

\* No model, no speech, no answer in time; else the text is posted.
Transcribes ==
    /\ \E r \in Recordings :
        /\ taker[r] = "transcribing"
        /\ \E next \in {"posting", "none"} : taker' = [taker EXCEPT ![r] = next]
    /\ UNCHANGED <<rec, recorder, age, watchdog, stops, posted, link, bridge>>

CreatesVoiceTask ==
    /\ \E r \in Recordings :
        /\ taker[r] = "posting"
        /\ taker' = [taker EXCEPT ![r] = "none"]
        /\ posted' = [posted EXCEPT ![r] = @ + 1]
    /\ UNCHANGED <<rec, recorder, age, watchdog, stops, link, bridge>>

-----------------------------------------------------------------------------
(* Time, and the daemon.                                                   *)

ClockTicks ==
    /\ \E r \in watchdog : age[r] < Limit
    /\ age' = [r \in Recordings |-> IF r \in watchdog /\ age[r] < Limit
                                    THEN age[r] + 1 ELSE age[r]]
    /\ UNCHANGED <<rec, recorder, watchdog, stops, taker, posted, link, bridge>>

BridgeEnds ==
    /\ bridge = "up"
    /\ bridge' = "ending"
    /\ UNCHANGED <<recording, link>>

\* Exit does not wait for these goroutines, nor does a crash.
BridgeDown ==
    /\ bridge # "down"
    /\ bridge' = "down"
    /\ rec' = NoRecording /\ watchdog' = {} /\ stops' = 0
    /\ taker' = [r \in Recordings |-> "none"]
    /\ link' = FALSE
    /\ UNCHANGED <<recorder, age, posted>>

\* Mistake: the next daemon leaves the recorders it finds alone.
BridgeStartsOver ==
    /\ bridge = "down"
    /\ bridge' = "up"
    /\ UNCHANGED <<recording, link>>

\* killStaleRecordings, before anything else.
BridgeStarts ==
    /\ bridge = "down"
    /\ bridge' = "up"
    /\ recorder' = [r \in Recordings |-> IF recorder[r] = "alive" THEN "ended" ELSE recorder[r]]
    /\ UNCHANGED <<rec, age, watchdog, stops, taker, posted, link>>

VoiceNext ==
    \/ Link \/ StartRecording \/ StopPressed
    \/ StopRuns \/ WatchdogFires \/ WatchdogAborts
    \/ RecorderStopped \/ Transcribes \/ CreatesVoiceTask
    \/ ClockTicks \/ BridgeEnds \/ BridgeDown \/ BridgeStarts

VoiceTypeOK ==
    /\ rec \in Recordings \cup {NoRecording}
    /\ recorder \in [Recordings -> {"none", "alive", "ended"}]
    /\ age \in [Recordings -> 0 .. Limit]
    /\ watchdog \subseteq Recordings /\ stops \in 0 .. Stops
    /\ taker \in [Recordings -> {"none", "stopping", "aborting", "transcribing", "posting"}]
    /\ link \in BOOLEAN /\ bridge \in {"up", "ending", "down"}
    /\ posted \in [Recordings -> Nat]

-----------------------------------------------------------------------------
(* What the button promises.                                               *)

\* STOP, the watchdog and the end of the daemon may all want one recording:
\* one of them gets it, and it becomes one task at most.
OneTaskPerRecording == \A r \in Recordings : posted[r] <= 1

\* The microphone is never held by a process nobody will end: a recorder that
\* is alive is the one in the bridge's hands or in those of a goroutine about
\* to stop it, and what a crash left behind is ended by the next daemon.
NoStrayRecorder ==
    bridge # "down" =>
        \A r \in Recordings : recorder[r] = "alive" =>
            rec = r \/ taker[r] \in {"stopping", "aborting"}

\* A STOP that is lost with the link does not leave the microphone open.
RecordingEnds == \A r \in Recordings : rec = r ~> rec # r
=============================================================================
