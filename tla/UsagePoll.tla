------------------------------ MODULE UsagePoll ------------------------------
(***************************************************************************)
(* The first half of the scheduler's tick: asking the usage API, with the  *)
(* 429 backoff, the idle throttle and the debounced refresh, the weekly    *)
(* latch and the reset detector, while the user switches accounts.  The    *)
(* loop holds no lock while a request is in flight.  A timer is a flag     *)
(* that is up until its time has passed; flags go down in any order.       *)
(***************************************************************************)
EXTENDS Integers

CONSTANTS Accounts,      \* natural numbers, see ResetsAt
          Sessions,      \* bound: sessions an account goes through
          Switches,      \* bound: how often the user changes the account
          InitialDelay, MaxDelay,   \* rateLimitInitialDelay, rateLimitMaxDelay
          RetryAfters,   \* what a 429 may ask for; 0: no such header
          Utils          \* session utilizations the API may report

ASSUME PollAssumption ==
    /\ Accounts \subseteq {0, 1} /\ Accounts # {}
    /\ Sessions \in Nat /\ Switches \in Nat
    /\ InitialDelay \in Nat \ {0} /\ MaxDelay \in Nat
    /\ InitialDelay <= MaxDelay
    /\ RetryAfters \subseteq Nat /\ Utils \subseteq Nat

VARIABLES
    account,    \* s.cfg.ClaudeConfigDir: what runs are launched with
    client,     \* the usage client's own copy
    switching,  \* a SetAccount between its two locks
    snap,       \* s.lastSnap
    recent,     \* s.lastFetchAt less than three seconds ago
    idleFresh,  \* s.lastIdleFetchAt less than a minute ago
    delay,      \* s.rateLimitDelay
    hold,       \* now is before s.rateLimitBackoffUntil
    latch,      \* s.backoff: whether it is set, and whether it is over
    det,        \* the reset detector: last utilization, last reset time
    wake,       \* s.refreshNow, a channel of one
    loop,       \* the tick in progress
    session,    \* external: the session each account is in
    switches,
    newest      \* ghost: the latest reset time read since the last switch

choice == <<account, client, switching, switches>>
stamps == <<recent, idleFresh>>
backoff == <<delay, hold>>
watch == <<latch, det, newest>>
pollVars == <<choice, snap, stamps, backoff, watch, wake, loop, session>>

\* A reading: its account, session utilization, session reset time (0: the
\* answer lacks it, and the weekly one too), and whether the week is spent.
NoReading == [account |-> 0, util |-> -1, resets |-> 0, spent |-> FALSE]
NoLatch == [held |-> FALSE, due |-> FALSE]
Selecting == [pc |-> "select", asked |-> 0, retried |-> FALSE, idle |-> FALSE,
              reading |-> NoReading]

\* External: the two accounts' sessions end at different times.
ResetsAt(a) == 2 * session[a] + a

\* External: what the API may answer for account a.
ApiReadings(a) ==
    [account : {a}, util : Utils, resets : {0, ResetsAt(a)}, spent : BOOLEAN]

PollInit ==
    /\ account \in Accounts
    /\ client = account
    /\ switching = FALSE
    /\ snap = NoReading
    /\ recent = FALSE /\ idleFresh = FALSE
    /\ delay = 0 /\ hold = FALSE
    /\ latch = NoLatch
    /\ det = [util |-> 0, reset |-> 0]
    /\ wake = FALSE
    /\ loop = Selecting
    /\ session = [a \in Accounts |-> 1]
    /\ switches = 0
    /\ newest = 0

LoopAt(pc) == loop.pc = pc

-----------------------------------------------------------------------------
(* The arithmetic of the backoff.                                          *)

AtMost(x, top) == IF x > top THEN top ELSE x

\* Mistake: the server's wish is not capped a second time.
BaseDelayAsAsked(current, retryAfter) ==
    LET doubled == AtMost(IF current = 0 THEN InitialDelay ELSE current * 2, MaxDelay)
    IN  IF retryAfter > doubled THEN retryAfter ELSE doubled

\* What nextRateLimitDelay decides on, before the jitter.
BaseDelay(current, retryAfter) ==
    LET doubled == AtMost(IF current = 0 THEN InitialDelay ELSE current * 2, MaxDelay)
    IN  IF retryAfter > doubled THEN AtMost(retryAfter, MaxDelay) ELSE doubled

\* defaultJitter: a tenth less to a tenth more, in the code's integer steps.
Jittered(d) ==
    LET jitter == (2 * d) \div 10
    IN  {d - (jitter \div 2) + n : n \in 0 .. jitter}

NextRateLimitDelay(current, retryAfter) == Jittered(BaseDelay(current, retryAfter))

-----------------------------------------------------------------------------
(* The loop.                                                               *)

\* A tick goes ahead unless it is idle, fetched within the minute, and nothing
\* is queued; in a backoff it skips the request.
StartTick(forced) ==
    \E idle, wanted \in BOOLEAN :
        /\ forced \/ ~idle \/ ~idleFresh \/ hold \/ wanted
        /\ loop' = IF hold THEN [Selecting EXCEPT !.pc = "observe"]
                    ELSE [Selecting EXCEPT !.pc = "asking", !.asked = client,
                                           !.idle = idle]

TickerFires ==
    /\ LoopAt("select")
    /\ StartTick(FALSE)
    /\ UNCHANGED <<choice, stamps, backoff, watch, snap, wake, session>>

RefreshAsked ==
    /\ LoopAt("select") /\ wake
    /\ wake' = FALSE
    /\ IF recent THEN UNCHANGED loop ELSE StartTick(TRUE)
    /\ UNCHANGED <<choice, stamps, backoff, watch, snap, session>>

Fetched ==
    /\ LoopAt("asking")
    /\ \E r \in ApiReadings(loop.asked) :
        /\ snap' = r
        /\ loop' = [Selecting EXCEPT !.pc = "observe", !.reading = r]
    /\ recent' = TRUE
    /\ idleFresh' = loop.idle
    /\ delay' = 0 /\ hold' = FALSE
    /\ UNCHANGED <<choice, watch, wake, session>>

RateLimited ==
    /\ LoopAt("asking")
    /\ \E ra \in RetryAfters : delay' \in NextRateLimitDelay(delay, ra)
    /\ hold' = TRUE
    /\ loop' = [Selecting EXCEPT !.pc = "observe"]
    /\ UNCHANGED <<choice, stamps, watch, snap, wake, session>>

\* A 401 is asked again, once, with whatever account the client has by now;
\* any other failure ends the fetch.
FetchFails ==
    /\ LoopAt("asking")
    /\ \/ loop' = [Selecting EXCEPT !.pc = "observe"]
       \/ ~loop.retried /\ loop' = [loop EXCEPT !.asked = client, !.retried = TRUE]
    /\ UNCHANGED <<choice, stamps, backoff, watch, snap, wake, session>>

\* ResetDetector.Observe: forty points down, or a later reset time.
Edge(r) ==
    \/ det.reset # 0 /\ r.resets > det.reset
    \/ det.util > 0 /\ r.util < det.util - 40

\* Mistake: a reading without a reset time makes the detector forget its last.
RememberAny(r) == [util |-> r.util, reset |-> r.resets]

Remember(r) ==
    [util |-> r.util, reset |-> IF r.resets # 0 THEN r.resets ELSE det.reset]

InHand == IF loop.reading # NoReading THEN loop.reading ELSE snap

Observe ==
    /\ LoopAt("observe")
    /\ loop' = [Selecting EXCEPT !.pc = "evaluate"]
    /\ IF InHand = NoReading THEN UNCHANGED watch
       ELSE /\ latch' = IF Edge(InHand) THEN NoLatch ELSE latch
            /\ det' = Remember(InHand)
            /\ newest' = IF InHand.resets > newest THEN InHand.resets ELSE newest
    /\ UNCHANGED <<choice, stamps, backoff, snap, wake, session>>

\* The start of evaluate: recordWeeklyBackoff; the plan is Scheduler's.
RecordWeeklyBackoff ==
    /\ LoopAt("evaluate")
    /\ latch' = IF snap = NoReading THEN latch
                ELSE IF snap.spent
                THEN IF latch.held THEN latch
                     ELSE [held |-> TRUE, due |-> snap.resets = 0]
                ELSE IF latch.due THEN NoLatch ELSE latch
    /\ loop' = Selecting
    /\ UNCHANGED <<choice, stamps, backoff, snap, det, wake, session, newest>>

-----------------------------------------------------------------------------
(* The others.                                                             *)

\* SetAccount, first under the scheduler's lock, then under the client's.
SetAccount ==
    /\ ~switching /\ switches < Switches
    /\ account' \in Accounts \ {account}
    /\ switching' = TRUE
    /\ switches' = switches + 1
    /\ snap' = NoReading
    /\ recent' = FALSE /\ idleFresh' = FALSE
    /\ delay' = 0 /\ hold' = FALSE
    /\ newest' = 0
    /\ UNCHANGED <<client, latch, det, wake, loop, session>>

\* Mistake: the client goes on with the account it was made with.
SetClientAccountLater ==
    /\ switching
    /\ switching' = FALSE
    /\ wake' = TRUE
    /\ UNCHANGED <<stamps, backoff, watch, account, client, snap, loop, session, switches>>

SetClientAccount ==
    /\ switching
    /\ client' = account
    /\ switching' = FALSE
    /\ wake' = TRUE
    /\ UNCHANGED <<stamps, backoff, watch, account, snap, loop, session, switches>>

\* A launch, or a run that ended, asks for a fresh reading.
RequestRefresh ==
    /\ wake' = TRUE
    /\ UNCHANGED <<choice, stamps, backoff, watch, snap, loop, session>>

TimePasses ==
    /\ \/ recent' = FALSE /\ UNCHANGED <<idleFresh, hold, latch>>
       \/ idleFresh' = FALSE /\ UNCHANGED <<recent, hold, latch>>
       \/ hold' = FALSE /\ UNCHANGED <<stamps, latch>>
       \/ latch' = [latch EXCEPT !.due = latch.held]
          /\ UNCHANGED <<stamps, hold>>
    /\ UNCHANGED <<choice, snap, delay, det, wake, loop, session, newest>>

NewSession ==
    /\ \E a \in Accounts :
        session[a] < Sessions /\ session' = [session EXCEPT ![a] = @ + 1]
    /\ UNCHANGED <<choice, stamps, backoff, watch, snap, wake, loop>>

PollNext ==
    \/ TickerFires \/ RefreshAsked \/ Fetched \/ RateLimited \/ FetchFails
    \/ Observe \/ RecordWeeklyBackoff
    \/ SetAccount \/ SetClientAccount \/ RequestRefresh \/ TimePasses \/ NewSession

PollTypeOK ==
    /\ account \in Accounts /\ client \in Accounts /\ switching \in BOOLEAN
    /\ snap = NoReading \/ snap \in [account : Accounts, util : Utils, resets : Nat,
                                     spent : BOOLEAN]
    /\ recent \in BOOLEAN /\ idleFresh \in BOOLEAN /\ hold \in BOOLEAN
    /\ delay \in Nat
    /\ latch \in [held : BOOLEAN, due : BOOLEAN]
    /\ det \in [util : Nat, reset : Nat]
    /\ wake \in BOOLEAN
    /\ loop.pc \in {"select", "asking", "observe", "evaluate"}
    /\ session \in [Accounts -> Nat] /\ switches \in 0 .. Switches

-----------------------------------------------------------------------------
(* What the poll owes the rest of the daemon.                              *)

\* However long the API keeps answering 429, and whatever it asks for, the
\* next request is never more than the maximum and its jitter away: a delay
\* that is doubled, capped, raised to Retry-After and jittered, then doubled
\* again from there, does not creep.
DelayBounded == 10 * delay <= 11 * MaxDelay + 10

\* A session seen for the first time ends the weekly latch at that tick, even
\* when readings without reset times came in between, and even when the
\* utilization says nothing.
MissesNoSession ==
    [][LoopAt("observe") /\ loop'.pc = "evaluate"
           /\ newest # 0 /\ InHand.resets > newest => ~latch'.held]_pollVars

\* After a switch the daemon does come to judge by the new account's reading,
\* though an answer for the old account may land after the switch, make the
\* requested refresh look recent, or put the new account into a backoff.
SwitchTakesHold ==
    (snap # NoReading /\ snap.account # account)
        ~> (snap = NoReading \/ snap.account = account)
=============================================================================
