------------------------------- MODULE Settings -------------------------------
(***************************************************************************)
(* The settings table, the scheduler's copy of the configuration, and the  *)
(* handlers that write both: PUT /api/config and POST /api/accounts/select *)
(* set one key after the other, then hand over what they loaded or chose,  *)
(* with no lock or transaction over it all.  A restart loads the table.    *)
(***************************************************************************)
EXTENDS Integers, FiniteSets

CONSTANTS Handlers,    \* requests in flight at once
          Keys, Values,   \* settings that PUT may write
          Logins,      \* accounts that may be selected
          Inherited,   \* the one whose config_dir is empty
          Boxed,       \* those with a sandbox keychain beside them
          EnvLogin     \* what the environment pins

\* A key that was never written; a keychain or password file that is empty.
Unset == "unset"
Empty == "empty"

ASSUME SettingsAssumption ==
    /\ Inherited \in Logins /\ EnvLogin \in Logins
    /\ Boxed \subseteq Logins \ {Inherited}
    /\ Logins \cap {Unset, Empty} = {} /\ Values # {}

VARIABLES
    table,     \* the settings: [Keys -> Values] and the three account keys
    cfg,       \* s.cfg: the same, as runs are launched with it
    handler,   \* [Handlers -> what the request is doing]
    spoiled    \* ghost: kinds of request that met another or failed, and have not
               \* since succeeded alone

settingsVars == <<table, cfg, handler, spoiled>>

AccountKeys == {"dir", "keychain", "password"}

\* What discovery says of an account; the keychain and its password file are
\* named after the account they belong to.
Discovered(a) ==
    [k \in AccountKeys |-> IF k = "dir" \/ a \in Boxed THEN a ELSE Empty]

Nothing == [keys |-> [k \in Keys |-> CHOOSE v \in Values : TRUE],
            account |-> Discovered(Inherited)]
Waiting == [at |-> "idle", kind |-> "none", todo |-> {}, got |-> Nothing,
            unread |-> {}, alone |-> FALSE]

\* A request that met no other of its kind sets right what went before.
Settles(h) == IF handler[h].alone THEN spoiled \ {handler[h].kind} ELSE spoiled

-----------------------------------------------------------------------------
(* config.Load.                                                            *)

\* Mistake: a key that is not in the table counts as an empty one.
ChosenAlways(stored, env) == stored

\* A key in the table wins over the environment, even if it is empty.
Chosen(stored, env) == IF stored = Unset THEN env ELSE stored

\* Then autoDeriveSandbox.
LoadedAccount(account) ==
    LET of == [k \in AccountKeys |-> Chosen(account[k], Discovered(EnvLogin)[k])]
    IN  IF of["dir"] # Inherited /\ of["keychain"] = Empty /\ of["dir"] \in Boxed
        THEN Discovered(of["dir"]) ELSE of

SettingsInit ==
    /\ table = [keys |-> Nothing.keys,
                account |-> [k \in AccountKeys |-> Unset]]
    /\ cfg = [keys |-> table.keys, account |-> LoadedAccount(table.account)]
    /\ handler = [h \in Handlers |-> Waiting]
    /\ spoiled = {}

-----------------------------------------------------------------------------
(* A request.                                                              *)

InFlight(kind) == {h \in Handlers : handler[h].kind = kind}

\* todo: the keys it has still to write, with their values, in map order.
Arrives(h, kind, todo) ==
    /\ handler[h] = Waiting
    /\ handler' = [g \in Handlers |->
          IF g = h THEN [at |-> "writing", kind |-> kind, todo |-> todo, got |-> Nothing,
                         unread |-> Keys, alone |-> InFlight(kind) = {}]
          ELSE IF g \in InFlight(kind) THEN [handler[g] EXCEPT !.alone = FALSE]
          ELSE handler[g]]
    /\ spoiled' = IF InFlight(kind) = {} THEN spoiled ELSE spoiled \cup {kind}
    /\ UNCHANGED <<table, cfg>>

PutConfig(h) ==
    \E written \in SUBSET Keys \ {{}} : \E body \in [written -> Values] :
        Arrives(h, "put", {<<k, body[k]>> : k \in written})

\* Mistake: what the account does not have is not written.
SelectAccountAsFound(h) ==
    \E a \in Logins : Arrives(h, "select",
        {<<k, Discovered(a)[k]>> : k \in {j \in AccountKeys : Discovered(a)[j] # Empty}})

SelectAccount(h) ==
    \E a \in Logins : Arrives(h, "select", {<<k, Discovered(a)[k]>> : k \in AccountKeys})

\* One key less to write; a selection also notes what it chose.
Wrote(x, w) ==
    [x EXCEPT !.todo = x.todo \ {w},
              !.got = IF x.kind = "put" THEN x.got
                      ELSE [x.got EXCEPT !.account[w[1]] = w[2]]]

SetSetting(h) ==
    /\ handler[h].at = "writing"
    /\ \E w \in handler[h].todo :
        /\ table' = IF handler[h].kind = "put" THEN [table EXCEPT !.keys[w[1]] = w[2]]
                    ELSE [table EXCEPT !.account[w[1]] = w[2]]
        /\ handler' = [handler EXCEPT ![h] = Wrote(handler[h], w)]
    /\ UNCHANGED <<cfg, spoiled>>

\* The database refuses: the request ends with what it has written.
SetSettingFails(h) ==
    /\ handler[h].at = "writing" /\ handler[h].todo # {}
    /\ spoiled' = spoiled \cup {handler[h].kind}
    /\ handler' = [handler EXCEPT ![h] = Waiting]
    /\ UNCHANGED <<table, cfg>>

\* applySettings, one query after the other.
Loaded(x, k) ==
    [x EXCEPT !.unread = x.unread \ {k},
              !.got = [keys |-> [x.got.keys EXCEPT ![k] = table.keys[k]],
                       account |-> LoadedAccount(table.account)]]

LoadsKey(h) ==
    /\ handler[h].at = "writing" /\ handler[h].todo = {} /\ handler[h].kind = "put"
    /\ \E k \in handler[h].unread :
        handler' = [handler EXCEPT ![h] = Loaded(handler[h], k)]
    /\ UNCHANGED <<table, cfg, spoiled>>

\* Mistake: everything that was loaded is taken over.
SetConfigWhole(h) ==
    /\ handler[h].kind = "put" /\ handler[h].todo = {} /\ handler[h].unread = {}
    /\ cfg' = handler[h].got
    /\ handler' = [handler EXCEPT ![h] = Waiting]
    /\ spoiled' = Settles(h)
    /\ UNCHANGED table

\* SetConfig leaves the account to SetAccount.
SetConfig(h) ==
    /\ handler[h].kind = "put" /\ handler[h].todo = {} /\ handler[h].unread = {}
    /\ cfg' = [cfg EXCEPT !.keys = handler[h].got.keys]
    /\ handler' = [handler EXCEPT ![h] = Waiting]
    /\ spoiled' = Settles(h)
    /\ UNCHANGED table

SetAccountTo(h) ==
    /\ handler[h].kind = "select" /\ handler[h].todo = {}
    /\ cfg' = [cfg EXCEPT !.account = handler[h].got.account]
    /\ handler' = [handler EXCEPT ![h] = Waiting]
    /\ spoiled' = Settles(h)
    /\ UNCHANGED table

\* A crash, or an exit past the handlers, and the next start.
Reload ==
    /\ cfg' = [keys |-> table.keys, account |-> LoadedAccount(table.account)]
    /\ spoiled' = (spoiled \ {"put"}) \cup
                  (IF InFlight("select") # {} THEN {"select"} ELSE {})
    /\ handler' = [h \in Handlers |-> Waiting]
    /\ UNCHANGED table

SettingsNext ==
    \/ \E h \in Handlers :
        \/ PutConfig(h) \/ SelectAccount(h)
        \/ SetSetting(h) \/ SetSettingFails(h) \/ LoadsKey(h)
        \/ SetConfig(h) \/ SetAccountTo(h)
    \/ Reload

SettingsTypeOK ==
    /\ table.keys \in [Keys -> Values] /\ cfg.keys \in [Keys -> Values]
    /\ cfg.account["dir"] \in Logins
    /\ \A h \in Handlers : handler[h].kind \in {"none", "put", "select"}
    /\ spoiled \subseteq {"put", "select"}

-----------------------------------------------------------------------------
(* What a run is launched with.                                            *)

\* handlers_config.go:139-140, "so a write to /api/config changes what the next
\* run is launched with": with nothing in flight, memory is what a restart
\* would load, whatever overlapped a select with a PUT; only two requests of
\* one kind at once, or a failed one, leave it different, until the next.
MemoryAgrees ==
    /\ InFlight("put") = {} /\ "put" \notin spoiled => cfg.keys = table.keys
    /\ InFlight("select") = {} /\ "select" \notin spoiled =>
          cfg.account = LoadedAccount(table.account)

\* Runs are launched with the directory, keychain and password file of one
\* account, across restarts and reloads in the middle of a selection too; only
\* selections at once, or one cut in half, mix two accounts.
OneWholeAccount ==
    "select" \notin spoiled => cfg.account \in {Discovered(a) : a \in Logins}
=============================================================================
