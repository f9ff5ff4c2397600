----------------------------- MODULE Credentials -----------------------------
(***************************************************************************)
(* internal/usage: finding an account's OAuth bundle and keeping its token *)
(* fresh.  The usage poll and the launches of one daemon share a mutex and *)
(* a memo of the last refresh; `burnrate token` does the same in a process *)
(* of its own.  A server may replace the refresh token when it is used.    *)
(***************************************************************************)
EXTENDS Integers, FiniteSets

CONSTANTS Items,      \* credential entries: keychain items or files
          Default,    \* the entry every account falls back to
          Callers,    \* goroutines that may ask for a token
          Home,       \* [Callers -> processes]
          Rotating,   \* external: entries whose refresh token is good once
          Refreshes   \* bound: refreshes of one entry

ASSUME CredentialsAssumption ==
    /\ Default \in Items
    /\ Rotating \subseteq Items
    /\ Refreshes \in Nat

VARIABLES
    item,      \* [Items -> entry], what keychain and files hold
    server,    \* external: the refresh token honoured, the last access token issued
    mutex,     \* [processes -> the caller in refreshMu, if any]
    memo,      \* [processes -> lastRefreshTok, and whether under 30 s old]
    caller,    \* [Callers -> what it is doing]
    written,   \* ghost: the access tokens that were ever stored
    lost       \* ghost: entries whose new tokens died with a failure

ghosts == <<written, lost>>
credVars == <<item, server, mutex, memo, caller, ghosts>>

Processes == {Home[c] : c \in Callers}

\* Tokens are numbered by issue; access 0 is an entry that is not there.
NoEntry == [access |-> 0, refresh |-> 0, fresh |-> FALSE]
NoToken == [of |-> Default, access |-> 0]
NoMemo == [token |-> NoToken, recent |-> FALSE]
Nobody == [at |-> "idle", of |-> Default, bundle |-> NoEntry, got |-> NoEntry,
           token |-> NoToken]

CredInit ==
    /\ \E there \in SUBSET Items :
        item = [i \in Items |-> IF i \in there
                                THEN [access |-> 1, refresh |-> 1, fresh |-> TRUE]
                                ELSE NoEntry]
    /\ server = [i \in Items |-> [honours |-> 1, issued |-> 1]]
    /\ mutex = [p \in Processes |-> {}]
    /\ memo = [p \in Processes |-> NoMemo]
    /\ caller = [c \in Callers |-> Nobody]
    /\ written = {[of |-> i, access |-> 1] : i \in Items}
    /\ lost = {}

\* A caller that asked about entry i has a token to use.
Gets(i, token) == [Nobody EXCEPT !.at = "done", !.of = i, !.token = token]

CallerAt(c, at) == caller[c].at = at

-----------------------------------------------------------------------------
(* The steps of getToken, resolveTokenEnv and runToken.                    *)

\* BundleForAccount: the account's own entry, else the default one.
EntryFor(i) == IF item[i].access # 0 THEN i ELSE Default

\* A bundle that is fresh, or cannot be refreshed, is used as it is.
ReadBundle(c, i) ==
    LET e == EntryFor(i)
        b == item[e]
    IN  /\ CallerAt(c, "idle")
        /\ b.access # 0
        /\ caller' = [caller EXCEPT ![c] =
              IF b.fresh \/ b.refresh = 0
              THEN Gets(e, [of |-> e, access |-> b.access])
              ELSE [Nobody EXCEPT !.at = "wait", !.of = e, !.bundle = b]]
        /\ UNCHANGED <<item, server, mutex, memo, ghosts>>

\* refreshMu, then the memo of a refresh within the last half minute.
EnterRefresh(c) ==
    LET p == Home[c]
    IN  /\ CallerAt(c, "wait")
        /\ mutex[p] = {}
        /\ IF memo[p].recent
           THEN /\ caller' = [caller EXCEPT ![c] = Gets(@.of, memo[p].token)]
                /\ UNCHANGED mutex
           ELSE /\ caller' = [caller EXCEPT ![c].at = "asking"]
                /\ mutex' = [mutex EXCEPT ![p] = {c}]
        /\ UNCHANGED <<item, server, memo, ghosts>>

\* External: the server issues a new access token, and a new refresh token in
\* place of the one used where it rotates them.
ServerGrants(c) ==
    LET i == caller[c].of
        n == server[i].issued + 1
    IN  /\ CallerAt(c, "asking")
        /\ caller[c].bundle.refresh = server[i].honours
        /\ n <= Refreshes + 1
        /\ caller' = [caller EXCEPT
               ![c].at = "persist",
               ![c].got = [access |-> n, fresh |-> TRUE,
                           refresh |-> IF i \in Rotating THEN n ELSE 0]]
        /\ server' = [server EXCEPT
               ![i] = [honours |-> IF i \in Rotating THEN n ELSE @.honours, issued |-> n]]
        /\ UNCHANGED <<item, mutex, memo, ghosts>>

\* Mistake: the rotated refresh token is not written back.
UpdatedAccessOnly(bundle, got) == [got EXCEPT !.refresh = bundle.refresh]

\* buildUpdatedJSON: an entry keeps its refresh token if it got no new one.
Updated(bundle, got) ==
    [got EXCEPT !.refresh = IF @ = 0 THEN bundle.refresh ELSE @]

Persist(c) ==
    /\ CallerAt(c, "persist")
    /\ item' = [item EXCEPT ![caller[c].of] = Updated(caller[c].bundle, caller[c].got)]
    /\ written' = written \cup {[of |-> caller[c].of, access |-> caller[c].got.access]}
    /\ caller' = [caller EXCEPT ![c].at = "verify"]
    /\ UNCHANGED <<server, mutex, memo, lost>>

\* Mistake: the new token is handed out when the server has granted it.
VerifyUnwritten(c) ==
    LET p == Home[c]
        token == [of |-> caller[c].of, access |-> caller[c].got.access]
    IN  /\ caller[c].at \in {"persist", "verify"}
        /\ memo' = [memo EXCEPT ![p] = [token |-> token, recent |-> TRUE]]
        /\ mutex' = [mutex EXCEPT ![p] = {}]
        /\ caller' = [caller EXCEPT ![c] = Gets(@.of, token)]
        /\ UNCHANGED <<item, server, ghosts>>

\* VerifyWriteBack reads the entry again; only then is the token remembered
\* and handed out.
Verify(c) ==
    LET p == Home[c]
        token == [of |-> caller[c].of, access |-> caller[c].got.access]
    IN  /\ CallerAt(c, "verify")
        /\ item[caller[c].of].access = caller[c].got.access
        /\ memo' = [memo EXCEPT ![p] = [token |-> token, recent |-> TRUE]]
        /\ mutex' = [mutex EXCEPT ![p] = {}]
        /\ caller' = [caller EXCEPT ![c] = Gets(@.of, token)]
        /\ UNCHANGED <<item, server, ghosts>>

\* The server refuses, the entry cannot be written, or reads back otherwise:
\* no token.  What was granted and not written is lost.
RefreshFails(c) ==
    /\ caller[c].at \in {"asking", "persist", "verify"}
    /\ lost' = IF CallerAt(c, "persist") THEN lost \cup {caller[c].of} ELSE lost
    /\ mutex' = [mutex EXCEPT ![Home[c]] = {}]
    /\ caller' = [caller EXCEPT ![c] = Nobody]
    /\ UNCHANGED <<item, server, memo, written>>

Use(c) ==
    /\ CallerAt(c, "done")
    /\ caller' = [caller EXCEPT ![c] = Nobody]
    /\ UNCHANGED <<item, server, mutex, memo, ghosts>>

-----------------------------------------------------------------------------
(* Around them.                                                            *)

\* A process dies: its memory goes, and what it had not written.
ProcessDies(p) ==
    /\ lost' = lost \cup {caller[c].of : c \in {d \in Callers :
                                  Home[d] = p /\ CallerAt(d, "persist")}}
    /\ mutex' = [mutex EXCEPT ![p] = {}]
    /\ memo' = [memo EXCEPT ![p] = NoMemo]
    /\ caller' = [c \in Callers |-> IF Home[c] = p THEN Nobody ELSE caller[c]]
    /\ UNCHANGED <<item, server, written>>

\* Time: an access token runs into the margin before its expiry, a memo is
\* half a minute old.
TokenExpires ==
    /\ \E i \in Items : item' = [item EXCEPT ![i].fresh = FALSE]
    /\ UNCHANGED <<server, mutex, memo, caller, ghosts>>

MemoAges ==
    /\ \E p \in Processes : memo' = [memo EXCEPT ![p].recent = FALSE]
    /\ UNCHANGED <<item, server, mutex, caller, ghosts>>

CredNext ==
    \/ \E c \in Callers :
        \/ \E i \in Items : ReadBundle(c, i)
        \/ EnterRefresh(c) \/ ServerGrants(c) \/ Persist(c) \/ Verify(c)
        \/ RefreshFails(c) \/ Use(c)
    \/ \E p \in Processes : ProcessDies(p)
    \/ TokenExpires \/ MemoAges

CredTypeOK ==
    /\ \A i \in Items : item[i].access \in Nat /\ item[i].refresh \in Nat
    /\ \A p \in Processes : mutex[p] \subseteq Callers /\ Cardinality(mutex[p]) <= 1
    /\ \A c \in Callers :
        caller[c].at \in {"idle", "wait", "asking", "persist", "verify", "done"}
    /\ lost \subseteq Items

-----------------------------------------------------------------------------
(* What a token is worth.                                                  *)

\* refresh.go:72, "persist BEFORE returning the new token": whatever token is
\* in use has been stored first, whichever process it comes from and whatever
\* else is being refreshed, so that a crash cannot take the only copy.
UsedIsStored ==
    \A c \in Callers : CallerAt(c, "done") => caller[c].token \in written

\* A login is not lost to concurrency: the stored refresh token is the one the
\* server honours, except while a new one is about to be written, and except
\* for an entry whose write failed or was cut off by a crash.
LoginKept ==
    \A i \in Items : item[i].access # 0 =>
        \/ item[i].refresh = server[i].honours
        \/ i \in lost
        \/ \E c \in Callers : CallerAt(c, "persist") /\ caller[c].of = i

\* refresh.go:55-56, "if we just refreshed for this same bundle [...] return
\* the cached result": a caller gets a token of the entry it asked about.
TokenOfBundle ==
    \A c \in Callers : CallerAt(c, "done") => caller[c].token.of = caller[c].of
=============================================================================
