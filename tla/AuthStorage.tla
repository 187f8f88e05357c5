----------------------------- MODULE AuthStorage -----------------------------
(***************************************************************************)
(* AuthStorage of coding-agent/src/core/auth-storage.ts: processes keep    *)
(* credentials in memory and share auth.json under a lock.  An expired     *)
(* OAuth token is refreshed with the lock held across the request, since   *)
(* the server takes a refresh token once; a login is written under the     *)
(* lock too, but synchronously, and gives up after 200 ms.  A lock is      *)
(* taken from its holder once it looks stale, and the holder is told later *)
(* or not at all.                                                          *)
(***************************************************************************)
EXTENDS Naturals

CONSTANTS
  Callers,     \* calls of getApiKey for the provider
  HomeOf,      \* the process of each
  Instances,   \* the processes
  MaxTokens,   \* bound: tokens issued; the n-th is n, and 0 is none
  MaxLogins,   \* bound: logins with another provider; the n-th credential is n, and 0 is none
  MaxCrashes,  \* bound: processes that die, each replaced by a new one
  Free

ASSUME AuthAssumption ==
  /\ HomeOf \in [Callers -> Instances] /\ Free \notin Callers
  /\ MaxTokens \in Nat /\ MaxLogins \in Nat /\ MaxCrashes \in Nat

VARIABLES
  stored,      \* auth.json: [token, other]
  data,        \* AuthStorage.data of each process
  loadError,   \* the processes with a loadError
  locked,      \* who holds the lock of auth.json
  caller,      \* where each call is
  current,     \* currentData: what each call read under the lock
  answer,      \* the token the server has sent it, or 0
  compromised, \* lockCompromised: the calls that were told
  issued,      \* tokens the server has issued
  expired,     \* the tokens up to this one have expired
  spent,       \* tokens whose refresh token the server has taken
  logins,
  crashes,
  wasted,      \* history: the tokens that were sent again when they were spent
  disturbed,   \* history: the calls whose lock was taken, or with another write during their hold
  excused      \* history: tokens a disturbed call was sending, or whose answer was never written

authCalls   == <<caller, current, answer>>
authServer  == <<issued, expired, spent>>
authHistory == <<wasted, disturbed, excused>>
authVars == <<stored, data, loadError, locked, authCalls, compromised, authServer, logins, crashes, authHistory>>

Empty == [token |-> 0, other |-> 0]

AuthInit ==
  /\ stored = [token |-> 1, other |-> 0]
  /\ data = [i \in Instances |-> stored]
  /\ loadError = {}
  /\ locked = Free
  /\ caller = [c \in Callers |-> "idle"]
  /\ current = [c \in Callers |-> Empty] /\ answer = [c \in Callers |-> 0]
  /\ compromised = {}
  /\ issued = 1 /\ expired = 0 /\ spent = {}
  /\ logins = 0 /\ crashes = 0
  /\ wasted = {} /\ disturbed = {} /\ excused = {}

Holding == {c \in Callers : caller[c] \in {"exchange", "write"}}

Expire ==
  /\ expired < issued
  /\ expired' = issued
  /\ UNCHANGED <<stored, data, loadError, locked, authCalls, compromised, issued, spent, logins, crashes, authHistory>>

\* getApiKey, when the token in memory has expired; otherwise it is returned at once.
GetApiKey(c) ==
  /\ caller[c] = "idle"
  /\ data[HomeOf[c]].token \in 1..expired
  /\ caller' = [caller EXCEPT ![c] = "locking"]
  /\ UNCHANGED <<stored, data, loadError, locked, current, answer, compromised, authServer, logins, crashes,
                 authHistory>>

Bug_Read(c) == data[HomeOf[c]]

\* What the locked function is called with.
Read(c) == stored

\* withLockAsync has the lock.  Another call may have refreshed the token since, or removed it; if not,
\* the refresh token is sent with the lock held.
Lock(c) ==
  /\ caller[c] = "locking"
  /\ locked = Free
  /\ data' = [data EXCEPT ![HomeOf[c]] = Read(c)]
  /\ loadError' = loadError \ {HomeOf[c]}
  /\ IF Read(c).token \in 1..expired
     THEN /\ caller' = [caller EXCEPT ![c] = "exchange"] /\ locked' = c
          /\ current' = [current EXCEPT ![c] = Read(c)]
     ELSE caller' = [caller EXCEPT ![c] = "idle"] /\ UNCHANGED <<locked, current>>
  /\ UNCHANGED <<stored, answer, compromised, authServer, logins, crashes, authHistory>>

\* The retries of the lock are used up, or it is compromised before the file is read.
LockFails(c) ==
  /\ caller[c] = "locking"
  /\ caller' = [caller EXCEPT ![c] = "reload"]
  /\ UNCHANGED <<stored, data, loadError, locked, current, answer, compromised, authServer, logins, crashes,
                 authHistory>>

Renewed(c, token) == [current[c] EXCEPT !.token = token]

\* The server takes a refresh token once.  The new one is in memory before it is in the file.
Exchange(c) ==
  /\ caller[c] = "exchange"
  /\ current[c].token \notin spent /\ issued < MaxTokens
  /\ issued' = issued + 1
  /\ spent' = spent \cup {current[c].token}
  /\ answer' = [answer EXCEPT ![c] = issued + 1]
  /\ data' = [data EXCEPT ![HomeOf[c]] = Renewed(c, issued + 1)]
  /\ loadError' = loadError \ {HomeOf[c]}
  /\ caller' = [caller EXCEPT ![c] = "write"]
  /\ UNCHANGED <<stored, locked, current, compromised, expired, logins, crashes, authHistory>>

Disturb(who) ==
  /\ disturbed' = disturbed \cup who
  /\ excused' = excused \cup {current[d].token : d \in who}

\* release: that of a compromised lock does nothing; if the lock was taken and the call not told, the
\* lock of whoever has it now is removed.
AfterRelease(c) ==
  IF c \in compromised THEN {locked} ELSE IF locked \in {c, Free} THEN {Free} ELSE {locked, Free}

\* The end of withLockAsync: "idle", or getApiKey goes on to reload after an error.  who is disturbed by
\* what the call wrote, lost is a token whose answer it did not write.
EndCall(c, next, who, lost) == \E owner \in AfterRelease(c) :
  LET robbed == IF owner = locked THEN {} ELSE Holding \cap {locked}
  IN /\ locked' = owner
     /\ caller' = [caller EXCEPT ![c] = next]
     /\ current' = [current EXCEPT ![c] = Empty] /\ answer' = [answer EXCEPT ![c] = 0]
     /\ compromised' = compromised \ {c}
     /\ disturbed' = (disturbed \cup who \cup robbed) \ {c}
     /\ excused' = excused \cup lost \cup {current[d].token : d \in who \cup robbed}

\* The request fails, as it does when the refresh token is spent.
ExchangeFails(c) ==
  /\ caller[c] = "exchange"
  /\ wasted' = wasted \cup ({current[c].token} \cap spent)
  /\ EndCall(c, "reload", {}, {})
  /\ UNCHANGED <<stored, data, loadError, authServer, logins, crashes>>

\* The server takes the refresh token, but its answer does not arrive.
AnswerLost(c) ==
  /\ caller[c] = "exchange"
  /\ current[c].token \notin spent
  /\ spent' = spent \cup {current[c].token}
  /\ EndCall(c, "reload", {}, {current[c].token})
  /\ UNCHANGED <<stored, data, loadError, issued, expired, logins, crashes, wasted>>

\* The call writes the whole file as it read it, with the new token.
Store(c) ==
  /\ caller[c] = "write" /\ c \notin compromised
  /\ stored' = Renewed(c, answer[c])
  /\ EndCall(c, "idle", Holding \ {c}, {})
  /\ UNCHANGED <<data, loadError, authServer, logins, crashes, wasted>>

\* throwIfCompromised, if the call was told in time, or the write throws: the answer is thrown away.
Discard(c) ==
  /\ caller[c] = "write"
  /\ EndCall(c, "reload", {}, {current[c].token})
  /\ UNCHANGED <<stored, data, loadError, authServer, logins, crashes, wasted>>

\* reload, after a failed refresh: it takes the lock synchronously, or fails.
ReloadAuth(c) ==
  /\ caller[c] = "reload"
  /\ caller' = [caller EXCEPT ![c] = "idle"]
  /\ IF locked = Free
     THEN /\ data' = [data EXCEPT ![HomeOf[c]] = stored]
          /\ loadError' = loadError \ {HomeOf[c]}
     ELSE loadError' = loadError \cup {HomeOf[c]} /\ UNCHANGED data
  /\ UNCHANGED <<stored, locked, current, answer, compromised, authServer, logins, crashes, authHistory>>

\* persistProviderChange merges into what the file holds, if nobody has the lock and the last load did
\* not fail.
Persist(i, new) == stored' = IF locked = Free /\ i \notin loadError THEN new ELSE stored

\* set, by a login with another provider.
Login(i) ==
  /\ logins < MaxLogins
  /\ logins' = logins + 1
  /\ data' = [data EXCEPT ![i].other = logins + 1]
  /\ Persist(i, [stored EXCEPT !.other = logins + 1])
  /\ UNCHANGED <<loadError, locked, authCalls, compromised, authServer, crashes, authHistory>>

\* A login with the provider itself brings a new token, a logout removes it.
SetToken(i, token) ==
  /\ data' = [data EXCEPT ![i].token = token]
  /\ Persist(i, [stored EXCEPT !.token = token])
  /\ UNCHANGED <<loadError, locked, authCalls, compromised, expired, spent, logins, crashes, authHistory>>

Renew(i) == issued < MaxTokens /\ issued' = issued + 1 /\ SetToken(i, issued + 1)
Logout(i) == UNCHANGED issued /\ SetToken(i, 0)

Of(i) == {c \in Callers : HomeOf[c] = i}

\* A process is killed at any await and started again: its constructor loads the file, or fails to
\* while the lock is held, be it by the one that was killed.
Restart(i) ==
  /\ crashes < MaxCrashes
  /\ crashes' = crashes + 1
  /\ excused' = excused \cup {current[c].token : c \in {d \in Of(i) : caller[d] = "write"}}
  /\ caller' = [c \in Callers |-> IF c \in Of(i) THEN "idle" ELSE caller[c]]
  /\ current' = [c \in Callers |-> IF c \in Of(i) THEN Empty ELSE current[c]]
  /\ answer' = [c \in Callers |-> IF c \in Of(i) THEN 0 ELSE answer[c]]
  /\ compromised' = compromised \ Of(i) /\ disturbed' = disturbed \ Of(i)
  /\ data' = [data EXCEPT ![i] = IF locked = Free THEN stored ELSE Empty]
  /\ loadError' = IF locked = Free THEN loadError \ {i} ELSE loadError \cup {i}
  /\ UNCHANGED <<stored, locked, authServer, logins, wasted>>

\* The lock of a killed process goes stale, and so does that of a call whose request takes long: to a
\* synchronous lock it is stale after 10 s, and its holder touches it every 15 s.
LockGoesStale ==
  /\ locked # Free
  /\ locked' = Free
  /\ Disturb(Holding \cap {locked})
  /\ UNCHANGED <<stored, data, loadError, authCalls, compromised, authServer, logins, crashes, wasted>>

\* onCompromised, when the call touches its lock and it is gone or another's.
NoticeCompromise(c) ==
  /\ c \in Holding \ compromised /\ locked # c
  /\ compromised' = compromised \cup {c}
  /\ UNCHANGED <<stored, data, loadError, locked, authCalls, authServer, logins, crashes, authHistory>>

AuthNext ==
  \/ Expire \/ LockGoesStale
  \/ \E c \in Callers :
       \/ GetApiKey(c) \/ Lock(c) \/ LockFails(c) \/ NoticeCompromise(c)
       \/ Exchange(c) \/ ExchangeFails(c) \/ AnswerLost(c) \/ Store(c) \/ Discard(c) \/ ReloadAuth(c)
  \/ \E i \in Instances : Login(i) \/ Renew(i) \/ Logout(i) \/ Restart(i)

AuthSpec == AuthInit /\ [][AuthNext]_authVars

(***************************************************************************)
(* Properties.                                                             *)
(***************************************************************************)
\* However many calls find the token expired at once, in how many processes, its refresh token is sent
\* once, and the token in auth.json can be refreshed whenever the lock is free: "Multiple pi instances
\* may try to refresh simultaneously when tokens expire."  It does not hold of a token that was being
\* sent by a call when its lock was taken, nor of one whose answer was lost, thrown away or never
\* written.  And no refresh, login or logout brings back a credential of another provider that was
\* replaced in the file, unless it is the refresh of a call whose lock was taken.
RefreshOnce ==
  /\ [](wasted \subseteq excused /\ (locked = Free /\ stored.token \in spent => stored.token \in excused))
  /\ [][stored'.other < stored.other => \E c \in disturbed : caller[c] = "write" /\ caller'[c] = "idle"]_authVars
=============================================================================
