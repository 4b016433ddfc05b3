------------------------------ MODULE Sessions ------------------------------
(***************************************************************************)
(* Logging in: the handlers login and logout of internal/httpapi, the      *)
(* limiter of failed attempts in rate_limit.go, and the session manager of *)
(* internal/auth/session.go.                                               *)
(*                                                                         *)
(* Limiter and session manager each have a lock, but login asks the        *)
(* limiter, verifies the password for a long time, and tells the limiter   *)
(* afterwards.  An attempt holds a request slot all the time.  A session   *)
(* is named after the attempt that opened it, for its token is random.     *)
(***************************************************************************)
EXTENDS Integers, FiniteSets

CONSTANTS
    Attempts,
    Clients,                \* addresses: the keys of the limiter
    MaxConcurrentRequests,
    MaxFailure,
    Window,                 \* how long failures count
    MaxEntries,             \* how many clients the limiter remembers
    TTL,                    \* how long a session lasts
    MaxTime                 \* bound on the clock

ASSUME SessionsAssumption ==
    /\ MaxConcurrentRequests \in Nat \ {0}
    /\ MaxFailure \in Nat \ {0}
    /\ MaxEntries \in Nat \ {0}
    /\ Window \in Nat \ {0}
    /\ TTL \in Nat \ {0}
    /\ MaxTime \in Nat
    /\ IsFiniteSet(Attempts)

VARIABLES
    clock,
    entries,    \* entries[k]: the failures of client k and the end of their window, or NoEntry
    phase,      \* phase[a]: the next step of attempt a
    client,     \* client[a]: where it comes from
    expires,    \* expires[a]: when session a ends
    open,       \* the sessions that the manager knows
    ended       \* history: the sessions that were logged out

sessionVars == <<clock, entries, phase, client, expires, open, ended>>

NoEntry == [count |-> 0, resetAt |-> 0]

Phases == {"none", "verify", "failed", "issue", "reset", "done"}

SessionsInit ==
    /\ clock = 0
    /\ entries = [k \in Clients |-> NoEntry]
    /\ phase = [a \in Attempts |-> "none"]
    /\ client \in [Attempts -> Clients]
    /\ expires = [a \in Attempts |-> 0]
    /\ open = {}
    /\ ended = {}

Entries == {k \in Clients : entries[k] # NoEntry}

\* The window of client k still runs.
Running(k) == k \in Entries /\ clock < entries[k].resetAt

InFlight == {a \in Attempts : phase[a] \notin {"none", "done"}}
Set(a, p) == phase' = [phase EXCEPT ![a] = p]

Tick ==
    /\ clock < MaxTime
    /\ clock' = clock + 1
    /\ UNCHANGED <<entries, phase, client, expires, open, ended>>

-----------------------------------------------------------------------------
\* login asks the limiter.  A body that is not JSON ends it after that.
blockedLate(a) ==
    LET k == client[a] IN
    /\ phase[a] = "none"
    /\ Cardinality(InFlight) < MaxConcurrentRequests
    /\ entries' = [entries EXCEPT ![k] = IF Running(k) THEN @ ELSE NoEntry]
    /\ \/ ~(Running(k) /\ entries[k].count > MaxFailure) /\ Set(a, "verify")
       \/ Set(a, "done")
    /\ UNCHANGED <<clock, client, expires, open, ended>>

blocked(a) ==
    LET k == client[a] IN
    /\ phase[a] = "none"
    /\ Cardinality(InFlight) < MaxConcurrentRequests
    /\ entries' = [entries EXCEPT ![k] = IF Running(k) THEN @ ELSE NoEntry]
    /\ \/ ~(Running(k) /\ entries[k].count >= MaxFailure) /\ Set(a, "verify")
       \/ Set(a, "done")
    /\ UNCHANGED <<clock, client, expires, open, ended>>

\* SessionManager.Login up to its lock: the password is wrong, or it is right and
\* the end of the session is fixed, or verifying it fails.
Verify(a) ==
    /\ phase[a] = "verify"
    /\ \/ Set(a, "failed") /\ UNCHANGED expires
       \/ Set(a, "issue") /\ expires' = [expires EXCEPT ![a] = clock + TTL]
       \/ Set(a, "done") /\ UNCHANGED expires
    /\ UNCHANGED <<clock, entries, client, open, ended>>

evictOldest(k, gone) ==
    IF k \in Entries \/ Cardinality(Entries) < MaxEntries
    THEN gone = {}
    ELSE \E old \in Entries : gone = {old} /\ \A other \in Entries : entries[old].resetAt <= entries[other].resetAt

failed(a) ==
    LET k == client[a] IN
    /\ phase[a] = "failed"
    /\ \E gone \in {{}} \cup {{old} : old \in Entries} :
          /\ evictOldest(k, gone)
          /\ entries' = [c \in Clients |->
                CASE c = k /\ Running(k) -> [entries[k] EXCEPT !.count = @ + 1]
                  [] c = k /\ ~Running(k) -> [count |-> 1, resetAt |-> clock + Window]
                  [] c # k -> IF c \in gone THEN NoEntry ELSE entries[c]]
    /\ Set(a, "done")
    /\ UNCHANGED <<clock, client, expires, open, ended>>

\* The session is entered, and expired ones are removed.
Issue(a) ==
    /\ phase[a] = "issue"
    /\ open' = {b \in open : clock < expires[b]} \cup {a}
    /\ Set(a, "reset")
    /\ UNCHANGED <<clock, entries, client, expires, ended>>

\* The limiter forgets the client.
reset(a) ==
    /\ phase[a] = "reset"
    /\ entries' = [entries EXCEPT ![client[a]] = NoEntry]
    /\ Set(a, "done")
    /\ UNCHANGED <<clock, client, expires, open, ended>>

\* A request with the token of session a.
Known(a) == a \in open

Live(a) == a \in open /\ clock < expires[a]

Authenticate(a) ==
    /\ a \in open
    /\ open' = IF Live(a) THEN open ELSE open \ {a}
    /\ UNCHANGED <<clock, entries, phase, client, expires, ended>>

\* logout.  Its request passed Authenticate; the session may have expired since.
Logout(a) ==
    /\ a \in open
    /\ open' = open \ {a}
    /\ ended' = ended \cup {a}
    /\ UNCHANGED <<clock, entries, phase, client, expires>>

SessionsNext ==
    \/ Tick
    \/ \E a \in Attempts :
          \/ blocked(a) \/ Verify(a) \/ failed(a) \/ Issue(a) \/ reset(a)
          \/ Authenticate(a) \/ Logout(a)

SessionsSpec == SessionsInit /\ [][SessionsNext]_sessionVars

-----------------------------------------------------------------------------
\* Properties.

Verifying(k) == {a \in Attempts : phase[a] \in {"verify", "failed"} /\ client[a] = k}

\* The limiter is asked before the password is verified and told afterwards, so
\* attempts that overlap all pass it.  The failures of a client within a window
\* still stay below MaxFailure + MaxConcurrentRequests, and no overlap adds to that.
FailuresAreBounded ==
    \A k \in Entries :
        entries[k].count + Cardinality(Verifying(k)) < MaxFailure + MaxConcurrentRequests

\* A session that protected lets pass was opened by a verified password at most TTL
\* ago and was not logged out, although expired sessions are removed late.
SessionsEnd ==
    \A a \in Attempts :
        Live(a) => /\ phase[a] \in {"reset", "done"}
                   /\ expires[a] - TTL <= clock /\ clock < expires[a]
                   /\ a \notin ended
=============================================================================
