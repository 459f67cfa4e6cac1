----------------------------- MODULE JwksCache -----------------------------
(***************************************************************************)
(* The process-wide JWKS cache (backend/app/auth/jwks.py).  One JwksCache  *)
(* object is stored on the application and called by every request         *)
(* thread; it holds no lock.  FastAPI runs the synchronous dependency that *)
(* calls it on a thread pool, so two get_key calls interleave at any       *)
(* point.  Each access to the object that matters to another thread is one *)
(* step here: a statement that reads the clock and then compares or stores *)
(* what it read is two steps, and so is the fetch (it is entered, it       *)
(* ends); time and other threads move in between.                          *)
(*                                                                         *)
(* The provider and the clock are the environment.  FetchLatency bounds    *)
(* the time a thread spends from entering _refresh to stamping             *)
(* _fetched_at: a fetch that ends in time, and a scheduler that lets a     *)
(* runnable thread run.  StoreDelay is that scheduler's bound on the way   *)
(* from reading the clock to storing it as the time of an attempt.         *)
(***************************************************************************)
EXTENDS Naturals

CONSTANTS
    Thread,              \* the request threads of one process
    Kid,                 \* key identifiers
    Usable,              \* the kids whose entry PyJWK can parse
    TokenKid,            \* the kids that the tokens in circulation name
    Document,            \* the key documents the provider may publish: sets of kids
    Never,               \* None
    Ttl,                 \* CACHE_TTL_SECONDS
    MinRefreshInterval,  \* MIN_REFRESH_INTERVAL_SECONDS
    FetchLatency,        \* longest time from entering _refresh to its last assignment
    StoreDelay,          \* longest time from reading the time of an attempt to storing it
    MaxTime,             \* bound: the clock stops here
    MaxRotations         \* bound: how often the provider changes its document

ASSUME KidAssumption ==
    /\ Usable \subseteq Kid
    /\ TokenKid \subseteq Kid
    /\ Document \subseteq SUBSET Kid
ASSUME NeverAssumption == Never \notin Nat
ASSUME TimeAssumption ==
    /\ Ttl \in Nat \ {0}
    /\ MinRefreshInterval \in Nat
    /\ FetchLatency \in Nat
    /\ StoreDelay \in Nat
    /\ MaxTime \in Nat
    /\ MaxRotations \in Nat

VARIABLES
    \* the environment
    now,                    \* time.monotonic()
    published,              \* the kids in the provider's document
    rotations,              \* how often that document has changed
    withdrawnAt,            \* kid -> when the provider last withdrew it, or Never
    \* the JwksCache object
    keys,                   \* _keys: the kids it maps to a key
    fetchedAt,              \* _fetched_at
    lastUnknownKidRefresh,  \* _last_unknown_kid_refresh
    \* each thread's call of get_key
    pc,                     \* the statement it executes next
    kid,                    \* its argument
    since,                  \* when it was called (0 once it has been refused)
    started,                \* when it entered _refresh
    doc,                    \* the local `keys` of _refresh
    unknownKid,             \* this refresh is the one an unknown kid triggers
    outcome,                \* how the last call ended
    read,                   \* what _clock() returned to it (0 once it has been used)
    \* history, read by no action
    attemptAt,              \* thread -> the time of its last unknown-kid refresh, or Never
    succeededAt             \* when a refresh last read the clock for its stamp, or Never

env == <<now, published, rotations, withdrawnAt>>
cache == <<keys, fetchedAt, lastUnknownKidRefresh>>
call == <<pc, kid, since, started, doc, unknownKid, outcome, read>>
history == <<attemptAt, succeededAt>>
vars == <<env, cache, call, history>>

Stage == {"idle", "expiry", "age", "fetch", "install", "clock", "stamp", "lookup",
          "limit", "interval", "record", "store", "retry"}
Refreshing == {"fetch", "install", "clock", "stamp"}

\* Past the expiry check and not refreshing: what _keys holds may be returned.
Answering == {"lookup", "limit", "interval", "record", "store", "retry"}

\* The reason of the AuthenticationError, "key" when a key is returned, and
\* "unhandled" for an exception that _refresh does not translate.
Outcome == {"none", "key", "missing_kid", "jwks_unavailable", "jwks_empty",
            "unknown_kid_rate_limited", "unknown_kid", "unhandled"}

TypeOK ==
    /\ now \in Nat
    /\ published \in Document
    /\ rotations \in 0..MaxRotations
    /\ withdrawnAt \in [Kid -> Nat \cup {Never}]
    /\ keys \in SUBSET Usable
    /\ fetchedAt \in Nat \cup {Never}
    /\ lastUnknownKidRefresh \in Nat \cup {Never}
    /\ pc \in [Thread -> Stage]
    /\ kid \in [Thread -> TokenKid]
    /\ since \in [Thread -> Nat]
    /\ started \in [Thread -> Nat]
    /\ doc \in [Thread -> SUBSET Usable]
    /\ unknownKid \in [Thread -> BOOLEAN]
    /\ outcome \in [Thread -> Outcome]
    /\ read \in [Thread -> Nat]
    /\ attemptAt \in [Thread -> Nat \cup {Never}]
    /\ succeededAt \in Nat \cup {Never}

Init ==
    /\ now = 0
    /\ published \in Document
    /\ rotations = 0
    /\ withdrawnAt = [k \in Kid |-> Never]
    /\ keys = {}
    /\ fetchedAt = Never
    /\ lastUnknownKidRefresh = Never
    /\ pc = [t \in Thread |-> "idle"]
    /\ kid \in [Thread -> TokenKid]
    /\ since = [t \in Thread |-> 0]
    /\ started = [t \in Thread |-> 0]
    /\ doc = [t \in Thread |-> {}]
    /\ unknownKid = [t \in Thread |-> FALSE]
    /\ outcome = [t \in Thread |-> "none"]
    /\ read = [t \in Thread |-> 0]
    /\ attemptAt = [t \in Thread |-> Never]
    /\ succeededAt = Never

-----------------------------------------------------------------------------
(* The environment *)

\* Time passes, but not beyond what a refresh in progress, or a thread about to
\* store the time of its attempt, may take.
Tick ==
    /\ now < MaxTime
    /\ \A t \in Thread :
          /\ pc[t] \in Refreshing => now < started[t] + FetchLatency
          /\ pc[t] = "store" => now < read[t] + StoreDelay
    /\ now' = now + 1
    /\ UNCHANGED <<published, rotations, withdrawnAt, cache, call, history>>

\* The provider rotates: it adds and withdraws keys.
Publish(S) ==
    /\ S # published
    /\ rotations < MaxRotations
    /\ rotations' = rotations + 1
    /\ published' = S
    /\ withdrawnAt' = [k \in Kid |-> IF k \in published \ S THEN now ELSE withdrawnAt[k]]
    /\ UNCHANGED <<now, cache, call, history>>

-----------------------------------------------------------------------------
(* get_key and _refresh, for thread t *)

RateLimitedAt(time) ==
    /\ lastUnknownKidRefresh # Never
    /\ time < lastUnknownKidRefresh + MinRefreshInterval

Goto(t, stage) == pc' = [pc EXCEPT ![t] = stage]

\* self._clock(), for the use that the thread makes of it at `stage`.
ReadClock(t, stage) ==
    /\ Goto(t, stage)
    /\ read' = [read EXCEPT ![t] = now]
    /\ UNCHANGED <<kid, since, started, doc, unknownKid, outcome>>

\* The thread goes on to `stage` and forgets the clock.
GoOn(t, stage) ==
    /\ Goto(t, stage)
    /\ read' = [read EXCEPT ![t] = 0]
    /\ UNCHANGED <<kid, since, started, doc, unknownKid, outcome>>

\* The call returns a key or raises.
Finish(t, o) ==
    /\ Goto(t, "idle")
    /\ outcome' = [outcome EXCEPT ![t] = o]
    /\ started' = [started EXCEPT ![t] = 0]
    /\ doc' = [doc EXCEPT ![t] = {}]
    /\ unknownKid' = [unknownKid EXCEPT ![t] = FALSE]
    /\ since' = IF o = "key" THEN since ELSE [since EXCEPT ![t] = 0]
    /\ read' = [read EXCEPT ![t] = 0]
    /\ UNCHANGED kid

EnterRefresh(t, isUnknownKid) ==
    /\ Goto(t, "fetch")
    /\ started' = [started EXCEPT ![t] = now]
    /\ unknownKid' = [unknownKid EXCEPT ![t] = isUnknownKid]
    /\ read' = [read EXCEPT ![t] = 0]
    /\ UNCHANGED <<kid, since, doc, outcome>>

Begin(t, k) ==
    /\ pc[t] = "idle"
    /\ Goto(t, "expiry")
    /\ kid' = [kid EXCEPT ![t] = k]
    /\ since' = [since EXCEPT ![t] = now]
    /\ outcome' = [outcome EXCEPT ![t] = "none"]
    /\ UNCHANGED <<env, cache, started, doc, unknownKid, read, history>>

\* A token whose header names no kid is refused before the cache is touched.
BeginWithoutKid(t) ==
    /\ pc[t] = "idle"
    /\ outcome' = [outcome EXCEPT ![t] = "missing_kid"]
    /\ since' = [since EXCEPT ![t] = 0]
    /\ UNCHANGED <<env, cache, pc, kid, started, doc, unknownKid, read, history>>

\* _expired, first half: nothing fetched yet, or the clock is read.
CheckExpiry(t) ==
    /\ pc[t] = "expiry"
    /\ IF fetchedAt = Never THEN EnterRefresh(t, FALSE) ELSE ReadClock(t, "age")
    /\ UNCHANGED <<env, cache, history>>

\* Mutant: an entry exactly one time to live old still counts as fresh.
CompareAge_StrictAge(t) ==
    /\ pc[t] = "age"
    /\ IF read[t] > fetchedAt + Ttl THEN EnterRefresh(t, FALSE) ELSE GoOn(t, "lookup")
    /\ UNCHANGED <<env, cache, history>>

\* _expired, second half: the age of the _fetched_at of this moment.
CompareAge(t) ==
    /\ pc[t] = "age"
    /\ IF read[t] >= fetchedAt + Ttl THEN EnterRefresh(t, FALSE) ELSE GoOn(t, "lookup")
    /\ UNCHANGED <<env, cache, history>>

\* Mutant: no `if not keys` before the key set is replaced.
FetchAnswered_EmptyAccepted(t) ==
    /\ pc[t] = "fetch"
    /\ doc' = [doc EXCEPT ![t] = published \cap Usable]
    /\ Goto(t, "install")
    /\ UNCHANGED <<env, cache, kid, since, started, unknownKid, outcome, read, history>>

\* The provider answers; entries without a kid and malformed ones are skipped.
FetchAnswered(t) ==
    /\ pc[t] = "fetch"
    /\ published \cap Usable # {}
    /\ doc' = [doc EXCEPT ![t] = published \cap Usable]
    /\ Goto(t, "install")
    /\ UNCHANGED <<env, cache, kid, since, started, unknownKid, outcome, read, history>>

FetchedNothingUsable(t) ==
    /\ pc[t] = "fetch"
    /\ published \cap Usable = {}
    /\ Finish(t, "jwks_empty")
    /\ UNCHANGED <<env, cache, history>>

\* Mutant: when the provider cannot be reached the old key set is served.
FetchFailed_ServeStale(t) ==
    /\ pc[t] = "fetch"
    /\ GoOn(t, IF unknownKid[t] THEN "retry" ELSE "lookup")
    /\ UNCHANGED <<env, cache, history>>

\* Timeout, refused redirect, HTTP error or invalid JSON; or an exception that
\* the except clause does not list (a document that is not an object, a body cut
\* short).
FetchFailed(t) ==
    /\ pc[t] = "fetch"
    /\ \E o \in {"jwks_unavailable", "unhandled"} : Finish(t, o)
    /\ UNCHANGED <<env, cache, history>>

InstallKeys(t) ==
    /\ pc[t] = "install"
    /\ keys' = doc[t]
    /\ GoOn(t, "clock")
    /\ UNCHANGED <<env, fetchedAt, lastUnknownKidRefresh, history>>

ReadStampTime(t) ==
    /\ pc[t] = "clock"
    /\ ReadClock(t, "stamp")
    /\ succeededAt' = now
    /\ UNCHANGED <<env, cache, attemptAt>>

StampFetchedAt(t) ==
    /\ pc[t] = "stamp"
    /\ fetchedAt' = read[t]
    /\ Goto(t, IF unknownKid[t] THEN "retry" ELSE "lookup")
    /\ started' = [started EXCEPT ![t] = 0]
    /\ doc' = [doc EXCEPT ![t] = {}]
    /\ read' = [read EXCEPT ![t] = 0]
    /\ UNCHANGED <<env, keys, lastUnknownKidRefresh, kid, since, unknownKid, outcome, history>>

Lookup(t) ==
    /\ pc[t] = "lookup"
    /\ IF kid[t] \in keys THEN Finish(t, "key") ELSE GoOn(t, "limit")
    /\ UNCHANGED <<env, cache, history>>

\* _rate_limited, first half: no attempt recorded yet, or the clock is read.
CheckRateLimit(t) ==
    /\ pc[t] = "limit"
    /\ IF lastUnknownKidRefresh = Never THEN GoOn(t, "record") ELSE ReadClock(t, "interval")
    /\ UNCHANGED <<env, cache, history>>

\* Mutant: a rate-limited call polls until the window ends instead of failing.
CompareInterval_Polls(t) ==
    /\ pc[t] = "interval"
    /\ GoOn(t, IF RateLimitedAt(read[t]) THEN "lookup" ELSE "record")
    /\ UNCHANGED <<env, cache, history>>

\* _rate_limited, second half.
CompareInterval(t) ==
    /\ pc[t] = "interval"
    /\ IF RateLimitedAt(read[t])
       THEN Finish(t, "unknown_kid_rate_limited")
       ELSE GoOn(t, "record")
    /\ UNCHANGED <<env, cache, history>>

ReadAttemptTime(t) ==
    /\ pc[t] = "record"
    /\ ReadClock(t, "store")
    /\ UNCHANGED <<env, cache, history>>

\* Mutant: the attempt is made but not recorded.
RecordAttempt_Unrecorded(t) ==
    /\ pc[t] = "store"
    /\ attemptAt' = [attemptAt EXCEPT ![t] = read[t]]
    /\ EnterRefresh(t, TRUE)
    /\ UNCHANGED <<env, cache, succeededAt>>

\* The attempt is recorded before the fetch, so that a failing fetch counts.  The
\* time it stores may be older than one that another thread has stored since.
RecordAttempt(t) ==
    /\ pc[t] = "store"
    /\ lastUnknownKidRefresh' = read[t]
    /\ attemptAt' = [attemptAt EXCEPT ![t] = read[t]]
    /\ EnterRefresh(t, TRUE)
    /\ UNCHANGED <<env, keys, fetchedAt, succeededAt>>

Retry(t) ==
    /\ pc[t] = "retry"
    /\ Finish(t, IF kid[t] \in keys THEN "key" ELSE "unknown_kid")
    /\ UNCHANGED <<env, cache, history>>

\* What a call in progress does next; a thread never waits for another one.
Step(t) ==
    \/ CheckExpiry(t)
    \/ CompareAge(t)
    \/ FetchAnswered(t)
    \/ FetchedNothingUsable(t)
    \/ FetchFailed(t)
    \/ InstallKeys(t)
    \/ ReadStampTime(t)
    \/ StampFetchedAt(t)
    \/ Lookup(t)
    \/ CheckRateLimit(t)
    \/ CompareInterval(t)
    \/ ReadAttemptTime(t)
    \/ RecordAttempt(t)
    \/ Retry(t)

Next ==
    \/ Tick
    \/ \E S \in Document : Publish(S)
    \/ \E t \in Thread :
          \/ \E k \in TokenKid : Begin(t, k)
          \/ BeginWithoutKid(t)
          \/ Step(t)

Spec == Init /\ [][Next]_vars

\* A thread in a call is scheduled, and its fetch ends (answer, error or
\* timeout).  The second half is an assumption on the provider too: the timeout
\* of opener.open bounds each socket operation and not the whole answer, so a
\* provider that sends one byte now and then holds its caller beyond it.  Callers
\* and clock owe nothing.
LiveSpec == Spec /\ \A t \in Thread : WF_vars(Step(t))

-----------------------------------------------------------------------------
(* Properties *)

\* The provider published k at some moment less than `window` before `at`.
PublishedWithin(k, window, at) ==
    \/ k \in published
    \/ withdrawnAt[k] # Never /\ at < withdrawnAt[k] + window

\* A document is at most FetchLatency old when it is installed; the stamp that
\* vouches for it may be another thread's, FetchLatency later still.
TrustWindow == Ttl + 2 * FetchLatency

\* A key the provider has withdrawn stops being accepted: a call that returns a
\* key was made less than TrustWindow after the provider last published it.
\* The time to live is counted from _fetched_at, which is written after the
\* document was served and, when two refreshes overlap, by the refresh that did
\* not write _keys; so the bound is not the time to live alone.
BoundedStaleness ==
    \A t \in Thread : outcome[t] = "key" => PublishedWithin(kid[t], TrustWindow, since[t])

\* Fail closed (test_expired_cache_with_failing_fetch_fails_closed): a call that
\* returns a key was made less than one time to live after the end of some
\* successful fetch, however many fetches failed, whichever thread made them, and
\* even where an older stamp is stored over a newer one.
FailClosed ==
    \A t \in Thread :
        outcome[t] = "key" => succeededAt # Never /\ since[t] < succeededAt + Ttl

\* A cache that may answer without fetching holds keys: no interleaving of two
\* refreshes lets the stamp be seen without the key set it vouches for.
StampVouchesForKeys == fetchedAt # Never => keys # {}

\* What the rate limiter achieves when threads share it: two unknown-kid
\* refreshes of the SAME thread are MinRefreshInterval apart, less the time a
\* thread may take from reading the clock to storing what it read (jwks.py:155),
\* for another thread may store an older time over the one it recorded.  A process
\* with n threads fetches at most n times in such an interval.
AttemptSpacing ==
    [][\A t \in Thread :
          pc[t] = "store" /\ pc'[t] = "fetch" /\ attemptAt[t] # Never
              => read[t] + StoreDelay >= attemptAt[t] + MinRefreshInterval]_vars

\* What ADR-0063 says it achieves: at most one unknown-kid refresh per
\* MinRefreshInterval in the process.  Two threads that both pass
\* _rate_limited() before either records its attempt break it.
OneRefreshPerWindow ==
    [][\A t \in Thread :
          pc[t] = "store" /\ pc'[t] = "fetch" => ~RateLimitedAt(now)]_vars

\* No call is held up by another: there is no lock and no queue, so a call
\* whose own fetch ends, ends.
CallsEnd == \A t \in Thread : pc[t] # "idle" ~> pc[t] = "idle"

\* The cache implements KeyTrust: hits, refreshes, failures and rate limiting
\* are ways to trust or to refuse a key.
Verdict ==
    [t \in Thread |->
        CASE pc[t] # "idle" -> "pending"
          [] pc[t] = "idle" /\ outcome[t] = "none" -> "none"
          [] pc[t] = "idle" /\ outcome[t] = "key" -> "trust"
          [] OTHER -> "refuse"]

Trust == INSTANCE KeyTrust WITH verdict <- Verdict

ImplementsKeyTrust == Trust!Spec

-----------------------------------------------------------------------------
(* The inductive invariant behind BoundedStaleness, FailClosed,            *)
(* StampVouchesForKeys and AttemptSpacing.                                 *)

\* The provider published k at time at - window or later.
SeenWithin(k, window, at) ==
    \/ k \in published
    \/ withdrawnAt[k] # Never /\ at <= withdrawnAt[k] + window

\* Recorded times are in the past.
Causal ==
    /\ fetchedAt # Never => succeededAt # Never /\ fetchedAt <= succeededAt
    /\ succeededAt # Never => succeededAt <= now
    /\ \A k \in Kid : withdrawnAt[k] # Never => withdrawnAt[k] <= now
    /\ \A t \in Thread :
          /\ since[t] <= now
          /\ started[t] <= now
          /\ read[t] <= now
          /\ attemptAt[t] # Never => attemptAt[t] <= now

\* The clock that a thread is about to use was read after it was called, and the
\* one it is about to store, StoreDelay ago at most.
ReadInTime ==
    \A t \in Thread :
        /\ pc[t] = "age" => fetchedAt # Never /\ since[t] <= read[t]
        /\ pc[t] = "interval" => lastUnknownKidRefresh # Never
        /\ pc[t] = "stamp" => succeededAt # Never /\ since[t] <= read[t] /\ read[t] <= succeededAt
        /\ pc[t] = "store" => now <= read[t] + StoreDelay

\* A refresh in progress is no older than FetchLatency and belongs to a call made
\* before it, and what it is about to install was published after it began.
RefreshInTime ==
    \A t \in Thread :
        /\ pc[t] \in Refreshing => since[t] <= started[t] /\ now <= started[t] + FetchLatency
        /\ pc[t] = "install" =>
              /\ doc[t] # {}
              /\ \A k \in doc[t] : SeenWithin(k, 0, started[t])

\* Whoever is about to stamp, the installed keys (its own, or those of a
\* refresh that installed after it) were published FetchLatency before that
\* thread's refresh began, or later.
StampInTime ==
    \A t \in Thread :
        pc[t] \in {"clock", "stamp"} =>
            /\ keys # {}
            /\ \A k \in keys : SeenWithin(k, FetchLatency, started[t])

\* What the stamp vouches for.
KeysVouched ==
    fetchedAt # Never =>
        /\ keys # {}
        /\ \A k \in keys : SeenWithin(k, 2 * FetchLatency, fetchedAt)

\* A thread that may return a key has seen a stamp that was fresh when it was
\* called, and whatever _keys holds by now was published inside the window.
ExpiryChecked ==
    \A t \in Thread :
        pc[t] \in Answering =>
            /\ succeededAt # Never
            /\ since[t] < succeededAt + Ttl
            /\ \A k \in keys : PublishedWithin(k, TrustWindow, since[t])

\* The recorded time covers every thread's own last attempt, up to StoreDelay.
AttemptsCovered ==
    \A t \in Thread :
        attemptAt[t] # Never =>
            /\ lastUnknownKidRefresh # Never
            /\ attemptAt[t] <= lastUnknownKidRefresh + StoreDelay
            /\ pc[t] = "record" => now + StoreDelay >= attemptAt[t] + MinRefreshInterval
            /\ pc[t] = "store" => read[t] + StoreDelay >= attemptAt[t] + MinRefreshInterval

CacheInv ==
    /\ Causal
    /\ ReadInTime
    /\ RefreshInTime
    /\ StampInTime
    /\ KeysVouched
    /\ ExpiryChecked
    /\ AttemptsCovered
    /\ BoundedStaleness
    /\ FailClosed
=============================================================================
