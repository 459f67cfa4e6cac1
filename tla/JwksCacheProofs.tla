-------------------------- MODULE JwksCacheProofs --------------------------
(***************************************************************************)
(* What JwksCache guarantees for every set of threads and kids, every time *)
(* to live, rate-limit interval and fetch latency.  The invariants rest on *)
(* CacheInv, which is inductive relative to TypeOK.                        *)
(***************************************************************************)
EXTENDS JwksCache, TLAPS

USE KidAssumption, NeverAssumption, TimeAssumption

\* Every variable of the cache keeps its type; in particular only entries that
\* PyJWK can parse ever enter _keys.
THEOREM TypeCorrect == Spec => []TypeOK
<1>1. Init => TypeOK
  BY DEF Init, TypeOK, Stage, Outcome
<1>2. TypeOK /\ [Next]_vars => TypeOK'
  <2> SUFFICES ASSUME TypeOK, [Next]_vars PROVE TypeOK'
    OBVIOUS
  <2> USE DEF TypeOK, Stage, Outcome, Goto, GoOn, ReadClock, EnterRefresh, Finish, cache,
      history
  <2>1. CASE Tick
    BY <2>1 DEF Tick, call
  <2>2. ASSUME NEW S \in Document, Publish(S) PROVE TypeOK'
    <3>1. published' \in SUBSET Kid /\ withdrawnAt' \in [Kid -> Nat \cup {Never}]
      BY <2>2 DEF Publish
    <3>2. rotations' \in 0..MaxRotations
      BY <2>2 DEF Publish
    <3>3. QED
      BY <2>2, <3>1, <3>2 DEF Publish, call
  <2>3. ASSUME NEW t \in Thread, NEW k \in TokenKid, Begin(t, k) PROVE TypeOK'
    BY <2>3 DEF Begin, env
  <2>4. ASSUME NEW t \in Thread, BeginWithoutKid(t) PROVE TypeOK'
    BY <2>4 DEF BeginWithoutKid, env
  <2>5. ASSUME NEW t \in Thread, CheckExpiry(t) PROVE TypeOK'
    <3>1. CASE fetchedAt = Never
      <4>1. EnterRefresh(t, FALSE) /\ UNCHANGED <<env, cache, history>>
        BY <2>5, <3>1 DEF CheckExpiry
      <4>2. QED
        BY <4>1 DEF env
    <3>2. CASE fetchedAt # Never
      <4>1. ReadClock(t, "age") /\ UNCHANGED <<env, cache, history>>
        BY <2>5, <3>2 DEF CheckExpiry
      <4>2. QED
        BY <4>1 DEF env
    <3>3. QED
      BY <3>1, <3>2
  <2>6. ASSUME NEW t \in Thread, CompareAge(t) PROVE TypeOK'
    <3>1. CASE read[t] >= fetchedAt + Ttl
      <4>1. EnterRefresh(t, FALSE) /\ UNCHANGED <<env, cache, history>>
        BY <2>6, <3>1 DEF CompareAge
      <4>2. QED
        BY <4>1 DEF env
    <3>2. CASE ~(read[t] >= fetchedAt + Ttl)
      <4>1. GoOn(t, "lookup") /\ UNCHANGED <<env, cache, history>>
        BY <2>6, <3>2 DEF CompareAge
      <4>2. QED
        BY <4>1 DEF env
    <3>3. QED
      BY <3>1, <3>2
  <2>7. ASSUME NEW t \in Thread, FetchAnswered(t) PROVE TypeOK'
    BY <2>7 DEF FetchAnswered, env
  <2>8. ASSUME NEW t \in Thread, FetchedNothingUsable(t) PROVE TypeOK'
    BY <2>8 DEF FetchedNothingUsable, env
  <2>9. ASSUME NEW t \in Thread, FetchFailed(t) PROVE TypeOK'
    BY <2>9 DEF FetchFailed, env
  <2>10. ASSUME NEW t \in Thread, InstallKeys(t) PROVE TypeOK'
    BY <2>10 DEF InstallKeys, env
  <2>11. ASSUME NEW t \in Thread, ReadStampTime(t) PROVE TypeOK'
    BY <2>11 DEF ReadStampTime, env
  <2>12. ASSUME NEW t \in Thread, StampFetchedAt(t) PROVE TypeOK'
    BY <2>12 DEF StampFetchedAt, env
  <2>13. ASSUME NEW t \in Thread, Lookup(t) PROVE TypeOK'
    <3>1. CASE kid[t] \in keys
      <4>1. Finish(t, "key") /\ UNCHANGED <<env, cache, history>>
        BY <2>13, <3>1 DEF Lookup
      <4>2. QED
        BY <4>1 DEF env
    <3>2. CASE kid[t] \notin keys
      <4>1. GoOn(t, "limit") /\ UNCHANGED <<env, cache, history>>
        BY <2>13, <3>2 DEF Lookup
      <4>2. QED
        BY <4>1 DEF env
    <3>3. QED
      BY <3>1, <3>2
  <2>14. ASSUME NEW t \in Thread, CheckRateLimit(t) PROVE TypeOK'
    <3>1. CASE lastUnknownKidRefresh = Never
      <4>1. GoOn(t, "record") /\ UNCHANGED <<env, cache, history>>
        BY <2>14, <3>1 DEF CheckRateLimit
      <4>2. QED
        BY <4>1 DEF env
    <3>2. CASE lastUnknownKidRefresh # Never
      <4>1. ReadClock(t, "interval") /\ UNCHANGED <<env, cache, history>>
        BY <2>14, <3>2 DEF CheckRateLimit
      <4>2. QED
        BY <4>1 DEF env
    <3>3. QED
      BY <3>1, <3>2
  <2>15. ASSUME NEW t \in Thread, CompareInterval(t) PROVE TypeOK'
    <3>1. CASE RateLimitedAt(read[t])
      <4>1. Finish(t, "unknown_kid_rate_limited") /\ UNCHANGED <<env, cache, history>>
        BY <2>15, <3>1 DEF CompareInterval
      <4>2. QED
        BY <4>1 DEF env
    <3>2. CASE ~RateLimitedAt(read[t])
      <4>1. GoOn(t, "record") /\ UNCHANGED <<env, cache, history>>
        BY <2>15, <3>2 DEF CompareInterval
      <4>2. QED
        BY <4>1 DEF env
    <3>3. QED
      BY <3>1, <3>2
  <2>16. ASSUME NEW t \in Thread, ReadAttemptTime(t) PROVE TypeOK'
    BY <2>16 DEF ReadAttemptTime, env
  <2>17. ASSUME NEW t \in Thread, RecordAttempt(t) PROVE TypeOK'
    BY <2>17 DEF RecordAttempt, env
  <2>18. ASSUME NEW t \in Thread, Retry(t) PROVE TypeOK'
    BY <2>18 DEF Retry, env
  <2>19. CASE UNCHANGED vars
    BY <2>19 DEF vars, env, call
  <2>20. QED
    BY <2>1, <2>2, <2>3, <2>4, <2>5, <2>6, <2>7, <2>8, <2>9, <2>10, <2>11, <2>12, <2>13,
       <2>14, <2>15, <2>16, <2>17, <2>18, <2>19 DEF Next, Step
<1>3. QED
  BY <1>1, <1>2, PTL DEF Spec

\* CacheInv is inductive relative to TypeOK.
LEMMA CacheInvInductive == TypeOK /\ CacheInv /\ [Next]_vars => CacheInv'
<1> SUFFICES ASSUME TypeOK, CacheInv, [Next]_vars PROVE CacheInv'
  OBVIOUS
<1> USE DEF TypeOK
<1>1. CASE Tick
  BY <1>1 DEF CacheInv, Causal, ReadInTime, RefreshInTime, Refreshing, SeenWithin,
     StampInTime, KeysVouched, ExpiryChecked, Answering, AttemptsCovered,
     BoundedStaleness, PublishedWithin, TrustWindow, FailClosed, Tick, cache, call,
     history
<1>2. ASSUME NEW S \in Document, Publish(S) PROVE CacheInv'
  <2>1. ASSUME NEW k \in Kid, NEW window \in Nat, NEW at \in Nat, at <= now,
                SeenWithin(k, window, at)
         PROVE  SeenWithin(k, window, at)'
    BY <1>2, <2>1 DEF SeenWithin, Publish
  <2>2. ASSUME NEW k \in Kid, NEW at \in Nat, at <= now, PublishedWithin(k, TrustWindow, at)
         PROVE  PublishedWithin(k, TrustWindow, at)'
    BY <1>2, <2>2 DEF PublishedWithin, TrustWindow, Publish
  <2>3. UNCHANGED <<now, cache, call, history>>
    BY <1>2 DEF Publish
  <2> USE DEF cache, call, history
  <2>4. RefreshInTime'
    BY <2>1, <2>3 DEF CacheInv, Causal, RefreshInTime, Refreshing
  <2>5. StampInTime'
    BY <2>1, <2>3 DEF CacheInv, Causal, StampInTime
  <2>6. KeysVouched'
    <3>1. fetchedAt # Never => fetchedAt <= now
      BY DEF CacheInv, Causal
    <3>2. QED
      BY <2>1, <2>3, <3>1 DEF CacheInv, KeysVouched
  <2>7. (ExpiryChecked /\ BoundedStaleness)'
    BY <2>2, <2>3 DEF CacheInv, Causal, ExpiryChecked, BoundedStaleness, TrustWindow
  <2>8. (Causal /\ ReadInTime /\ AttemptsCovered /\ FailClosed)'
    BY <1>2, <2>3 DEF CacheInv, Causal, ReadInTime, AttemptsCovered, FailClosed, Publish
  <2>9. QED
    BY <2>4, <2>5, <2>6, <2>7, <2>8 DEF CacheInv
<1>3. ASSUME NEW t \in Thread, NEW k \in TokenKid, Begin(t, k) PROVE CacheInv'
  BY <1>3 DEF CacheInv, Causal, ReadInTime, RefreshInTime, Refreshing, SeenWithin,
     StampInTime, KeysVouched, ExpiryChecked, Answering, AttemptsCovered,
     BoundedStaleness, PublishedWithin, TrustWindow, FailClosed, Begin, Goto, env,
     cache, history
<1>4. ASSUME NEW t \in Thread, BeginWithoutKid(t) PROVE CacheInv'
  BY <1>4 DEF CacheInv, Causal, ReadInTime, RefreshInTime, Refreshing, SeenWithin,
     StampInTime, KeysVouched, ExpiryChecked, Answering, AttemptsCovered,
     BoundedStaleness, PublishedWithin, TrustWindow, FailClosed, BeginWithoutKid, env,
     cache, history
<1>5. ASSUME NEW t \in Thread, CheckExpiry(t) PROVE CacheInv'
  BY <1>5 DEF CacheInv, Causal, ReadInTime, RefreshInTime, Refreshing, SeenWithin,
     StampInTime, KeysVouched, ExpiryChecked, Answering, AttemptsCovered,
     BoundedStaleness, PublishedWithin, TrustWindow, FailClosed, CheckExpiry, ReadClock,
     EnterRefresh, Goto, env, cache, history
<1>6. ASSUME NEW t \in Thread, CompareAge(t) PROVE CacheInv'
  BY <1>6 DEF CacheInv, Causal, ReadInTime, RefreshInTime, Refreshing, SeenWithin,
     StampInTime, KeysVouched, ExpiryChecked, Answering, AttemptsCovered,
     BoundedStaleness, PublishedWithin, TrustWindow, FailClosed, CompareAge, GoOn,
     EnterRefresh, Goto, env, cache, history
<1>7. ASSUME NEW t \in Thread, FetchAnswered(t) PROVE CacheInv'
  BY <1>7 DEF CacheInv, Causal, ReadInTime, RefreshInTime, Refreshing, SeenWithin,
     StampInTime, KeysVouched, ExpiryChecked, Answering, AttemptsCovered,
     BoundedStaleness, PublishedWithin, TrustWindow, FailClosed, FetchAnswered, Goto,
     env, cache, history
<1>8. ASSUME NEW t \in Thread, FetchedNothingUsable(t) PROVE CacheInv'
  BY <1>8 DEF CacheInv, Causal, ReadInTime, RefreshInTime, Refreshing, SeenWithin,
     StampInTime, KeysVouched, ExpiryChecked, Answering, AttemptsCovered,
     BoundedStaleness, PublishedWithin, TrustWindow, FailClosed, FetchedNothingUsable,
     Finish, Goto, env, cache, history
<1>9. ASSUME NEW t \in Thread, FetchFailed(t) PROVE CacheInv'
  BY <1>9 DEF CacheInv, Causal, ReadInTime, RefreshInTime, Refreshing, SeenWithin,
     StampInTime, KeysVouched, ExpiryChecked, Answering, AttemptsCovered,
     BoundedStaleness, PublishedWithin, TrustWindow, FailClosed, FetchFailed, Finish,
     Goto, env, cache, history
<1>10. ASSUME NEW t \in Thread, InstallKeys(t) PROVE CacheInv'
  <2>1. /\ doc[t] # {}
        /\ now <= started[t] + FetchLatency
        /\ since[t] <= started[t]
        /\ \A k \in doc[t] : SeenWithin(k, 0, started[t])
    BY <1>10 DEF InstallKeys, CacheInv, RefreshInTime, Refreshing
  <2>2. \A k \in doc[t], at \in Nat : at <= now => SeenWithin(k, FetchLatency, at)
    BY <2>1 DEF SeenWithin
  <2>3. /\ keys' = doc[t]
        /\ pc'[t] = "clock"
        /\ \A u \in Thread \ {t} : pc'[u] = pc[u]
        /\ UNCHANGED <<env, fetchedAt, since, started, history>>
    BY <1>10 DEF InstallKeys, GoOn, Goto
  <2>4. \A k \in doc[t], window, at \in Nat : SeenWithin(k, window, at)' <=> SeenWithin(k, window, at)
    BY <2>3 DEF SeenWithin, env
  <2>5. StampInTime'
    BY <2>1, <2>2, <2>3, <2>4 DEF CacheInv, Causal, StampInTime
  <2>6. KeysVouched'
    <3>1. fetchedAt # Never => \A k \in doc[t] : SeenWithin(k, 2 * FetchLatency, fetchedAt)
      BY <2>2 DEF CacheInv, Causal, SeenWithin
    <3>2. QED
      BY <2>1, <2>3, <2>4, <3>1 DEF KeysVouched
  <2>7. ExpiryChecked'
    <3>1. \A u \in Thread, k \in doc[t] : PublishedWithin(k, TrustWindow, since[u])
      BY <2>2 DEF CacheInv, Causal, SeenWithin, PublishedWithin, TrustWindow
    <3>2. QED
      BY <2>3, <3>1 DEF CacheInv, ExpiryChecked, Answering, PublishedWithin, env,
         history
  <2>8. (Causal /\ ReadInTime /\ RefreshInTime /\ AttemptsCovered /\ BoundedStaleness
           /\ FailClosed)'
    BY <1>10 DEF CacheInv, Causal, ReadInTime, RefreshInTime, Refreshing, SeenWithin,
       AttemptsCovered, BoundedStaleness, PublishedWithin, TrustWindow, FailClosed,
       InstallKeys, GoOn, Goto, env, history
  <2>9. QED
    BY <2>5, <2>6, <2>7, <2>8 DEF CacheInv
<1>11. ASSUME NEW t \in Thread, ReadStampTime(t) PROVE CacheInv'
  BY <1>11 DEF CacheInv, Causal, ReadInTime, RefreshInTime, Refreshing, SeenWithin,
     StampInTime, KeysVouched, ExpiryChecked, Answering, AttemptsCovered,
     BoundedStaleness, PublishedWithin, TrustWindow, FailClosed, ReadStampTime,
     ReadClock, Goto, env, cache, history
<1>12. ASSUME NEW t \in Thread, StampFetchedAt(t) PROVE CacheInv'
  BY <1>12 DEF CacheInv, Causal, ReadInTime, RefreshInTime, Refreshing, SeenWithin,
     StampInTime, KeysVouched, ExpiryChecked, Answering, AttemptsCovered,
     BoundedStaleness, PublishedWithin, TrustWindow, FailClosed, StampFetchedAt, Goto,
     env, cache, history
<1>13. ASSUME NEW t \in Thread, Lookup(t) PROVE CacheInv'
  BY <1>13 DEF CacheInv, Causal, ReadInTime, RefreshInTime, Refreshing, SeenWithin,
     StampInTime, KeysVouched, ExpiryChecked, Answering, AttemptsCovered,
     BoundedStaleness, PublishedWithin, TrustWindow, FailClosed, Lookup, GoOn, Finish,
     Goto, env, cache, history
<1>14. ASSUME NEW t \in Thread, CheckRateLimit(t) PROVE CacheInv'
  <2>1. CASE lastUnknownKidRefresh = Never
    <3>1. GoOn(t, "record") /\ UNCHANGED <<env, cache, history>>
      BY <1>14, <2>1 DEF CheckRateLimit
    <3>2. \A u \in Thread : attemptAt[u] = Never
      BY <2>1 DEF CacheInv, AttemptsCovered
    <3>3. QED
      BY <1>14, <3>1, <3>2 DEF CheckRateLimit, CacheInv, Causal, ReadInTime,
         RefreshInTime, Refreshing, SeenWithin, StampInTime, KeysVouched, ExpiryChecked,
         Answering, AttemptsCovered, BoundedStaleness, PublishedWithin, TrustWindow,
         FailClosed, GoOn, Goto, env, cache, history
  <2>2. CASE lastUnknownKidRefresh # Never
    <3>1. ReadClock(t, "interval") /\ UNCHANGED <<env, cache, history>>
      BY <1>14, <2>2 DEF CheckRateLimit
    <3>2. QED
      BY <1>14, <2>2, <3>1 DEF CheckRateLimit, CacheInv, Causal, ReadInTime,
         RefreshInTime, Refreshing, SeenWithin, StampInTime, KeysVouched, ExpiryChecked,
         Answering, AttemptsCovered, BoundedStaleness, PublishedWithin, TrustWindow,
         FailClosed, ReadClock, Goto, env, cache, history
  <2>3. QED
    BY <2>1, <2>2
<1>15. ASSUME NEW t \in Thread, CompareInterval(t) PROVE CacheInv'
  <2>1. CASE RateLimitedAt(read[t])
    <3>1. Finish(t, "unknown_kid_rate_limited") /\ UNCHANGED <<env, cache, history>>
      BY <1>15, <2>1 DEF CompareInterval
    <3>2. QED
      BY <3>1 DEF CacheInv, Causal, ReadInTime, RefreshInTime, Refreshing, SeenWithin,
         StampInTime, KeysVouched, ExpiryChecked, Answering, AttemptsCovered,
         BoundedStaleness, PublishedWithin, TrustWindow, FailClosed, Finish, Goto, env,
         cache, history
  <2>2. CASE ~RateLimitedAt(read[t])
    <3>1. GoOn(t, "record") /\ UNCHANGED <<env, cache, history>>
      BY <1>15, <2>2 DEF CompareInterval
    <3>2. attemptAt[t] # Never => now + StoreDelay >= attemptAt[t] + MinRefreshInterval
      BY <1>15, <2>2 DEF CompareInterval, RateLimitedAt, CacheInv, Causal,
         AttemptsCovered
    <3>3. AttemptsCovered'
      BY <1>15, <3>1, <3>2 DEF CacheInv, AttemptsCovered, GoOn, Goto, CompareInterval,
         env, cache, history
    <3>4. (Causal /\ ReadInTime /\ RefreshInTime /\ StampInTime /\ KeysVouched /\ ExpiryChecked
             /\ BoundedStaleness /\ FailClosed)'
      BY <1>15, <3>1 DEF CompareInterval, CacheInv, Causal, ReadInTime, RefreshInTime,
         Refreshing, SeenWithin, StampInTime, KeysVouched, ExpiryChecked, Answering,
         AttemptsCovered, BoundedStaleness, PublishedWithin, TrustWindow, FailClosed,
         GoOn, Goto, env, cache, history
    <3>5. QED
      BY <3>3, <3>4 DEF CacheInv
  <2>3. QED
    BY <2>1, <2>2
<1>16. ASSUME NEW t \in Thread, ReadAttemptTime(t) PROVE CacheInv'
  BY <1>16 DEF CacheInv, Causal, ReadInTime, RefreshInTime, Refreshing, SeenWithin,
     StampInTime, KeysVouched, ExpiryChecked, Answering, AttemptsCovered,
     BoundedStaleness, PublishedWithin, TrustWindow, FailClosed, ReadAttemptTime,
     ReadClock, Goto, env, cache, history
<1>17. ASSUME NEW t \in Thread, RecordAttempt(t) PROVE CacheInv'
  BY <1>17 DEF CacheInv, Causal, ReadInTime, RefreshInTime, Refreshing, SeenWithin,
     StampInTime, KeysVouched, ExpiryChecked, Answering, AttemptsCovered,
     BoundedStaleness, PublishedWithin, TrustWindow, FailClosed, RecordAttempt,
     EnterRefresh, Goto, env, cache, history
<1>18. ASSUME NEW t \in Thread, Retry(t) PROVE CacheInv'
  BY <1>18 DEF CacheInv, Causal, ReadInTime, RefreshInTime, Refreshing, SeenWithin,
     StampInTime, KeysVouched, ExpiryChecked, Answering, AttemptsCovered,
     BoundedStaleness, PublishedWithin, TrustWindow, FailClosed, Retry, Finish, Goto,
     env, cache, history
<1>19. CASE UNCHANGED vars
  BY <1>19 DEF CacheInv, Causal, ReadInTime, RefreshInTime, Refreshing, SeenWithin,
     StampInTime, KeysVouched, ExpiryChecked, Answering, AttemptsCovered,
     BoundedStaleness, PublishedWithin, TrustWindow, FailClosed, vars, env, cache, call,
     history
<1>20. QED
  BY <1>1, <1>2, <1>3, <1>4, <1>5, <1>6, <1>7, <1>8, <1>9, <1>10, <1>11, <1>12, <1>13,
     <1>14, <1>15, <1>16, <1>17, <1>18, <1>19 DEF Next, Step

\* CacheInv holds in every reachable state.
THEOREM CacheInvariant == Spec => []CacheInv
<1>1. Init => CacheInv
  BY DEF Init, CacheInv, Causal, ReadInTime, RefreshInTime, Refreshing, StampInTime,
     KeysVouched, ExpiryChecked, Answering, AttemptsCovered, BoundedStaleness,
     FailClosed
<1>2. QED
  BY <1>1, CacheInvInductive, TypeCorrect, PTL DEF Spec

\* get_key never returns a key the provider withdrew TrustWindow or more before
\* the call, for any number of threads refreshing at once.
THEOREM StalenessIsBounded == Spec => []BoundedStaleness
<1>1. CacheInv => BoundedStaleness
  BY DEF CacheInv
<1>2. QED
  BY <1>1, CacheInvariant, PTL

\* get_key returns a key only on the strength of a fetch that succeeded less than
\* one time to live before the call.
THEOREM CacheFailsClosed == Spec => []FailClosed
<1>1. CacheInv => FailClosed
  BY DEF CacheInv
<1>2. QED
  BY <1>1, CacheInvariant, PTL

\* _fetched_at is never set while _keys is empty.
THEOREM StampNeverAlone == Spec => []StampVouchesForKeys
<1>1. CacheInv => StampVouchesForKeys
  BY DEF CacheInv, KeysVouched, StampVouchesForKeys
<1>2. QED
  BY <1>1, CacheInvariant, PTL

\* The same thread's unknown-kid refreshes are MinRefreshInterval apart.
THEOREM AttemptsAreSpaced == Spec => AttemptSpacing
<1>1. CacheInv /\ [Next]_vars =>
        [\A t \in Thread :
            pc[t] = "store" /\ pc'[t] = "fetch" /\ attemptAt[t] # Never
                => read[t] + StoreDelay >= attemptAt[t] + MinRefreshInterval]_vars
  BY DEF CacheInv, AttemptsCovered
<1>2. QED
  BY <1>1, CacheInvariant, PTL DEF Spec, AttemptSpacing

-----------------------------------------------------------------------------
(* The cache implements KeyTrust *)

\* A step that keeps t in its call, or keeps it out of one, keeps its verdict.
LEMMA SilentStep ==
    ASSUME TypeOK, NEW t \in Thread, NEW stage \in Stage \ {"idle"}, pc[t] # "idle",
           Goto(t, stage), UNCHANGED <<env, kid, since, outcome>>
    PROVE  UNCHANGED Trust!vars
<1>1. \A u \in Thread : (pc'[u] = "idle") <=> (pc[u] = "idle")
  BY DEF Goto, TypeOK
<1>2. \A u \in Thread : outcome'[u] = outcome[u]
  OBVIOUS
<1>3. Verdict' = Verdict
  BY <1>1, <1>2 DEF Verdict
<1>4. QED
  BY <1>3 DEF Trust!vars, env

\* A call that ends with a key is told to trust it; any other end is a refusal.
LEMMA FinishStep ==
    ASSUME TypeOK, CacheInv, NEW t \in Thread, NEW o \in Outcome \ {"none"},
           pc[t] # "idle", Finish(t, o), UNCHANGED env,
           o = "key" => PublishedWithin(kid[t], TrustWindow, since[t])
    PROVE  Trust!TrustKey(t) \/ Trust!Refuse(t)
<1>1. Verdict[t] = "pending"
  BY DEF Verdict
<1>2. \A u \in Thread \ {t} : pc'[u] = pc[u] /\ outcome'[u] = outcome[u]
  BY DEF Finish, Goto, TypeOK
<1>3. pc'[t] = "idle" /\ outcome'[t] = o
  BY DEF Finish, Goto, TypeOK
<1>4. CASE o = "key"
  <2>1. Verdict' = [Verdict EXCEPT ![t] = "trust"]
    BY <1>2, <1>3, <1>4 DEF Verdict
  <2>2. QED
    BY <1>1, <1>4, <2>1 DEF Trust!TrustKey, Trust!PublishedWithin, PublishedWithin,
       Finish, env
<1>5. CASE o # "key"
  <2>1. Verdict' = [Verdict EXCEPT ![t] = "refuse"]
    BY <1>2, <1>3, <1>5 DEF Verdict, Outcome
  <2>2. QED
    BY <1>5, <2>1 DEF Trust!Refuse, Finish, env
<1>6. QED
  BY <1>4, <1>5

\* What a lookup finds was published inside the window of the call.
LEMMA HitIsFresh ==
    ASSUME TypeOK, CacheInv, NEW t \in Thread, pc[t] \in {"lookup", "retry"}, kid[t] \in keys
    PROVE  PublishedWithin(kid[t], TrustWindow, since[t])
  BY DEF CacheInv, ExpiryChecked, Answering

LEMMA StepRefines ==
    ASSUME TypeOK, CacheInv, NEW t \in Thread, Step(t)
    PROVE  Trust!TrustKey(t) \/ Trust!Refuse(t) \/ UNCHANGED Trust!vars
<1> USE DEF GoOn, ReadClock, EnterRefresh, Stage
<1>1. CASE CheckExpiry(t)
  BY <1>1, SilentStep DEF CheckExpiry
<1>2. CASE CompareAge(t)
  BY <1>2, SilentStep DEF CompareAge
<1>3. CASE FetchAnswered(t)
  BY <1>3, SilentStep DEF FetchAnswered
<1>4. CASE FetchedNothingUsable(t)
  BY <1>4, FinishStep DEF FetchedNothingUsable, Outcome
<1>5. CASE FetchFailed(t)
  BY <1>5, FinishStep DEF FetchFailed, Outcome
<1>6. CASE InstallKeys(t)
  BY <1>6, SilentStep DEF InstallKeys
<1>7. CASE ReadStampTime(t)
  BY <1>7, SilentStep DEF ReadStampTime
<1>8. CASE StampFetchedAt(t)
  BY <1>8, SilentStep DEF StampFetchedAt
<1>9. CASE Lookup(t)
  BY <1>9, SilentStep, FinishStep, HitIsFresh DEF Lookup, Outcome
<1>10. CASE CheckRateLimit(t)
  BY <1>10, SilentStep DEF CheckRateLimit
<1>11. CASE CompareInterval(t)
  BY <1>11, SilentStep, FinishStep DEF CompareInterval, Outcome
<1>12. CASE ReadAttemptTime(t)
  BY <1>12, SilentStep DEF ReadAttemptTime
<1>13. CASE RecordAttempt(t)
  BY <1>13, SilentStep DEF RecordAttempt
<1>14. CASE Retry(t)
  <2>1. CASE kid[t] \in keys
    BY <1>14, <2>1, FinishStep, HitIsFresh DEF Retry, Outcome
  <2>2. CASE kid[t] \notin keys
    BY <1>14, <2>2, FinishStep DEF Retry, Outcome
  <2>3. QED
    BY <2>1, <2>2
<1>15. QED
  BY <1>1, <1>2, <1>3, <1>4, <1>5, <1>6, <1>7, <1>8, <1>9, <1>10, <1>11, <1>12, <1>13,
     <1>14 DEF Step

\* Every behaviour of the cache is a behaviour of KeyTrust: whatever the threads,
\* the provider and the clock do, a key is trusted only inside the window.
THEOREM CacheImplementsKeyTrust == Spec => ImplementsKeyTrust
<1>1. Init => Trust!Init
  BY DEF Init, Trust!Init, Verdict
<1>2. TypeOK /\ CacheInv /\ [Next]_vars => [Trust!Next]_(Trust!vars)
  <2> SUFFICES ASSUME TypeOK, CacheInv, [Next]_vars PROVE [Trust!Next]_(Trust!vars)
    OBVIOUS
  <2>1. CASE Tick
    BY <2>1 DEF Tick, call, Trust!Next, Trust!Tick, Verdict
  <2>2. ASSUME NEW S \in Document, Publish(S) PROVE Trust!Next
    BY <2>2 DEF Publish, call, Trust!Next, Trust!Publish, Verdict
  <2>3. ASSUME NEW t \in Thread, NEW k \in TokenKid, Begin(t, k) PROVE Trust!Next
    <3>1. Verdict[t] # "pending"
      BY <2>3 DEF Begin, Verdict, TypeOK, Outcome
    <3>2. Verdict' = [Verdict EXCEPT ![t] = "pending"]
      BY <2>3 DEF Begin, Goto, Verdict, TypeOK
    <3>3. QED
      BY <2>3, <3>1, <3>2 DEF Begin, env, Trust!Next, Trust!Ask
  <2>4. ASSUME NEW t \in Thread, BeginWithoutKid(t) PROVE Trust!Next
    <3>1. Verdict' = [Verdict EXCEPT ![t] = "refuse"]
      BY <2>4 DEF BeginWithoutKid, Verdict, TypeOK
    <3>2. QED
      BY <2>4, <3>1 DEF BeginWithoutKid, env, Trust!Next, Trust!Refuse
  <2>5. ASSUME NEW t \in Thread, Step(t) PROVE [Trust!Next]_(Trust!vars)
    BY <2>5, StepRefines DEF Trust!Next
  <2>6. CASE UNCHANGED vars
    BY <2>6 DEF vars, env, call, Trust!vars, Verdict
  <2>7. QED
    BY <2>1, <2>2, <2>3, <2>4, <2>5, <2>6 DEF Next
<1>3. QED
  BY <1>1, <1>2, CacheInvariant, TypeCorrect, PTL DEF Spec, Trust!Spec,
     ImplementsKeyTrust
=============================================================================
