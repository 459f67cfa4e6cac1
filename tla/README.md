# Verification of Aaroh

TLA+ modules for the parts of Aaroh that carry its correctness arguments, TLC
configurations that check them on small instances, and TLAPS proofs of the
properties that must hold for every number of threads, connections, users and keys.
Paths are relative to the repository root.

    tlc -workers 2 -config jwks_safety.cfg JwksMC     # any run: see "Runs"
    tlapm JwksCacheProofs.tla                          # any module with theorems

`PROJECT.json` maps every definition to the lines it models, lists the runs, one
seeded mutant for each checked property, the hazards and the findings.

## 1. Inventory

Aaroh is a FastAPI backend (`backend/app`) over a Supabase/PostgreSQL schema
(`supabase/migrations`), beside an "AgentOS" (`runtime/`, `validation/`, `tools/`,
`.github/scripts`): a planner and refinement loop in Python, and the scripts that keep
the repository's governance.

A product request crosses these parts: the HTTP boundary parses the bearer header;
the verifier asks the JWKS cache for a key and turns the token into a
`VerifiedIdentity`; the handler reads the date, validates the payload, and opens
`request_transaction`, which borrows a connection from the pool, binds the identity
to one transaction, runs one statement under row-level security, commits and returns
the connection; the handler then builds the response. Handlers are synchronous, so
each request is a thread of FastAPI's pool, and requests share exactly three things:
the JWKS cache object, the connection pool, and the database.

The AgentOS tools are separate sequential programs that meet in the working tree.
`bootstrap_project.py` writes `PROJECT_CONFIG.yaml` and two context files; the harness
loads the context files that exist into its plans; `validate_agentos.py` grades all
three and everything else in the tree. The suite runs one harness and one loop per
scenario and writes a report each and a dashboard. The CI baseline check runs the
self-test, the suite and the validator as processes and concludes from what they
print. Nothing runs in parallel; what is hard is the sequence: a tool is killed
between two writes, the operator edits files or checks out another tree, and a later
tool finds what is there and draws conclusions from it.

| Component | State | Operations | What is hard | What makes it correct |
|---|---|---|---|---|
| JWKS cache `auth/jwks.py` | `_keys`, `_fetched_at`, `_last_unknown_kid_refresh`; no lock | `get_key`, `_refresh`, `_expired`, `_rate_limited` | threads interleave at every statement; a fetch takes time, fails, or answers with an old document; expiry and rate limit are read and acted upon in separate statements | a withdrawn key dies within a bounded time; no fetch, no answer; a stamp never vouches for keys it does not belong to; every call ends |
| Database session `db/session.py` | the pool; per connection: transaction, session settings, local settings | `build_pool`, `request_transaction` (check, claims, role, body, commit or rollback) | any statement fails; connections break and are replaced; connections are reused by other users; requests queue | a pooled connection carries no identity; a statement runs as its caller or not at all; one holder per connection; waiters are served |
| Student store `db/goals.py`, `db/dsa.py`, `db/snapshot.py`, the two routers, the migrations | `auth.users`, `preparation_goals`, `dsa_activities` | PUT/GET goal, POST/GET activities, snapshot as of an instant, account deletion | concurrent upserts of one row; `now()` is the start of the transaction; midnight during a request; a lost COMMIT; cascading deletion under running requests | acknowledged is durable; read your writes; no orphans; a replay reproduces; an accepted deadline is in the future in its answer |
| Snapshot builder `domain/snapshot.py` | accumulators of two loops | `snapshot_from_activities`, `snapshot_from_aggregates` | two implementations of one function, rows in any order, NULL minutes, topics that left the vocabulary | both paths agree; totals count every activity |
| Token verifier `auth/verifier.py`, `auth/identity.py`, `auth/config.py` | configuration only | `verify`, `_check_temporal`, `_check_role`, `_check_subject`, `_build` | clock skew at the edges; order of the checks | an identity exists only for a token whose every check passed |
| HTTP boundary `http/app.py`, `http/dependencies.py`, `http/errors.py`, `http/schemas.py` | `app.state` | `require_identity`, exception handlers, correlation id | which failure wins; which errors are translated | no handler without an identity; one answer for every refusal |
| Domain validation `domain/goals.py`, `domain/dsa.py` | none | `validate_goal`, `validate_activity`, `normalise_problem_ref` | bounds stated twice, in Python and in table CHECKs; lengths change under normalisation | whatever the domain accepts the table accepts |
| Agent loop `runtime/loop` | state history, iteration list, loop counter, start time | `execute_loop` | limits, target and stagnation are tested in an order; a second call continues the first one's counters | the loop ends within its mode's bound, and with the first score that meets its target |
| Harness `runtime/harness` | plan cache, state history | `execute`, classifier, routers, plan cache | a cached plan is served to another request with the same task | a plan fits its request |
| Validation suite `validation/runner` | the list of results; reports and dashboard on the disk | `run_single`, suite main, `generate_dashboard` | scenarios that are missing, do not parse or raise; a result of status ERROR lacks the keys the dashboard reads; files of an earlier suite stay | each scenario is judged on its own run; success is announced only if every scenario passed, and is on the disk |
| Bootstrap tool `tools/scripts/bootstrap_project.py` | three files, the self-test's sandbox | setup, `--resume`, `--self-test` | a kill between opening a file and closing it; a second setup after the user's edits | success means complete; what a user has written stays |
| Repository checks `tools/scripts/validate_agentos.py`, `.github/scripts` | none of their own | grade, escalation walk, baseline check | eighteen scores averaged and cut to an integer; three processes whose exit statuses are dropped | cycles are found; green bounds what can be wrong |
| Kernel `runtime/kernel` | queue, subscribers, health score | `schedule`, `pop_next`, `publish`, `report_issue` | - | not used by any tool but for the policy loader and the state manager |

## 2. Modules

| Module | Models | Uses |
|---|---|---|
| `KeyTrust` | abstract specification of the cache: a key is trusted or refused, and trusted only within a window after its withdrawal | |
| `JwksCache` | `auth/jwks.py`, statement by statement, with provider and clock | instantiates `KeyTrust` |
| `JwksRotation` | `JwksCache` with a history variable: was the kid published throughout the call | `JwksMC` |
| `JwksMC` | instances for TLC | `JwksCache` |
| `JwksCacheProofs` | proofs about `JwksCache` | `JwksCache` |
| `DbSession` | `db/session.py`, the pool, transaction and session settings, row-level security | |
| `DbSessionProofs` | proofs about `DbSession` | `DbSession` |
| `RequestBoundary` | header, verifier, payload and handler of a request, over the cache's promise | `KeyTrust` |
| `RequestBoundaryMC`, `RequestBoundaryProofs` | instances, proofs | `RequestBoundary` |
| `AtomicStore` | abstract specification of the store: each call has its whole effect at one moment, or fails | |
| `StudentStore` | transactions of the product under READ COMMITTED | instantiates `AtomicStore` |
| `StudentStoreMC`, `StudentStoreLoad`, `StudentStoreProofs` | instances, the second under one kind of load at a time; proofs, the refinement among them | `StudentStore`; `FiniteSums` |
| `Snapshot` | the two snapshot builders and the GROUP BY that feeds one of them | |
| `SnapshotMC`, `SnapshotProofs` | an instance, proofs | `Snapshot`; `FiniteSums` |
| `Intake` | the validation of payloads and the CHECK constraints their rows meet, with its theorem | |
| `IntakeMC` | an instance | `Intake` |
| `Validator` | scores, grade and escalation walk of the repository validator | |
| `Bootstrap` | `bootstrap_project.py`, write by write | |
| `Harness` | classification, routing, plan and plan cache | |
| `AgentLoop` | the refinement loop | |
| `ValidationSuite` | the suite: a harness and a loop per scenario, reports, dashboard | `Harness`, `AgentLoop` |
| `AgentOS` | all tools on one working tree, the baseline check, the operator | `Bootstrap`, `ValidationSuite`, `Validator` |
| `AgentOSMC`, `AgentOSProofs` | an instance, proofs | `AgentOS`; `FiniteSums` |
| `FiniteSums` | lemmas: induction over finite sets, sums over them, least and greatest members | |

### JwksCache

A thread's `pc` names what it does next. A statement that reads the clock and then
compares or stores what it read is two steps, because a thread can be held up in
between: `expiry` and `age` are `_expired()`, `limit` and `interval` are
`_rate_limited()`, `clock` and `stamp` are `_fetched_at = self._clock()`, `record` and
`store` are `_last_unknown_kid_refresh = self._clock()`; `read` is the time in the
thread's hand. `fetch` is the HTTP request, `install` is `_keys = ...`, `lookup` and
`retry` are the two lookups. Everything shared is read or written in exactly one of
these steps, so the interleavings of the steps are those of the threads: an older time
can be stored over a newer one, as stamp and as attempt. The provider (`Publish`) rotates
its document at any time; a fetch reads the document it serves at one instant
(`FetchAnswered`) and installs it later, ends without a usable key
(`FetchedNothingUsable`), or fails (`FetchFailed`). `Usable` are the kids whose entry
PyJWK can parse. An answer whose shape raises an exception `_refresh` does not
translate ends the call as "unhandled". `attemptAt` (per thread) and `succeededAt` (the
last successful fetch of any) are history.

`Tick` lets time pass, but not beyond `FetchLatency` after a thread has entered
`_refresh`, nor beyond `StoreDelay` after it has read the time of an attempt. These are
assumptions on the environment: a fetch ends in time, and a thread that can run does
run. The first is more than the code enforces: the timeout of `urlopen` bounds each
socket operation, not the whole answer, so a provider that sends a byte now and then is
outside it. Without the assumptions no staleness bound, and no spacing, exists at all.

`KeyTrust` is what the verifier relies on. The refinement mapping keeps provider, clock
and questions and turns `pc` and `outcome` into a verdict. Its `TrustWindow` is
`Ttl + 2 * FetchLatency`, not `Ttl`: the stamp is taken after the document was served,
and when two refreshes overlap, the stamp may be written by the one whose keys were
overwritten.

### DbSession

One step per statement sent to PostgreSQL. A connection has settings of two scopes
(`session`, `local`); `EndTransaction` reverts the local ones, which is the external
fact the code rests on. `Uid` and `Privileged` translate `auth.uid()` and the NOINHERIT
login role. One table stands for the three, since their policies have one form. A
statement may fail (`StatementFails`), the handler may raise (`HandlerRaises`), the
connection may break at any point, also with COMMIT under way (`LoseConnection`); the
pool's worker opens connections (`Open`), hands them out in order of arrival (`Obtain`)
and lets waiters give up (`TimeOut`). `Row.by` is a history variable.

### RequestBoundary

A thread serves one request at a time; `stage` names what comes next: `header` (the
framework's parsing of the body, `_extract_bearer`, `get_unverified_header`), `key` (it
is inside `get_key`), `decode` (`jwt.decode`), `claims` (`_check_temporal`,
`_check_role`, `_check_subject`, `_build`), `schema` (the pydantic model) and `handler`.
The module extends `KeyTrust` and so composes with everything `JwksCache` is shown to
implement: `KeyDecided` is the cache's answer in the cache's own time, while the
provider and the clock move on. A token is a record of what the checks look at; the
issuer, the audience and the presence of claims are the one field `registered`.
`KeyRefused` has two answers, because `require_identity` catches `AuthenticationError`
alone; so has `Decode`, because PyJWT raises a `TypeError`, which `verify` does not
translate, when the token's algorithm is allowed but not that of the key's type
(`CannotPrepare`). `arrived` is history. `since` of `KeyTrust` is when the key was asked for.

### StudentStore

One request is `Start` (the handler's prologue: date and validation), `Begin` (the
transaction's `now()`), one statement, and `Commit` or a failure. `write` is the row a
transaction holds: a second upsert of that row waits, and so does the deletion of its
account. `FailAfterCommit` is the lost COMMIT: the effect without the acknowledgement.
`known`, `acked` and `decision` are history. That a statement sees its caller's rows
only is what `DbSession` establishes, and is assumed here.

`AtomicStore` says what this amounts to for a caller, without locks, uncommitted rows
or waiting: a call comes in on a day, is given an instant, and then acts once. A PUT or
POST writes and answers in one step (`PutGoal`, `PostActivity`), with "ok" or, for the
lost COMMIT, with "error"; a GET reads one state of the tables and answers later; a
call that fails has done nothing. A list may leave out a row only if it holds `Limit`
newer ones (`IsListOf`), which is what a LIMIT should mean and not how it is computed.
The refinement mapping keeps the tables and the clock and hides what a request has
written: `Stage` is "dated" from `Begin` until a writer commits, so the statement of a
writer is a stutter and its commit is the write; a reader is "read" from its statement
on. That the timestamps are older than the moment of the effect (finding 4) is part of
the abstract specification, as `instant`.

### Snapshot

The two loops run one after the other over the same rows, one step per row in any
order. `Row` is the GROUP BY; `AsRow` is one activity; `Add` is `_Bucket.add`;
`Assembled` is `_assemble`. `UnknownTopic` ends a loop as the exception does. `Summary`
is the bucket of a set of rows computed at once, and `Outcome` the snapshot of all rows
that are visible: neither is in the code, and both are what the loops are proved to
come to.

### Intake

A request is validated (`PostActivity`, `PutGoal`) and, if accepted, inserted
(`Insert`). A text is the number of characters left once it is stripped and its inner
whitespace collapsed, and the number it gains in lower case: `str.lower()` makes two
characters of some, as of U+0130. Texts with U+0000, which PostgreSQL refuses, are left
out. A violated CHECK is an exception that no handler expects: "server error". The
window of a deadline is in `StudentStore`.

### AgentOS and the modules it composes

`Bootstrap` keeps for each of the three files what it holds: nothing, the empty text
that `open(path, "w")` leaves until the file is closed, the text of a project, or the
user's own. `setup.at` is the file that is written next. `Harness` is a pure function
of a request (its task as a set of keywords, its changed files by name, type and words)
and of the plan cache. In `AgentLoop` an iteration is one step, and the clock is the
choice whether the time limit has passed when it is judged. `ValidationSuite` takes the
scenarios of the manifest one by one; the condition of a scenario's directory decides
whether `run_single` answers ERROR, raises, or runs. `Validator` turns the number of
defects of each kind into points, scores and the grade, and holds the walk over
escalations.

`AgentOS` lets one tool run at a time, one step after the other, and be killed after
any step (`Kill`); between two tools the operator edits a file or a scenario, checks out
another tree, or starts the next tool (`Operate`). The validator writes nothing and
reads a tree nobody changes meanwhile, so that a run of it is one step, and its verdict
follows from `Defects`: what the modelled tools made of their files, and the defects of
the tree for everything else. `CheckSelfTest`, `CheckSuite` and `CheckGrade` are the
three processes of the baseline check and what it reads from each.

## 3. Runs

| Run | Question | Instance |
|---|---|---|
| `jwks_safety` | Does the cache implement `KeyTrust`, fail closed, keep stamp and keys together, space the attempts of a thread? Is `CacheInv` an invariant? Does every call end? | 2 threads, 3 kids of which one is unparsable, 3 documents, one rotation at time 0, time 0..3, all delays 1: 1.4 million states |
| `jwks_rate_limit` (violation) | "At most one unknown-kid refresh per 60 s"? | 2 threads |
| `jwks_rotation` (violation) | "A token bearing a new kid [...] verifies against the newly published key"? | 2 threads |
| `session` | Isolation and pool discipline under every failure; is `SessionInv` an invariant? Is a waiting request served or released? | 3 requests, 1 connection, 2 users and an unverified caller |
| `boundary` | Does a handler run only for the bearer of a token that passed every check, in time, under a key not long withdrawn? Is `BoundaryInv` an invariant? | 2 threads, 2 keys of different type, 9 tokens, time 0..2, skew and trust window 1: 6.9 million states |
| `boundary_refusals` (violation) | "JWKS unavailable: 401, identical"? | the same |
| `store` | Does the store implement `AtomicStore`? Deadlines under concurrent PUTs, deletion and midnight; durability, read-your-writes, orphans, settled replay; is every writer answered? Is `StoreInv` an invariant? | 2 requests under one of three loads: goals of 2 users with deadlines on 2 days; posts and lists of one user; posts and snapshots of one user; one midnight, 2 activities, list limit 1: 450 000 states |
| `store_replay_in_flight` (violation) | Does every replay reproduce its snapshot? | 2 requests, 1 user |
| `snapshot` | Do the two builders agree on every history and every order of rows? | 3 activities, 2 topics and a retired one, 2 difficulties |
| `intake` (violation) | "Constructing one is the proof it is usable"? | lengths 0..3 about limits of 2 |
| `agentos` | Setups that are killed, resumed and rerun; plans, loops and scores per scenario; what success and green stand for; does every tool end? Is `AgentInv` an invariant? | 2 scenarios with the same task, 6 trees, 2 projects of which one has an unlisted profile, 3 acts of the operator |
| `agentos_resume` (violation) | "Re-runs setup without overwriting existing `context/` files"? | the same with 1 act |

Bounds. Two threads are enough for every race on the cache: each of its hazards needs
one thread between a read and a write of another. Three kinds of kid exist (known,
unknown, unparsable), and one rotation from a usable document to another of three withdraws a
key, publishes a new one, or leaves nothing usable. It happens before the clock first
moves (`EarlySpec`): what matters of a withdrawal is the time since, and an early one
leaves the most of it; the proofs allow any number of rotations at any time. The delay
`StoreDelay` is used to the full: with `MinRefreshInterval` alone in its place
`AttemptSpacing` is violated, since one thread's older time does go over the other's. Three requests
on one connection give a queue and a reuse by another user and by a replacement
connection; what two connections do at once is covered by the proofs, which hold for
any number. At the boundary there is one token per way to fail, two good ones of two
users under one key, one of which expires and one of which is issued within the bound. A
list limit of one reaches the limit with two rows. In `store` the calls on goals, the
lists and the snapshots are three loads and not one mix: calls that only read are seen
by no other, no statement touches both tables, and these meet only in the account. Where
activities are at work one user suffices, because every statement is confined to its
caller's rows; goals keep two. Accounts are deleted under the first two loads (the
replay's promise ends with the account), a snapshot is not asked for a future instant,
and a post is sent while there is an id left. The proofs need none of this. Time is bounded by `MaxTime`, large enough for a time to live, a
rate-limit window, or a midnight to pass between any two steps. In `agentos`, three acts
are a tool that is killed, an edit or another tool, and a tool that meets what is left;
two scenarios are the least for one to inherit something from another, and the first
speaks of authentication, so that its loop has an error to pass on. The six trees are
a sound one, this repository's own (grade 83, the floor of the baseline check), that one
with one more category lost, and one each with a broken reference, without a profile and
with orchestrator and chief architect escalating to each other, and without a manifest
and with two reviewers that do and a third that escalates to them. The bound on the
iterations of a loop is not what ends any loop of the run, nor of the program: the second
iteration always scores 100 (`QualityEvaluator` sees errors in the first one only). That
the bound holds whatever the scores are is `ContinueMeansBelow`, in the proofs.

Symmetry is used over threads, requests, records and topics in `boundary`,
`boundary_refusals`, `snapshot` and `store_replay_in_flight`, whose
specifications and properties do not distinguish them; never in a run that checks a
liveness property.

`CHECK_DEADLOCK FALSE` appears in `snapshot`, where both loops end, and in `agentos` and
`agentos_resume`, where the operator stops acting.

### Fairness

`jwks_safety` assumes weak fairness of each thread's own step: the operating system
schedules a runnable thread, and a fetch ends because `http_fetcher` sets a socket
timeout and the provider does not drip (see JwksCache). Callers, clock and provider owe nothing. `session` assumes in
addition that the pool's worker replaces missing connections and that a free
connection goes to the head of the queue (`ConnectionPool` does both in background
threads), and neither that requests arrive nor that waiters time out. `store`
adds strong fairness of `UpsertGoal`: PostgreSQL queues the writers of a row, so a
writer that is enabled again and again gets its turn.
`agentos` assumes that the tool that runs is scheduled (`WF_vars(ToolStep)`), and
nothing of the operator: no tool needs to be started, or killed, for another to end.

## 4. Proofs

`JwksCacheProofs`, `DbSessionProofs`, `RequestBoundaryProofs`, `StudentStoreProofs`,
`SnapshotProofs`, `AgentOSProofs`, `Intake` and `FiniteSums` are checked by TLAPS for all
values of the constants that satisfy the named assumptions: kids, documents and usable
kids are related as declared; time to live positive, latencies natural numbers; `Never`,
`Nobody`, `None` and the like differ from the values they stand beside; the manifest is a
nonempty list, and its scenarios cover only subsystems that `report_generator.py` lists
(coverage is compared by number, so that another name would stand in for a missing one);
a scan of a tree counts with natural numbers and finds finitely many contracts; a history
has finitely many rows, topics and difficulties. Everything a passing run checks but liveness is
stated by a theorem. The type invariants of `JwksCache` and `DbSession` are proved
(`TypeCorrect`) and need no run.

* `JwksCacheProofs`: `CacheInvariant`, and from it `StalenessIsBounded`,
  `CacheFailsClosed`, `StampNeverAlone`, `AttemptsAreSpaced` (an action property) and
  `CacheImplementsKeyTrust` (the refinement, step by step). `BoundedStaleness` is not
  inductive: it speaks of answers given, and a stale answer is prepared long before
  it. `CacheInv` says what is known at each statement: what a refresh is about to
  install was published after the refresh began (`RefreshInTime`); whoever is about to
  stamp, the installed keys were published at most one `FetchLatency` before that
  thread's refresh began (`StampInTime`), whoever installed them; hence what the stamp
  vouches for is at most two old (`KeysVouched`); and a thread that looks up has seen a
  fresh stamp since it was called (`ExpiryChecked`). `ReadInTime` says of a time that was
  read and not yet used how old it can be. `AttemptsCovered` is the same argument for the
  rate limit: the recorded time is before a thread's own by `StoreDelay` at most, since
  whoever stores an older time has read it no longer ago than that.
* `DbSessionProofs`: `SessionInvariant`, and from it `PoolIsAnonymous`,
  `AuthorshipIsKept`, `ReadsAreIsolated`, `HandlerRunsAsCaller` and
  `ConnectionsHaveOneHolder`. `SessionInv` says what a request has established on its
  connection at each statement (`Established`), that a connection nobody holds is
  clean, and that no setting of session scope is ever made. The last conjunct makes
  the others inductive: an identity in session scope would reach the next holder.

* `RequestBoundaryProofs`: `BoundaryInvariant`, and from it `HandlersActForTheirBearer`,
  `ExpiredTokensAreRefused`, `RotationRevokes` and `BoundaryTypeCorrect`. The four speak
  of the handler alone; `Verified` says for each stage before it what has been
  established, and that the key a thread was given was published within the window
  before it asked, which no later rotation changes (`PublishedStays`; this needs a
  window that is not zero). With `CacheImplementsKeyTrust`, which says that the cache is
  a `KeyTrust` whose window is `Ttl + 2 * FetchLatency`, this bounds the life of a
  withdrawn key from the provider to the handler.

* `StudentStoreProofs`: `StoreInvariant`, and from it `NothingIsOrphaned`,
  `AcknowledgementsAreDurable`, `AcceptedDeadlinesAreAhead` and
  `SettledDecisionsReplay`. `StoreInv` says of each call in flight what it has validated
  and when, which row it has written and not committed, and that this row's account
  exists, which is why the deletion of the account waits. The replay needs more
  (`ReplayInv`, in the proof module): a transaction that began before a decision's
  instant and can still commit makes the decision unsettled for ever, and a decision
  that is settled has the rows of the table up to its instant. What has been committed
  before that instant never changes but by deletion of the account, which takes the
  decision's rows and the table's alike.

  In the same module, `StoreIsAtomic`, that `StudentStore` implements `AtomicStore`, and
  `CallersReadTheirWrites`. A writer's effect is mapped to its commit, while the row was
  computed by its statement from what was stored then. `WriteInv` is why that is the
  same: a row that is written and not committed is still what its call would write now
  (`Held`), because no two requests hold the same row (`Apart`), the upsert waits for the
  row's lock, and the deletion of the account waits for the foreign key. Without the
  lock the second of two writers loses the first one's `created_at`, which is the mutant
  of the run. Both theorems need that a list misses only what `Limit` newer rows have
  pushed out (`NewestIsComplete`): a row that is cut off is older than `Limit` rows, and
  if some of these are cut off too, the one of them with the fewest above it has only
  listed rows above it; such a one exists since the table is finite (`RowsStayFinite`).
* `SnapshotProofs`: `LoopsSummarise`, and from it `BothPathsAgree`, `NothingIsLost`,
  `MinutesBelongTogether` and `DatesAreTheirs`. That both loops end alike is not
  inductive: while one runs there is nothing to compare it with. `SnapshotInv` names what
  both come to, `Outcome`, and says that the buckets of the running loop are the summary
  of the rows it has seen, so that the order of the rows disappears. The step rests on
  one lemma, `AddSummarises`: a row that stands for some activities joins their bucket. A
  single activity stands for itself (`ActivityStandsForItself`), and a row of the GROUP BY
  for its group (`GroupStandsForItsRows`), which is the one place where the two paths
  differ; groups are disjoint, so that none is counted twice. TLC has checked
  `SnapshotInv` as an invariant on the instance of the run `snapshot`. The three other
  properties follow from `Outcome`: the classes of a topic's activities by difficulty and
  outcome make up the topic, and the topics make up the history (`SumOfClasses`).
* `AgentOSProofs`: `AgentsAreSound`, and from it `SetupsAreComplete`,
  `LoopsStopInTime`, `ScenariosAreRouted`,
  `ScoresAreOwn`, `SuccessesAreOnDisk` and `GreenChecksBound`.
  The properties speak of what a tool leaves behind; `AgentInv` says what holds on the
  way: which tool may be at work (`OneTool`), which files a setup has come past
  (`SetupInv`), that the plan at hand is this scenario's (`PlanInv`), that a running loop
  has turns left and has not met its target (`LoopInv`), which scores it can have by then
  (`ScoreInv`), that the results are those of the manifest up to here and, while none has
  failed, stand for reports that say PASS (`ResultInv`), and what a baseline check that
  has not failed has seen (`CheckInv`). That a green check loses at most three categories
  is arithmetic: no score exceeds 100, and eighteen of them average 83 only if fifteen
  are not zero; it needs the score to be bounded for any numbers of defects
  (`ScoreIsBounded`).

  `CyclesAreFound` is about the validator's walk over escalations, a recursive function
  that cannot be expanded as often as there are agents. `WalkFindsRings` shows by
  induction over the agents not yet visited that it finds a set of agents which no
  escalation leaves, but for those already visited (`RunsIntoCycle`); from the start,
  where none is, that is an agent that never resolves; and where it finds none, every such
  set holds a final authority.
* `FiniteSums`: what these proofs need of sums, which `Functions` defines by a recursion
  over subsets that chooses one member at a time. The induction over finite sets is a
  minimal counterexample: the claim is given as the set of those subsets it holds of, so
  that no lemma has an operator for a parameter. From it, the recursion has one solution;
  a sum does not depend on the choices, is additive, and over the classes of a
  classification is the size of what is classified.
* `Intake`: `PlainStorability`, the part of finding 5's sentence that holds: what is
  validated is storable, unless the title gains characters in lower case.

Model-checked only: liveness (`CallsEnd`, `WaitersAreServed`, `CallsAreAnswered`,
`ToolsFinish`), which is out of the prover's reach. `KeyTrust` and `AtomicStore` have no
liveness part, so that the refinement proofs cover all of them.

## 5. Findings

1. `jwks_rate_limit`: `_rate_limited()` and the recording of the attempt are two
   unlocked statements; two threads pass together and refresh twice in a window.
   ADR-0063 line 118 promises one. Nor does a single thread keep to the window: the time
   of an attempt is read and stored in two steps (`jwks.py:155`), so that another thread
   may store an older time over it. What does hold, and is proved, is that the refreshes of
   one thread are a window apart less that delay (`AttemptSpacing`).
2. `jwks_rotation`: a refresh that fetched before a rotation can install after one
   that fetched later, so that the later call misses the kid it has just fetched.
   The window is a few milliseconds, and the next TTL or unknown-kid refresh heals it.
3. `boundary_refusals`: `_refresh` translates the exceptions it lists. A body cut short
   (`http.client.IncompleteRead`) and a document that is JSON but not an object raise
   others, which no handler of the application translates: the answer is a 500, where
   ADR-0064's table says "JWKS unavailable | 401 | identical". A token whose algorithm does
   not fit the type of the key it names ends in a 500 too (`Decode`). No identity comes of it;
   `HandlerActsForBearer` holds all the same.
4. `store_replay_in_flight`: `occurred_at` is the start of the recording transaction.
   An activity recorded in a transaction that began before `as_of` and commits after
   the snapshot is in the replay and not in the original, contrary to the comment in
   `db/snapshot.py`. `SettledReplayReproduces` is the guarantee that does hold: a
   snapshot taken once no earlier transaction is running is reproduced for ever.
5. `intake`: `normalise_problem_ref` lowercases a title whose length was checked before.
   A title of 200 characters with U+0130 among them passes `validate_activity`, and its
   reference of 201 violates `dsa_activities_problem_ref_length`: a 500 in place of a 201
   or a 422. Goals, and titles that gain nothing, cannot meet this (`PlainStorability`).
6. `agentos_resume`: `--resume` writes both context files whether they exist or not, the
   user's text included, where `BOOTSTRAP.md` line 69 says it "re-runs setup without
   overwriting existing `context/` files" and ADR-0036 "merge them or warn instead of
   overwriting". `SuccessfulSetupIsComplete` says only what a resume is for: that no
   empty file of a killed setup is left.
7. `agentos`: the walk over escalations stops at the orchestrator and at the chief
   architect, which are agents, so that a cycle of these two is not reported, although
   ADR-0019 line 24 says the validator "checks and guarantees zero circular dependencies"
   and has the human alone as terminal authority. `EscalationCyclesAreFound`, which holds,
   delimits this: whatever is reported never resolves, and whatever never resolves and is
   not reported passes one of the two (nobody is reported in the tree
   `AuthoritiesInCircle`, where nobody's escalations end).

Observations that came with the modelling and have no run:

* A plain setup takes the empty file that a killed one left for the user's and keeps it,
  and the validator accepts it.
* A configuration the user has edited is taken as valid in `Defects`; one whose profile
  has no file costs points in one category, and the setup can succeed all the same.
* Missing quality gates are warnings in the validator and cost no points.
* The baseline check ignores exit statuses and the validator's verdict, so escalation
  cycles stay green; its floor of 83 lets up to three of the eighteen categories be lost
  (`GreenBoundsTheDamage`).
* Of a scenario's assertions only `expected_agents` is judged. Coverage is compared by
  the number of subsystems. `harness_engine` prints PASS and exits with 0 whatever the
  score. `NEGLIGIBLE_IMPROVEMENT` cannot be reached with a fresh loop object.

## 6. Not modelled

* Logging, the text of problem documents, the correlation id, TLS and URL rules of the
  fetcher (one predicate of the fetch's outcome here), cryptography (a signature is
  valid or not), and the construction of `AuthConfig` at startup.
* `check_governance.py` and `scan_secrets.py`: one sequential pass of text patterns over
  the tree, each pattern on its own, with no state and no order a state machine would add
  to; `simulate_agent_runtime.py`, which prints a fixed table and shares nothing with the
  runtime.
* `runtime/kernel` but for the policies the loop and the harness load: no code calls it.
* `FailureRecovery` and `evaluate_budget` of the harness, which have no caller.
* The trigger that creates a profile with its account; the refusals of naive or foreign
  time zones and the fingerprint in the snapshot builder.
* Documents, agents, standards and templates.

What could be added: `AtomicStore` on top of `DbSession`, instead of the assumption that a
statement sees its caller's rows.
