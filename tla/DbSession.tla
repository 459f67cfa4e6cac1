----------------------------- MODULE DbSession -----------------------------
(***************************************************************************)
(* The sanctioned database session (backend/app/db/session.py): a bounded  *)
(* pool of connections shared by the request threads, and the transaction  *)
(* wrapper that gives each of them its caller's identity.                  *)
(*                                                                         *)
(* A statement sent to PostgreSQL is one step, because it can fail or lose *)
(* its connection and because other requests run in between.  A connection *)
(* has settings of two scopes: those of its session, which outlive a       *)
(* transaction and travel with the pooled connection to the next request,  *)
(* and transaction-local ones, which end with the transaction.  One table  *)
(* under row-level security stands for the three the migrations create:    *)
(* each row belongs to auth.uid() of the session that inserts it, and a    *)
(* session sees the rows of its auth.uid().                                *)
(***************************************************************************)
EXTENDS Naturals, SequencesExt

CONSTANTS
    Request,     \* the request threads
    Conn,        \* connections: the pool holds at most max_size of them
    User,        \* the subjects of verified identities
    Unverified,  \* a caller value that is not a VerifiedIdentity
    Nobody       \* NULL: no claims set, no connection held

ASSUME CallerAssumption == Unverified \notin User
ASSUME NobodyAssumption == Nobody \notin User \cup Conn \cup {Unverified}

VARIABLES
    \* each request
    pc,       \* the statement of request_transaction it executes next
    caller,   \* its `identity` argument
    conn,     \* the connection it holds, or Nobody
    outcome,  \* how it ended
    seen,     \* the rows its query returned
    \* the pool
    queue,    \* the requests waiting for a connection, first come first served
    open,     \* established connections
    idle,     \* those that no request holds
    \* PostgreSQL, per connection
    txn,      \* "none", "open" or "aborted"
    session,  \* settings of session scope
    local,    \* settings of transaction scope; Nobody/"unset" when not set
    pending,  \* rows inserted by the open transaction
    \* PostgreSQL, shared
    rows      \* committed rows

requests == <<pc, caller, conn, outcome, seen>>
pool == <<queue, open, idle>>
backend == <<txn, session, local, pending>>
vars == <<requests, pool, backend, rows>>

Caller == User \cup {Unverified}
Row == [owner : User, by : Caller]  \* `by` is history: who ran the insert
Stage == {"idle", "check", "wait", "begin", "claims", "role", "body", "commit",
          "rollback", "return"}
Holding == Stage \ {"idle", "check", "wait"}
Outcome == {"none", "ok", "refused", "timeout", "error"}
Setting == [claims : User \cup {Nobody}, role : {"unset", "authenticated"}]

Unset == [claims |-> Nobody, role |-> "unset"]

TypeOK ==
    /\ pc \in [Request -> Stage]
    /\ caller \in [Request -> Caller]
    /\ conn \in [Request -> Conn \cup {Nobody}]
    /\ outcome \in [Request -> Outcome]
    /\ seen \in [Request -> SUBSET Row]
    /\ queue \in Seq(Request)
    /\ open \in SUBSET Conn
    /\ idle \in SUBSET Conn
    /\ txn \in [Conn -> {"none", "open", "aborted"}]
    /\ session \in [Conn -> Setting]
    /\ local \in [Conn -> Setting]
    /\ pending \in [Conn -> SUBSET Row]
    /\ rows \in SUBSET Row

Init ==
    /\ pc = [r \in Request |-> "idle"]
    /\ caller \in [Request -> Caller]
    /\ conn = [r \in Request |-> Nobody]
    /\ outcome = [r \in Request |-> "none"]
    /\ seen = [r \in Request |-> {}]
    /\ queue = <<>>
    /\ open = {}
    /\ idle = {}
    /\ txn = [c \in Conn |-> "none"]
    /\ session = [c \in Conn |-> Unset]
    /\ local = [c \in Conn |-> Unset]
    /\ pending = [c \in Conn |-> {}]
    /\ rows = {}

-----------------------------------------------------------------------------
(* What PostgreSQL derives from the settings of a connection *)

\* auth.uid(): the claims in force
Uid(c) == IF local[c].claims # Nobody THEN local[c].claims ELSE session[c].claims

\* Whether the session acts as `authenticated`.  The login role is NOINHERIT: it
\* holds no privilege until SET ROLE.
Privileged(c) == "authenticated" \in {local[c].role, session[c].role}

\* The end of a transaction reverts what has transaction scope.
EndTransaction(c) ==
    /\ txn' = [txn EXCEPT ![c] = "none"]
    /\ local' = [local EXCEPT ![c] = Unset]
    /\ pending' = [pending EXCEPT ![c] = {}]
    /\ UNCHANGED session

Goto(r, stage) == pc' = [pc EXCEPT ![r] = stage]

-----------------------------------------------------------------------------
(* The pool *)

\* The pool's worker establishes a connection: at start, to grow, or to replace
\* a broken one.  A new session has no settings.
Open(c) ==
    /\ c \notin open
    /\ open' = open \cup {c}
    /\ idle' = idle \cup {c}
    /\ session' = [session EXCEPT ![c] = Unset]
    /\ UNCHANGED <<requests, queue, txn, local, pending, rows>>

\* getconn: the longest waiting request takes an idle connection.
Obtain(r) ==
    /\ pc[r] = "wait"
    /\ queue # <<>> /\ r = Head(queue)
    /\ \E c \in idle :
          /\ conn' = [conn EXCEPT ![r] = c]
          /\ idle' = idle \ {c}
    /\ queue' = Tail(queue)
    /\ Goto(r, "begin")
    /\ UNCHANGED <<caller, outcome, seen, open, backend, rows>>

\* PoolTimeout: the request gives up its place.
TimeOut(r) ==
    /\ pc[r] = "wait"
    /\ \E i \in DOMAIN queue : queue[i] = r /\ queue' = RemoveAt(queue, i)
    /\ outcome' = [outcome EXCEPT ![r] = "timeout"]
    /\ Goto(r, "idle")
    /\ UNCHANGED <<caller, conn, seen, open, idle, backend, rows>>

\* putconn, on leaving `with pool.connection()`.
Return(r) ==
    /\ pc[r] = "return"
    /\ idle' = idle \cup {conn[r]}
    /\ conn' = [conn EXCEPT ![r] = Nobody]
    /\ Goto(r, "idle")
    /\ UNCHANGED <<caller, outcome, seen, queue, open, backend, rows>>

-----------------------------------------------------------------------------
(* request_transaction, for request r *)

\* A request arrives on a free thread with whatever its handler passes on.
Start(r, u) ==
    /\ pc[r] = "idle"
    /\ Goto(r, "check")
    /\ caller' = [caller EXCEPT ![r] = u]
    /\ outcome' = [outcome EXCEPT ![r] = "none"]
    /\ seen' = [seen EXCEPT ![r] = {}]
    /\ UNCHANGED <<conn, pool, backend, rows>>

Refuse(r) ==
    /\ pc[r] = "check"
    /\ caller[r] \notin User
    /\ outcome' = [outcome EXCEPT ![r] = "refused"]
    /\ Goto(r, "idle")
    /\ UNCHANGED <<caller, conn, seen, pool, backend, rows>>

\* Mutant: no isinstance check.
Enqueue_AnyCaller(r) ==
    /\ pc[r] = "check"
    /\ queue' = Append(queue, r)
    /\ Goto(r, "wait")
    /\ UNCHANGED <<caller, conn, outcome, seen, open, idle, backend, rows>>

Enqueue(r) ==
    /\ pc[r] = "check"
    /\ caller[r] \in User
    /\ queue' = Append(queue, r)
    /\ Goto(r, "wait")
    /\ UNCHANGED <<caller, conn, outcome, seen, open, idle, backend, rows>>

BeginTransaction(r) ==
    /\ pc[r] = "begin"
    /\ txn' = [txn EXCEPT ![conn[r]] = "open"]
    /\ Goto(r, "claims")
    /\ UNCHANGED <<caller, conn, outcome, seen, pool, session, local, pending, rows>>

\* Mutant: set_config(..., is_local => false).
SetClaims_SessionScope(r) ==
    /\ pc[r] = "claims"
    /\ session' = [session EXCEPT ![conn[r]].claims = caller[r]]
    /\ Goto(r, "role")
    /\ UNCHANGED <<caller, conn, outcome, seen, pool, txn, local, pending, rows>>

\* Mutant: claims of session scope, set only on a connection that has none yet.
SetClaims_OncePerConnection(r) ==
    /\ pc[r] = "claims"
    /\ session' = [session EXCEPT
                      ![conn[r]].claims = IF @ = Nobody THEN caller[r] ELSE @]
    /\ Goto(r, "role")
    /\ UNCHANGED <<caller, conn, outcome, seen, pool, txn, local, pending, rows>>

\* set_config('request.jwt.claims', ..., true)
SetClaims(r) ==
    /\ pc[r] = "claims"
    /\ local' = [local EXCEPT ![conn[r]].claims = caller[r]]
    /\ Goto(r, "role")
    /\ UNCHANGED <<caller, conn, outcome, seen, pool, txn, session, pending, rows>>

\* SET LOCAL ROLE authenticated
SetRole(r) ==
    /\ pc[r] = "role"
    /\ local' = [local EXCEPT ![conn[r]].role = "authenticated"]
    /\ Goto(r, "body")
    /\ UNCHANGED <<caller, conn, outcome, seen, pool, txn, session, pending, rows>>

\* The handler's statement inserts a row; user_id defaults to auth.uid().
Insert(r) ==
    /\ pc[r] = "body"
    /\ Privileged(conn[r]) /\ Uid(conn[r]) \in User
    /\ pending' = [pending EXCEPT
                      ![conn[r]] = @ \cup {[owner |-> Uid(conn[r]), by |-> caller[r]]}]
    /\ Goto(r, "commit")
    /\ UNCHANGED <<caller, conn, outcome, seen, pool, txn, session, local, rows>>

\* Mutant: no row-level security on the table.
Select_NoPolicy(r) ==
    /\ pc[r] = "body"
    /\ Privileged(conn[r])
    /\ seen' = [seen EXCEPT ![r] = rows \cup pending[conn[r]]]
    /\ Goto(r, "commit")
    /\ UNCHANGED <<caller, conn, outcome, pool, backend, rows>>

\* The handler's statement selects; the policy keeps the rows of auth.uid().
Select(r) ==
    /\ pc[r] = "body"
    /\ Privileged(conn[r])
    /\ seen' = [seen EXCEPT
                   ![r] = {x \in rows \cup pending[conn[r]] : x.owner = Uid(conn[r])}]
    /\ Goto(r, "commit")
    /\ UNCHANGED <<caller, conn, outcome, pool, backend, rows>>

Commit(r) ==
    /\ pc[r] = "commit"
    /\ rows' = rows \cup pending[conn[r]]
    /\ EndTransaction(conn[r])
    /\ outcome' = [outcome EXCEPT ![r] = "ok"]
    /\ Goto(r, "return")
    /\ UNCHANGED <<caller, conn, seen, pool>>

\* A statement fails on the server, or without privilege or identity.
StatementFails(r) ==
    /\ pc[r] \in {"claims", "role", "body"}
    /\ txn' = [txn EXCEPT ![conn[r]] = "aborted"]
    /\ Goto(r, "rollback")
    /\ UNCHANGED <<caller, conn, outcome, seen, pool, session, local, pending, rows>>

\* The handler raises after its statement.
HandlerRaises(r) ==
    /\ pc[r] \in {"body", "commit"}
    /\ Goto(r, "rollback")
    /\ UNCHANGED <<caller, conn, outcome, seen, pool, backend, rows>>

\* Mutant: a failing request leaves without putconn.
Rollback_KeepsConnection(r) ==
    /\ pc[r] = "rollback"
    /\ EndTransaction(conn[r])
    /\ outcome' = [outcome EXCEPT ![r] = "error"]
    /\ conn' = [conn EXCEPT ![r] = Nobody]
    /\ Goto(r, "idle")
    /\ UNCHANGED <<caller, seen, pool, rows>>

\* Mutant: the error path puts the connection back, and so does leaving the block.
Rollback_ReturnsTwice(r) ==
    /\ pc[r] = "rollback"
    /\ EndTransaction(conn[r])
    /\ outcome' = [outcome EXCEPT ![r] = "error"]
    /\ idle' = idle \cup {conn[r]}
    /\ Goto(r, "return")
    /\ UNCHANGED <<caller, conn, seen, queue, open, rows>>

Rollback(r) ==
    /\ pc[r] = "rollback"
    /\ EndTransaction(conn[r])
    /\ outcome' = [outcome EXCEPT ![r] = "error"]
    /\ Goto(r, "return")
    /\ UNCHANGED <<caller, conn, seen, pool, rows>>

\* The connection breaks.  The server ends the transaction, which may have
\* committed if COMMIT was on its way; the pool discards the connection.
LoseConnection(r) ==
    /\ pc[r] \in Holding \ {"return"}
    /\ \/ UNCHANGED rows
       \/ pc[r] = "commit" /\ rows' = rows \cup pending[conn[r]]
    /\ EndTransaction(conn[r])
    /\ open' = open \ {conn[r]}
    /\ conn' = [conn EXCEPT ![r] = Nobody]
    /\ outcome' = [outcome EXCEPT ![r] = "error"]
    /\ Goto(r, "idle")
    /\ UNCHANGED <<caller, seen, queue, idle>>

\* What a request does by itself once it is running.
Step(r) ==
    \/ Refuse(r)
    \/ Enqueue(r)
    \/ BeginTransaction(r)
    \/ SetClaims(r)
    \/ SetRole(r)
    \/ Insert(r)
    \/ Select(r)
    \/ Commit(r)
    \/ StatementFails(r)
    \/ HandlerRaises(r)
    \/ Rollback(r)
    \/ LoseConnection(r)
    \/ Return(r)

Next ==
    \/ \E c \in Conn : Open(c)
    \/ \E r \in Request :
          \/ \E u \in Caller : Start(r, u)
          \/ Obtain(r)
          \/ TimeOut(r)
          \/ Step(r)

Spec == Init /\ [][Next]_vars

\* Running requests are scheduled and their statements end; the pool's worker
\* replaces missing connections; a free connection is handed to the head of the
\* queue.  Nobody is obliged to arrive or to time out.
LiveSpec ==
    /\ Spec
    /\ \A r \in Request : WF_vars(Step(r)) /\ WF_vars(Obtain(r))
    /\ \A c \in Conn : WF_vars(Open(c))

-----------------------------------------------------------------------------
(* Properties *)

\* ADR-0061 I-3: a connection in the pool carries no identity, no role and no
\* transaction of the request that used it last, whichever statement of that
\* request failed.
IdleIsAnonymous ==
    \A c \in idle :
        Uid(c) = Nobody /\ ~Privileged(c) /\ txn[c] = "none" /\ pending[c] = {}

\* ADR-0061 I-4: every committed row belongs to the verified caller that
\* inserted it, across any reuse of connections.
RowsBelongToTheirAuthor == \A x \in rows : x.by \in User /\ x.owner = x.by

\* A request reads rows of its own caller only.
ReadsOwnRowsOnly == \A r \in Request : \A x \in seen[r] : x.owner = caller[r]

\* The handler's statement runs as `authenticated` with auth.uid() = the caller.
BodyRunsAsCaller ==
    \A r \in Request :
        pc[r] \in {"body", "commit"} =>
            /\ conn[r] \in Conn
            /\ txn[conn[r]] = "open"
            /\ Privileged(conn[r])
            /\ Uid(conn[r]) = caller[r]

\* Two requests never hold one connection, and the pool never lends one twice.
OneHolder ==
    \A r, s \in Request :
        conn[r] # Nobody => conn[r] \in open \ idle /\ (conn[s] = conn[r] => s = r)

\* The inductive invariant: what each request has established on its connection
\* at each statement, and that a connection no request holds is clean.
Clean(c) == local[c] = Unset /\ txn[c] = "none" /\ pending[c] = {}

Established(r) ==
    LET c == conn[r]
        bound(role) == [claims |-> caller[r], role |-> role]
    IN  /\ pc[r] \in {"begin", "return"} => Clean(c)
        /\ pc[r] = "claims" => txn[c] = "open" /\ local[c] = Unset /\ pending[c] = {}
        /\ pc[r] = "role" => txn[c] = "open" /\ local[c] = bound("unset") /\ pending[c] = {}
        /\ pc[r] \in {"body", "commit"} =>
              txn[c] = "open" /\ local[c] = bound("authenticated")
        /\ pending[c] \subseteq {[owner |-> caller[r], by |-> caller[r]]}

SessionInv ==
    /\ \A c \in Conn : session[c] = Unset
    /\ idle \subseteq open
    /\ OneHolder
    /\ \A r \in Request : pc[r] \in Holding <=> conn[r] # Nobody
    /\ \A r \in Request : pc[r] \in Holding \cup {"wait"} => caller[r] \in User
    /\ \A r \in Request : pc[r] \in Holding => Established(r)
    /\ \A c \in Conn : (\A r \in Request : conn[r] # c) => Clean(c)
    /\ RowsBelongToTheirAuthor
    /\ ReadsOwnRowsOnly

\* A request that waits for a connection gets one or gives up, whatever fails:
\* no failure path keeps a connection, no nested acquisition waits for itself,
\* and later arrivals do not overtake.
WaitersAreServed == \A r \in Request : pc[r] = "wait" ~> pc[r] # "wait"
=============================================================================
