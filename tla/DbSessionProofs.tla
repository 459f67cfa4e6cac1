-------------------------- MODULE DbSessionProofs --------------------------
(***************************************************************************)
(* What DbSession guarantees for every set of requests, connections and    *)
(* users: the identity invariants of ADR-0061, from the inductive          *)
(* invariant SessionInv.                                                   *)
(***************************************************************************)
EXTENDS DbSession, SequenceTheorems, TLAPS

USE CallerAssumption, NobodyAssumption

\* A waiting request that gives up leaves a queue of requests behind.
LEMMA RemoveAtKeepsType ==
  ASSUME NEW S, NEW q \in Seq(S), NEW i \in DOMAIN q
  PROVE  RemoveAt(q, i) \in Seq(S)
<1>1. i \in 1..Len(q) /\ Len(q) \in Nat /\ \A j \in 1..Len(q) : q[j] \in S
  BY LenProperties, ElementOfSeq
<1>2. SubSeq(q, 1, i - 1) \in Seq(S)
  BY <1>1, SubSeqProperties
<1>3. SubSeq(q, i + 1, Len(q)) \in Seq(S)
  BY <1>1, SubSeqProperties
<1>4. QED
  BY <1>2, <1>3, ConcatProperties DEF RemoveAt

-----------------------------------------------------------------------------
(* Types *)

\* A step keeps every variable's type, given that a request in a transaction
\* holds a connection and has a verified caller.
LEMMA TypeStep == TypeOK /\ SessionInv /\ [Next]_vars => TypeOK'
<1> SUFFICES ASSUME TypeOK, SessionInv, [Next]_vars PROVE TypeOK'
  OBVIOUS
<1> USE DEF TypeOK
<1>1. ASSUME NEW c \in Conn, Open(c) PROVE TypeOK'
  BY <1>1 DEF Open, requests, Setting, Unset
<1>2. ASSUME NEW r \in Request, NEW u \in Caller, Start(r, u) PROVE TypeOK'
  BY <1>2 DEF Start, Goto, pool, backend, Stage, Outcome
<1>3. ASSUME NEW r \in Request, Obtain(r) PROVE TypeOK'
  <2>1. Tail(queue) \in Seq(Request)
    BY <1>3, HeadTailProperties DEF Obtain
  <2>2. QED
    BY <1>3, <2>1 DEF Obtain, Goto, backend, Stage
<1>4. ASSUME NEW r \in Request, TimeOut(r) PROVE TypeOK'
  <2>1. queue' \in Seq(Request)
    BY <1>4, RemoveAtKeepsType DEF TimeOut
  <2>2. QED
    BY <1>4, <2>1 DEF TimeOut, Goto, backend, Stage, Outcome
<1>5. ASSUME NEW r \in Request, Step(r) PROVE TypeOK'
  <2> USE DEF Stage
  <2>0. pc[r] \in Holding => conn[r] \in Conn /\ caller[r] \in User
    BY DEF SessionInv
  <2>1. CASE Refuse(r)
    BY <2>1 DEF Refuse, Goto, pool, backend, Outcome
  <2>2. CASE Enqueue(r)
    <3>1. Append(queue, r) \in Seq(Request)
      BY AppendProperties
    <3>2. QED
      BY <2>2, <3>1 DEF Enqueue, Goto, backend
  <2>3. CASE BeginTransaction(r)
    BY <2>3, <2>0 DEF BeginTransaction, Holding, Goto, pool
  <2>4. CASE SetClaims(r)
    BY <2>4, <2>0 DEF SetClaims, Holding, Goto, pool, Setting
  <2>5. CASE SetRole(r)
    BY <2>5, <2>0 DEF SetRole, Holding, Goto, pool, Setting
  <2>6. CASE Insert(r)
    BY <2>6, <2>0 DEF Insert, Holding, Goto, pool, Row
  <2>7. CASE Select(r)
    <3>1. pending[conn[r]] \subseteq Row
      BY <2>7, <2>0 DEF Select, Holding
    <3>2. QED
      BY <2>7, <2>0, <3>1 DEF Select, Goto, pool, backend
  <2>8. CASE Commit(r)
    BY <2>8, <2>0 DEF Commit, Holding, EndTransaction, Goto, pool, Outcome, Setting, Unset
  <2>9. CASE StatementFails(r)
    BY <2>9, <2>0 DEF StatementFails, Holding, Goto, pool
  <2>10. CASE HandlerRaises(r)
    BY <2>10 DEF HandlerRaises, Goto, pool, backend
  <2>11. CASE Rollback(r)
    BY <2>11, <2>0 DEF Rollback, Holding, EndTransaction, Goto, pool, Outcome, Setting, Unset
  <2>12. CASE LoseConnection(r)
    BY <2>12, <2>0 DEF LoseConnection, Holding, EndTransaction, Goto, Outcome, Setting, Unset
  <2>13. CASE Return(r)
    BY <2>13, <2>0 DEF Return, Holding, Goto, backend
  <2>14. QED
    BY <1>5, <2>1, <2>2, <2>3, <2>4, <2>5, <2>6, <2>7, <2>8, <2>9, <2>10, <2>11,
       <2>12, <2>13 DEF Step
<1>6. CASE UNCHANGED vars
  BY <1>6 DEF vars, requests, pool, backend
<1>7. QED
  BY <1>1, <1>2, <1>3, <1>4, <1>5, <1>6 DEF Next

-----------------------------------------------------------------------------
(* The inductive invariant *)

LEMMA InitInv == Init => TypeOK /\ SessionInv
<1> SUFFICES ASSUME Init PROVE TypeOK /\ SessionInv
  OBVIOUS
<1>1. TypeOK
  BY EmptySeq DEF Init, TypeOK, Stage, Outcome, Setting, Unset
<1>2. SessionInv
  BY DEF Init, SessionInv, OneHolder, Holding, Stage, Clean, RowsBelongToTheirAuthor,
         ReadsOwnRowsOnly
<1>3. QED
  BY <1>1, <1>2

\* No two requests share a connection, so a statement of r concerns nobody else:
\* if it keeps r's own connection in order, it keeps the invariant.
LEMMA StatementKeepsInv ==
  ASSUME TypeOK, SessionInv,
         NEW r \in Request, NEW stage \in Holding,
         pc[r] \in Holding, Goto(r, stage),
         UNCHANGED <<caller, conn, pool, session>>,
         \A c \in Conn \ {conn[r]} :
            txn'[c] = txn[c] /\ local'[c] = local[c] /\ pending'[c] = pending[c],
         Established(r)', RowsBelongToTheirAuthor', ReadsOwnRowsOnly'
  PROVE  SessionInv'
<1> USE DEF SessionInv, TypeOK
<1>1. pc' = [pc EXCEPT ![r] = stage] /\ pc'[r] = stage /\ stage \in Stage
  BY DEF Goto, Holding
<1>2. conn[r] \in Conn
  OBVIOUS
<1>3. OneHolder'
  BY DEF OneHolder, pool
<1>4. ASSUME NEW s \in Request PROVE pc'[s] \in Holding <=> pc[s] \in Holding
  BY <1>1, <1>4
<1>5. ASSUME NEW s \in Request, pc'[s] \in Holding PROVE Established(s)'
  <2>1. CASE s = r
    BY <2>1
  <2>2. CASE s # r
    <3>1. conn[s] \in Conn \ {conn[r]} /\ pc[s] \in Holding /\ pc'[s] = pc[s]
      BY <2>2, <1>1, <1>2, <1>4, <1>5 DEF OneHolder
    <3>2. Established(s)
      BY <3>1
    <3>3. QED
      BY <3>1, <3>2 DEF Established, Clean
  <2>3. QED
    BY <2>1, <2>2
<1>6. ASSUME NEW c \in Conn, \A s \in Request : conn'[s] # c PROVE Clean(c)'
  BY <1>6, <1>2 DEF Clean
<1>7. ASSUME NEW s \in Request, pc'[s] \in Holding \cup {"wait"} PROVE caller'[s] \in User
  BY <1>7, <1>1 DEF Holding
<1>8. QED
  BY <1>3, <1>4, <1>5, <1>6, <1>7 DEF pool

\* What holds of rows and of what was read keeps holding when neither changes.
LEMMA HistoryKept ==
  ASSUME SessionInv, UNCHANGED <<rows, seen, caller>>
  PROVE  RowsBelongToTheirAuthor' /\ ReadsOwnRowsOnly'
BY DEF SessionInv, RowsBelongToTheirAuthor, ReadsOwnRowsOnly

\* The end of a transaction leaves its connection clean and no other changed.
LEMMA EndOfTransaction ==
  ASSUME TypeOK, SessionInv, NEW c \in Conn, EndTransaction(c)
  PROVE  /\ Clean(c)' /\ session' = session
         /\ \A d \in Conn \ {c} :
               txn'[d] = txn[d] /\ local'[d] = local[d] /\ pending'[d] = pending[d]
BY DEF TypeOK, EndTransaction, Clean

\* The stages in which a request holds a connection.
LEMMA HoldingStages ==
  Holding = {"begin", "claims", "role", "body", "commit", "rollback", "return"}
BY DEF Holding, Stage

\* Every statement of request_transaction.
LEMMA StatementStep ==
  ASSUME TypeOK, SessionInv, NEW r \in Request,
         \/ BeginTransaction(r) \/ SetClaims(r) \/ SetRole(r) \/ Insert(r) \/ Select(r)
         \/ Commit(r) \/ StatementFails(r) \/ HandlerRaises(r) \/ Rollback(r)
  PROVE  SessionInv'
<1> DEFINE c == conn[r]
<1> USE HoldingStages DEF TypeOK
<1>0. pc[r] \in Holding =>
         c \in Conn /\ Established(r) /\ caller[r] \in User /\ session[c] = Unset
  BY DEF SessionInv
<1>1. CASE BeginTransaction(r)
  <2> USE <1>1 DEF BeginTransaction
  <2>1. Established(r)'
    BY <1>0 DEF Established, Clean, Goto
  <2>2. QED
    BY <1>0, <2>1, HistoryKept, StatementKeepsInv
<1>2. CASE SetClaims(r)
  <2> USE <1>2 DEF SetClaims
  <2>1. local[c] = Unset /\ local'[c] = [local[c] EXCEPT !.claims = caller[r]]
    BY <1>0 DEF Established, Goto
  <2>2. local'[c] = [claims |-> caller[r], role |-> "unset"]
    BY <2>1 DEF Unset
  <2>3. Established(r)'
    BY <1>0, <2>2 DEF Established, Goto
  <2>4. QED
    BY <1>0, <2>3, HistoryKept, StatementKeepsInv
<1>3. CASE SetRole(r)
  <2> USE <1>3 DEF SetRole
  <2>1. /\ local[c] = [claims |-> caller[r], role |-> "unset"]
        /\ local'[c] = [local[c] EXCEPT !.role = "authenticated"]
    BY <1>0 DEF Established, Goto
  <2>2. local'[c] = [claims |-> caller[r], role |-> "authenticated"]
    BY <2>1
  <2>3. Established(r)'
    BY <1>0, <2>2 DEF Established, Goto
  <2>4. QED
    BY <1>0, <2>3, HistoryKept, StatementKeepsInv
<1>4. CASE Insert(r)
  <2> USE <1>4 DEF Insert
  <2>1. Uid(c) = caller[r]
    BY <1>0 DEF Established, Uid
  <2>2. Established(r)'
    BY <1>0, <2>1 DEF Established, Goto
  <2>3. QED
    BY <1>0, <2>2, HistoryKept, StatementKeepsInv
<1>5. CASE Select(r)
  <2> USE <1>5 DEF Select
  <2>1. Uid(c) = caller[r]
    BY <1>0 DEF Established, Uid
  <2>2. Established(r)'
    BY <1>0 DEF Established, Goto, backend
  <2>3. ReadsOwnRowsOnly'
    BY <2>1 DEF SessionInv, ReadsOwnRowsOnly
  <2>4. RowsBelongToTheirAuthor'
    BY DEF SessionInv, RowsBelongToTheirAuthor
  <2>5. QED
    BY <1>0, <2>2, <2>3, <2>4, StatementKeepsInv DEF backend
<1>6. CASE Commit(r)
  <2> USE <1>6 DEF Commit
  <2>1. \A x \in pending[c] : x.by \in User /\ x.owner = x.by
    BY <1>0 DEF Established
  <2>2. RowsBelongToTheirAuthor'
    BY <2>1 DEF SessionInv, RowsBelongToTheirAuthor
  <2>3. ReadsOwnRowsOnly'
    BY DEF SessionInv, ReadsOwnRowsOnly
  <2>4. Established(r)'
    BY <1>0, EndOfTransaction DEF Established, Goto, Clean
  <2>5. QED
    BY <1>0, <2>2, <2>3, <2>4, EndOfTransaction, StatementKeepsInv
<1>7. CASE StatementFails(r)
  <2> USE <1>7 DEF StatementFails
  <2>1. Established(r)'
    BY <1>0 DEF Established, Goto
  <2>2. QED
    BY <1>0, <2>1, HistoryKept, StatementKeepsInv
<1>8. CASE HandlerRaises(r)
  <2> USE <1>8 DEF HandlerRaises
  <2>1. Established(r)'
    BY <1>0 DEF Established, Goto, backend
  <2>2. QED
    BY <1>0, <2>1, HistoryKept, StatementKeepsInv DEF backend
<1>9. CASE Rollback(r)
  <2> USE <1>9 DEF Rollback
  <2>1. Established(r)'
    BY <1>0, EndOfTransaction DEF Established, Goto, Clean
  <2>2. QED
    BY <1>0, <2>1, HistoryKept, EndOfTransaction, StatementKeepsInv
<1>10. QED
  BY <1>1, <1>2, <1>3, <1>4, <1>5, <1>6, <1>7, <1>8, <1>9

\* A request that lets its connection go leaves it clean and held by nobody.
LEMMA LettingGo ==
  ASSUME TypeOK, SessionInv, NEW r \in Request,
         Return(r) \/ LoseConnection(r)
  PROVE  SessionInv'
<1> USE HoldingStages DEF TypeOK, SessionInv
<1>0. PICK c \in Conn : c = conn[r]
  BY DEF Return, LoseConnection
<1>1. c = conn[r] /\ caller[r] \in User /\ Established(r) /\ pc[r] \in Holding
  BY <1>0 DEF Return, LoseConnection
<1>2. pc' = [pc EXCEPT ![r] = "idle"] /\ conn' = [conn EXCEPT ![r] = Nobody]
  BY DEF Return, LoseConnection, Goto
<1>3. Clean(c)'
  <2>1. CASE Return(r)
    BY <2>1, <1>1 DEF Return, Established, Clean, backend
  <2>2. CASE LoseConnection(r)
    BY <2>2, <1>1, EndOfTransaction DEF LoseConnection
  <2>3. QED
    BY <2>1, <2>2
<1>4. \A d \in Conn \ {c} :
         txn'[d] = txn[d] /\ local'[d] = local[d] /\ pending'[d] = pending[d]
  BY <1>1, EndOfTransaction DEF Return, LoseConnection, backend
<1>5. session' = session /\ caller' = caller /\ seen' = seen
  BY DEF Return, LoseConnection, EndTransaction, backend
<1>6. idle' \subseteq open'
  <2>1. CASE Return(r)
    BY <2>1, <1>1 DEF Return, OneHolder
  <2>2. CASE LoseConnection(r)
    BY <2>2, <1>1 DEF LoseConnection, OneHolder
  <2>3. QED
    BY <2>1, <2>2
<1>7. OneHolder'
  <2>1. ASSUME NEW s \in Request, conn'[s] # Nobody
        PROVE  /\ conn'[s] \in open' \ idle'
               /\ \A q \in Request : conn'[q] = conn'[s] => s = q
    <3>1. s # r /\ conn[s] # Nobody /\ conn'[s] = conn[s] /\ conn[s] # c
      BY <2>1, <1>1, <1>2 DEF OneHolder
    <3>2. conn[s] \in open' \ idle'
      BY <3>1 DEF OneHolder, Return, LoseConnection
    <3>3. QED
      BY <2>1, <3>1, <3>2, <1>2 DEF OneHolder
  <2>2. QED
    BY <2>1 DEF OneHolder
<1>8. ASSUME NEW s \in Request, pc'[s] \in Holding PROVE Established(s)'
  <2>1. s # r /\ pc'[s] = pc[s] /\ conn'[s] = conn[s] /\ conn[s] \in Conn \ {c}
    BY <1>1, <1>2, <1>8 DEF OneHolder
  <2>2. Established(s)
    BY <2>1, <1>8
  <2>3. caller'[s] = caller[s] /\ conn'[s] \in Conn
    BY <2>1, <1>5
  <2>4. QED
    BY <2>1, <2>2, <2>3, <1>4 DEF Established, Clean
<1>9. ASSUME NEW d \in Conn, \A s \in Request : conn'[s] # d PROVE Clean(d)'
  <2>1. CASE d = c
    BY <2>1, <1>3 DEF Clean
  <2>2. CASE d # c
    BY <2>2, <1>1, <1>2, <1>4, <1>9 DEF Clean
  <2>3. QED
    BY <2>1, <2>2
<1>10. RowsBelongToTheirAuthor'
  <2>1. \A x \in pending[c] : x.by \in User /\ x.owner = x.by
    <3>1. pending[c] \subseteq {[owner |-> caller[r], by |-> caller[r]]}
      BY <1>1 DEF Established
    <3>2. QED
      BY <1>1, <3>1
  <2>2. rows' = rows \/ rows' = rows \cup pending[c]
    BY <1>1 DEF Return, LoseConnection
  <2>3. QED
    BY <2>1, <2>2 DEF RowsBelongToTheirAuthor
<1>11. ReadsOwnRowsOnly'
  BY <1>5 DEF ReadsOwnRowsOnly
<1>12. \A s \in Request : pc'[s] \in Holding <=> conn'[s] # Nobody
  BY <1>2
<1>13. \A s \in Request : pc'[s] \in Holding \cup {"wait"} => caller'[s] \in User
  BY <1>2, <1>5
<1>14. \A d \in Conn : session'[d] = Unset
  BY <1>5
<1>15. QED
  BY <1>6, <1>7, <1>8, <1>9, <1>10, <1>11, <1>12, <1>13, <1>14

LEMMA InvStep == TypeOK /\ SessionInv /\ [Next]_vars => SessionInv'
<1> SUFFICES ASSUME TypeOK, SessionInv, [Next]_vars PROVE SessionInv'
  OBVIOUS
<1> USE HoldingStages DEF TypeOK, SessionInv
<1>1. ASSUME NEW c \in Conn, Open(c) PROVE SessionInv'
  <2>1. OneHolder'
    BY <1>1 DEF Open, OneHolder, requests
  <2>2. ASSUME NEW r \in Request, pc'[r] \in Holding PROVE Established(r)'
    BY <1>1, <2>2 DEF Open, Established, Clean, requests
  <2>3. ASSUME NEW d \in Conn, \A r \in Request : conn'[r] # d PROVE Clean(d)'
    BY <1>1, <2>3 DEF Open, Clean, requests
  <2>4. idle' \subseteq open' /\ \A d \in Conn : session'[d] = Unset
    BY <1>1 DEF Open
  <2>5. QED
    BY <1>1, <2>1, <2>2, <2>3, <2>4, HistoryKept DEF Open, requests
<1>2. ASSUME NEW r \in Request, NEW u \in Caller, Start(r, u) PROVE SessionInv'
  <2>1. pc' = [pc EXCEPT ![r] = "check"] /\ conn[r] = Nobody
    BY <1>2 DEF Start, Goto
  <2>2. OneHolder'
    BY <1>2 DEF Start, OneHolder, pool
  <2>3. ASSUME NEW s \in Request, pc'[s] \in Holding PROVE Established(s)'
    <3>1. s # r /\ pc'[s] = pc[s] /\ caller'[s] = caller[s]
      BY <1>2, <2>1, <2>3 DEF Start
    <3>2. Established(s)
      BY <3>1, <2>3
    <3>3. QED
      BY <1>2, <3>1, <3>2 DEF Start, Established, Clean, backend
  <2>4. ReadsOwnRowsOnly'
    BY <1>2 DEF Start, ReadsOwnRowsOnly
  <2>5. RowsBelongToTheirAuthor'
    BY <1>2 DEF Start, RowsBelongToTheirAuthor
  <2>6. \A c \in Conn : (\A s \in Request : conn'[s] # c) => Clean(c)'
    BY <1>2 DEF Start, Clean, backend
  <2>7. QED
    BY <1>2, <2>1, <2>2, <2>3, <2>4, <2>5, <2>6 DEF Start, pool, backend
<1>3. ASSUME NEW r \in Request, Obtain(r) PROVE SessionInv'
  <2>1. PICK c \in idle : conn' = [conn EXCEPT ![r] = c] /\ idle' = idle \ {c}
    BY <1>3 DEF Obtain
  <2>2. pc' = [pc EXCEPT ![r] = "begin"] /\ pc[r] = "wait" /\ conn[r] = Nobody
    BY <1>3 DEF Obtain, Goto
  <2>3. \A s \in Request : conn[s] # c
    BY <2>1 DEF OneHolder
  <2>4. c \in Conn /\ Clean(c)
    BY <2>1, <2>3
  <2>5. OneHolder'
    BY <1>3, <2>1, <2>3, <2>4 DEF OneHolder, Obtain
  <2>6. ASSUME NEW s \in Request, pc'[s] \in Holding PROVE Established(s)'
    <3>1. CASE s = r
      BY <1>3, <3>1, <2>1, <2>2, <2>4 DEF Obtain, Established, Clean, backend
    <3>2. CASE s # r
      <4>1. Established(s) /\ pc'[s] = pc[s] /\ conn'[s] = conn[s]
        BY <3>2, <2>1, <2>2, <2>6
      <4>2. QED
        BY <1>3, <4>1 DEF Obtain, Established, Clean, backend
    <3>3. QED
      BY <3>1, <3>2
  <2>7. ASSUME NEW d \in Conn, \A s \in Request : conn'[s] # d PROVE Clean(d)'
    <3>1. \A s \in Request : conn[s] # d
      BY <2>1, <2>2, <2>7
    <3>2. QED
      BY <1>3, <3>1 DEF Obtain, Clean, backend
  <2>8. QED
    BY <1>3, <2>1, <2>2, <2>4, <2>5, <2>6, <2>7, HistoryKept DEF Obtain, backend
<1>4. ASSUME NEW r \in Request, TimeOut(r) \/ Refuse(r) \/ Enqueue(r) PROVE SessionInv'
  <2>1. /\ UNCHANGED <<caller, conn, seen, open, idle, backend, rows>>
        /\ conn[r] = Nobody
        /\ \/ pc' = [pc EXCEPT ![r] = "idle"]
           \/ pc' = [pc EXCEPT ![r] = "wait"] /\ caller[r] \in User
    BY <1>4 DEF TimeOut, Refuse, Enqueue, Goto, pool
  <2>2. OneHolder'
    BY <2>1 DEF OneHolder
  <2>3. ASSUME NEW s \in Request, pc'[s] \in Holding PROVE Established(s)'
    <3>1. Established(s) /\ pc'[s] = pc[s]
      BY <2>1, <2>3
    <3>2. QED
      BY <2>1, <3>1 DEF Established, Clean, backend
  <2>4. \A c \in Conn : (\A s \in Request : conn'[s] # c) => Clean(c)'
    BY <2>1 DEF Clean, backend
  <2>5. QED
    BY <2>1, <2>2, <2>3, <2>4, HistoryKept DEF backend
<1>5. CASE UNCHANGED vars
  <2>1. \A r \in Request : Established(r)' = Established(r)
    BY <1>5 DEF vars, requests, backend, Established, Clean
  <2>2. \A c \in Conn : Clean(c)' = Clean(c)
    BY <1>5 DEF vars, backend, Clean
  <2>3. QED
    BY <1>5, <2>1, <2>2, HistoryKept DEF vars, requests, pool, backend, OneHolder
<1>6. QED
  BY <1>1, <1>2, <1>3, <1>4, <1>5, StatementStep, LettingGo DEF Next, Step

\* SessionInv holds of every reachable state, and so does TypeOK: in particular
\* only a verified subject ever owns a row.
THEOREM SessionInvariant == Spec => [](TypeOK /\ SessionInv)
BY InitInv, TypeStep, InvStep, PTL DEF Spec

-----------------------------------------------------------------------------
(* What follows *)

\* Every variable of the session layer keeps its type.
THEOREM TypeCorrect == Spec => []TypeOK
BY SessionInvariant, PTL

\* The pool lends a connection to one request at a time.
THEOREM ConnectionsHaveOneHolder == Spec => []OneHolder
<1>1. SessionInv => OneHolder
  BY DEF SessionInv
<1>2. QED
  BY <1>1, SessionInvariant, PTL

\* No identity, role, transaction or row survives in a pooled connection, for
\* every interleaving and every statement that can fail.
THEOREM PoolIsAnonymous == Spec => []IdleIsAnonymous
<1>1. TypeOK /\ SessionInv => IdleIsAnonymous
  <2> SUFFICES ASSUME TypeOK, SessionInv, NEW c \in idle
               PROVE Uid(c) = Nobody /\ ~Privileged(c) /\ txn[c] = "none" /\ pending[c] = {}
    BY DEF IdleIsAnonymous
  <2>1. c \in Conn /\ \A r \in Request : conn[r] # c
    BY NobodyAssumption DEF TypeOK, SessionInv, OneHolder
  <2>2. Clean(c) /\ session[c] = Unset
    BY <2>1 DEF SessionInv
  <2>3. QED
    BY <2>2 DEF Clean, Uid, Privileged, Unset
<1>2. QED
  BY <1>1, SessionInvariant, PTL

\* A committed row belongs to the verified caller that inserted it.
THEOREM AuthorshipIsKept == Spec => []RowsBelongToTheirAuthor
<1>1. SessionInv => RowsBelongToTheirAuthor
  BY DEF SessionInv
<1>2. QED
  BY <1>1, SessionInvariant, PTL

\* A request never reads a row of another caller.
THEOREM ReadsAreIsolated == Spec => []ReadsOwnRowsOnly
<1>1. SessionInv => ReadsOwnRowsOnly
  BY DEF SessionInv
<1>2. QED
  BY <1>1, SessionInvariant, PTL

\* The handler's statement never runs outside its caller's identity.
THEOREM HandlerRunsAsCaller == Spec => []BodyRunsAsCaller
<1>1. TypeOK /\ SessionInv => BodyRunsAsCaller
  <2> SUFFICES ASSUME TypeOK, SessionInv, NEW r \in Request, pc[r] \in {"body", "commit"}
               PROVE /\ conn[r] \in Conn
                     /\ txn[conn[r]] = "open"
                     /\ Privileged(conn[r])
                     /\ Uid(conn[r]) = caller[r]
    BY DEF BodyRunsAsCaller
  <2>1. conn[r] \in Conn /\ caller[r] \in User /\ Established(r)
    BY HoldingStages DEF TypeOK, SessionInv
  <2>2. /\ txn[conn[r]] = "open"
        /\ local[conn[r]] = [claims |-> caller[r], role |-> "authenticated"]
    BY <2>1 DEF Established
  <2>3. QED
    BY <2>1, <2>2 DEF Uid, Privileged
<1>2. QED
  BY <1>1, SessionInvariant, PTL
=============================================================================
