----------------------- MODULE RequestBoundaryProofs -----------------------
(* Proofs about RequestBoundary, for any threads, keys, tokens and times. *)
EXTENDS RequestBoundary, TLAPS

USE SubjectAssumption, TokenAssumption, NoKidAssumption, SkewAssumption, WindowAssumption

\* What a key published within a window before `at` has done is not undone by a
\* rotation that happens later: a key withdrawn now was published until now.
LEMMA PublishedStays ==
    ASSUME TypeOK, NEW S \in SUBSET Kid, Publish(S), NEW k \in Kid, NEW at \in Nat,
           at <= now, PublishedWithin(k, TrustWindow, at)
    PROVE  PublishedWithin(k, TrustWindow, at)'
<1>1. CASE k \in S
  BY <1>1 DEF PublishedWithin, Publish
<1>2. CASE k \in published \ S
  <2>1. withdrawnAt'[k] = now
    BY <1>2 DEF Publish
  <2>2. now # Never /\ at < now + TrustWindow
    BY DEF TypeOK
  <2> QED
    BY <2>1, <2>2 DEF PublishedWithin
<1>3. CASE k \notin published /\ k \notin S
  <2>1. withdrawnAt'[k] = withdrawnAt[k]
    BY <1>3 DEF Publish
  <2> QED
    BY <1>3, <2>1 DEF PublishedWithin
<1> QED
  BY <1>1, <1>2, <1>3

\* A step on one thread's request leaves what the other threads have established.
LEMMA OthersKeep ==
    ASSUME BoundaryInv, NEW u \in Thread,
           UNCHANGED <<now, published, withdrawnAt>>,
           UNCHANGED <<stage[u], header[u], identity[u], arrived[u], kid[u], since[u], verdict[u]>>
    PROVE  Verified(u)'
BY DEF BoundaryInv, Verified, HasAsked, PublishedWithin

\* A request that ends leaves its thread with nothing established.
LEMMA AnswerKeeps ==
    ASSUME BoundaryInv, NEW t \in Thread, NEW s \in Status, Answer(t, s), UNCHANGED vars
    PROVE  BoundaryInv'
<1> USE DEF BoundaryInv
<1>1. BoundaryTypeOK'
  BY DEF BoundaryTypeOK, TypeOK, Answer, vars
<1>2. ASSUME NEW u \in Thread
      PROVE  Verified(u)'
  <2>1. CASE u = t
    BY <2>1 DEF Verified, HasAsked, Answer, BoundaryTypeOK
  <2>2. CASE u # t
    BY <2>2, OthersKeep DEF Answer, BoundaryTypeOK, vars
  <2> QED
    BY <2>1, <2>2
<1> QED
  BY <1>1, <1>2

\* What every state of the boundary satisfies: a thread that has come to a stage
\* has passed the checks before it, and nothing takes that back.
THEOREM BoundaryInvariant == BoundarySpec => []BoundaryInv
<1>1. BoundaryInit => BoundaryInv
  BY DEF BoundaryInit, Init, BoundaryInv, BoundaryTypeOK, TypeOK, Verdict, Status, Verified,
         HasAsked
<1>2. BoundaryInv /\ [BoundaryNext]_boundaryVars => BoundaryInv'
  <2> SUFFICES ASSUME BoundaryInv, [BoundaryNext]_boundaryVars PROVE BoundaryInv'
    OBVIOUS
  <2> USE DEF BoundaryInv
  <2>1. CASE Tick /\ UNCHANGED exchange
    <3>1. BoundaryTypeOK'
      BY <2>1 DEF BoundaryTypeOK, TypeOK, Tick, exchange
    <3>2. ASSUME NEW u \in Thread PROVE Verified(u)'
      BY <2>1 DEF BoundaryTypeOK, TypeOK, Tick, exchange, Verified, HasAsked, PublishedWithin, Claim
    <3> QED
      BY <3>1, <3>2
  <2>2. ASSUME NEW S \in SUBSET Kid, Publish(S), UNCHANGED exchange PROVE BoundaryInv'
    <3>1. BoundaryTypeOK'
      BY <2>2 DEF BoundaryTypeOK, TypeOK, Publish, exchange
    <3>2. ASSUME NEW u \in Thread PROVE Verified(u)'
      <4>1. verdict[u] = "trust" /\ HasAsked(u) => PublishedWithin(kid[u], TrustWindow, since[u])'
        <5>1. UNCHANGED <<kid[u], since[u]>> /\ kid[u] \in Kid /\ since[u] \in Nat
          BY <2>2 DEF Publish, BoundaryTypeOK, TypeOK
        <5> SUFFICES ASSUME verdict[u] = "trust", HasAsked(u)
                     PROVE  PublishedWithin(kid[u], TrustWindow, since[u])'
          OBVIOUS
        <5>2. PublishedWithin(kid[u], TrustWindow, since[u]) /\ since[u] <= now
          BY DEF Verified
        <5> QED
          BY <2>2, <5>1, <5>2, PublishedStays DEF BoundaryTypeOK, PublishedWithin
      <4> QED
        BY <2>2, <4>1 DEF Publish, exchange, Verified, HasAsked
    <3> QED
      BY <3>1, <3>2
  <2>3. ASSUME NEW t \in Thread, NEW h \in Token \cup {NoHeader}, Arrive(t, h)
        PROVE  BoundaryInv'
    <3>1. BoundaryTypeOK'
      BY <2>3 DEF BoundaryTypeOK, TypeOK, Arrive, vars, Status
    <3>2. ASSUME NEW u \in Thread PROVE Verified(u)'
      <4>1. CASE u = t
        BY <2>3, <4>1 DEF Arrive, BoundaryTypeOK, TypeOK, Verified, HasAsked, vars
      <4>2. CASE u # t
        BY <2>3, <4>2, OthersKeep DEF Arrive, BoundaryTypeOK, vars
      <4> QED
        BY <4>1, <4>2
    <3> QED
      BY <3>1, <3>2
  <2>4. ASSUME NEW t \in Thread, RefuseBody(t) \/ RefuseHeader(t) \/ KeyRefused(t) \/ Handle(t)
        PROVE  BoundaryInv'
    BY <2>4, AnswerKeeps DEF RefuseBody, RefuseHeader, KeyRefused, Handle, Unauthenticated, Status
  <2>5. ASSUME NEW t \in Thread, AskForKey(t) PROVE BoundaryInv'
    <3>1. header[t].kid # NoKid => header[t].kid \in Kid
      BY <2>5 DEF AskForKey, Claim
    <3>2. CASE header[t].kid = NoKid
      <4>1. Refuse(t) /\ Continue(t, "key") /\ header[t] \in Token /\ stage[t] = "header"
        BY <2>5, <3>2 DEF AskForKey
      <4>2. BoundaryTypeOK'
        BY <4>1 DEF Refuse, Continue, Proceed, BoundaryTypeOK, TypeOK, Verdict
      <4>3. ASSUME NEW u \in Thread PROVE Verified(u)'
        <5>1. CASE u = t
          BY <4>1, <5>1 DEF Refuse, Continue, Proceed, BoundaryTypeOK, TypeOK, Verified, HasAsked
        <5>2. CASE u # t
          BY <4>1, <5>2, OthersKeep DEF Refuse, Continue, Proceed, BoundaryTypeOK, TypeOK
        <5> QED
          BY <5>1, <5>2
      <4> QED
        BY <4>2, <4>3
    <3>3. CASE header[t].kid # NoKid
      <4>1. Ask(t, header[t].kid) /\ Continue(t, "key") /\ header[t] \in Token /\ stage[t] = "header"
        BY <2>5, <3>3 DEF AskForKey
      <4>2. BoundaryTypeOK'
        BY <4>1, <3>1, <3>3 DEF Ask, Continue, Proceed, BoundaryTypeOK, TypeOK, Verdict
      <4>3. ASSUME NEW u \in Thread PROVE Verified(u)'
        <5>1. CASE u = t
          BY <4>1, <5>1, <3>1, <3>3 DEF Ask, Continue, Proceed, BoundaryTypeOK, TypeOK, Verified, HasAsked
        <5>2. CASE u # t
          BY <4>1, <5>2, OthersKeep DEF Ask, Continue, Proceed, BoundaryTypeOK, TypeOK
        <5> QED
          BY <5>1, <5>2
      <4> QED
        BY <4>2, <4>3
    <3> QED
      BY <3>2, <3>3
  <2>6. ASSUME NEW t \in Thread, KeyReceived(t) PROVE BoundaryInv'
    <3>1. BoundaryTypeOK'
      BY <2>6 DEF KeyReceived, Continue, Proceed, BoundaryTypeOK, TypeOK, vars
    <3>2. ASSUME NEW u \in Thread PROVE Verified(u)'
      <4>1. CASE u = t
        BY <2>6, <4>1 DEF KeyReceived, Continue, Proceed, BoundaryTypeOK, TypeOK, vars, Verified,
                          HasAsked, PublishedWithin
      <4>2. CASE u # t
        BY <2>6, <4>2, OthersKeep DEF KeyReceived, Continue, Proceed, BoundaryTypeOK, vars
      <4> QED
        BY <4>1, <4>2
    <3> QED
      BY <3>1, <3>2
  <2>7. ASSUME NEW t \in Thread, Decode(t) PROVE BoundaryInv'
    <3>1. CASE ~CannotPrepare(header[t], kid[t]) /\ Decodes(header[t], kid[t])
      <4>1. stage[t] = "decode" /\ Continue(t, "claims") /\ UNCHANGED vars
        BY <2>7, <3>1 DEF Decode
      <4>2. BoundaryTypeOK'
        BY <4>1 DEF Continue, Proceed, BoundaryTypeOK, TypeOK, vars
      <4>3. ASSUME NEW u \in Thread PROVE Verified(u)'
        <5>1. CASE u = t
          <6>1. HasAsked(t) /\ header[t] \in Token /\ arrived[t] <= now /\ arrived[t] \in Nat /\ now \in Nat
            BY <4>1 DEF Verified, HasAsked, BoundaryTypeOK, TypeOK
          <6>2. header[t].signer = header[t].kid /\ header[t].exp \in Nat
            BY <3>1, <6>1 DEF Decodes, Verified, Claim
          <6>3. arrived[t] < header[t].exp + Skew
            BY <3>1, <6>1, <6>2 DEF Decodes
          <6> QED
            BY <3>1, <4>1, <5>1, <6>1, <6>2, <6>3
               DEF Decodes, AllowedAndFitting, Continue, Proceed, BoundaryTypeOK, vars, Verified,
                   HasAsked, PublishedWithin
        <5>2. CASE u # t
          BY <4>1, <5>2, OthersKeep DEF Continue, Proceed, BoundaryTypeOK, vars
        <5> QED
          BY <5>1, <5>2
      <4> QED
        BY <4>2, <4>3
    <3>2. CASE Answer(t, "500") \/ Unauthenticated(t)
      BY <2>7, <3>2, AnswerKeeps DEF Decode, Unauthenticated, Status
    <3> QED
      BY <2>7, <3>1, <3>2 DEF Decode
  <2>8. ASSUME NEW t \in Thread, CheckClaims(t) PROVE BoundaryInv'
    <3>1. CASE Acceptable(header[t])
      <4>1. stage[t] = "claims" /\ Proceed(t, "schema") /\ Build(t, header[t].sub) /\ UNCHANGED vars
        BY <2>8, <3>1 DEF CheckClaims
      <4>2. header[t].sub \in User /\ header[t].role = "authenticated"
        BY <3>1 DEF Acceptable
      <4>3. BoundaryTypeOK'
        BY <4>1, <4>2 DEF Proceed, Build, BoundaryTypeOK, TypeOK, vars
      <4>4. ASSUME NEW u \in Thread PROVE Verified(u)'
        <5>1. CASE u = t
          BY <4>1, <4>2, <5>1 DEF Proceed, Build, BoundaryTypeOK, vars, Verified, HasAsked,
                                  PublishedWithin
        <5>2. CASE u # t
          BY <4>1, <5>2, OthersKeep DEF Proceed, Build, BoundaryTypeOK, vars
        <5> QED
          BY <5>1, <5>2
      <4> QED
        BY <4>3, <4>4
    <3>2. CASE ~Acceptable(header[t])
      BY <2>8, <3>2, AnswerKeeps DEF CheckClaims, Unauthenticated, Status
    <3> QED
      BY <3>1, <3>2
  <2>9. ASSUME NEW t \in Thread, CheckPayload(t) PROVE BoundaryInv'
    <3>1. CASE Answer(t, "422")
      BY <2>9, <3>1, AnswerKeeps DEF CheckPayload, Status
    <3>2. CASE Continue(t, "handler")
      <4>1. BoundaryTypeOK'
        BY <2>9, <3>2 DEF CheckPayload, Continue, Proceed, BoundaryTypeOK, TypeOK, vars
      <4>2. ASSUME NEW u \in Thread PROVE Verified(u)'
        <5>1. CASE u = t
          BY <2>9, <3>2, <5>1 DEF CheckPayload, Continue, Proceed, BoundaryTypeOK, vars, Verified,
                                  HasAsked, PublishedWithin
        <5>2. CASE u # t
          BY <2>9, <3>2, <5>2, OthersKeep DEF CheckPayload, Continue, Proceed, BoundaryTypeOK, vars
        <5> QED
          BY <5>1, <5>2
      <4> QED
        BY <4>1, <4>2
    <3> QED
      BY <2>9, <3>1, <3>2 DEF CheckPayload
  <2>10. ASSUME NEW t \in Thread, KeyDecided(t) PROVE BoundaryInv'
    <3>1. CASE TrustKey(t)
      <4>1. BoundaryTypeOK'
        BY <2>10, <3>1 DEF KeyDecided, TrustKey, exchange, BoundaryTypeOK, TypeOK, Verdict
      <4>2. ASSUME NEW u \in Thread PROVE Verified(u)'
        <5>1. CASE u = t
          BY <2>10, <3>1, <5>1 DEF KeyDecided, TrustKey, exchange, BoundaryTypeOK, TypeOK, Verified,
                                   HasAsked, PublishedWithin
        <5>2. CASE u # t
          BY <2>10, <3>1, <5>2, OthersKeep DEF KeyDecided, TrustKey, exchange, BoundaryTypeOK, TypeOK
        <5> QED
          BY <5>1, <5>2
      <4> QED
        BY <4>1, <4>2
    <3>2. CASE Refuse(t)
      <4>1. BoundaryTypeOK'
        BY <2>10, <3>2 DEF KeyDecided, Refuse, exchange, BoundaryTypeOK, TypeOK, Verdict
      <4>2. ASSUME NEW u \in Thread PROVE Verified(u)'
        <5>1. CASE u = t
          BY <2>10, <3>2, <5>1 DEF KeyDecided, Refuse, exchange, BoundaryTypeOK, TypeOK, Verified,
                                   HasAsked
        <5>2. CASE u # t
          BY <2>10, <3>2, <5>2, OthersKeep DEF KeyDecided, Refuse, exchange, BoundaryTypeOK, TypeOK
        <5> QED
          BY <5>1, <5>2
      <4> QED
        BY <4>1, <4>2
    <3> QED
      BY <2>10, <3>1, <3>2 DEF KeyDecided
  <2>11. CASE UNCHANGED boundaryVars
    <3>1. BoundaryTypeOK'
      BY <2>11 DEF boundaryVars, exchange, vars, BoundaryTypeOK, TypeOK
    <3> QED
      BY <2>11, <3>1, OthersKeep DEF boundaryVars, exchange, vars
  <2> QED
    BY <2>1, <2>2, <2>3, <2>4, <2>5, <2>6, <2>7, <2>8, <2>9, <2>10, <2>11 DEF BoundaryNext, Serve
<1> QED
  BY <1>1, <1>2, PTL DEF BoundarySpec

\* Type correctness; in particular no identity is ever made of a subject that is
\* not a UUID.
THEOREM BoundaryTypeCorrect == BoundarySpec => []BoundaryTypeOK
<1>1. BoundaryInv => BoundaryTypeOK
  BY DEF BoundaryInv
<1> QED
  BY <1>1, BoundaryInvariant, PTL

\* A handler acts for the bearer of the token of its own request.
THEOREM HandlersActForTheirBearer == BoundarySpec => []HandlerActsForBearer
<1>1. BoundaryInv => HandlerActsForBearer
  BY DEF BoundaryInv, Verified, HandlerActsForBearer, InHandler
<1> QED
  BY <1>1, BoundaryInvariant, PTL

\* No request is handled that came after its token had expired.
THEOREM ExpiredTokensAreRefused == BoundarySpec => []ExpiredTokenIsRefused
<1>1. BoundaryInv => ExpiredTokenIsRefused
  BY DEF BoundaryInv, Verified, ExpiredTokenIsRefused, InHandler
<1> QED
  BY <1>1, BoundaryInvariant, PTL

\* No request is handled that came a trust window after the key of its token was
\* withdrawn.
THEOREM RotationRevokes == BoundarySpec => []WithdrawnKeyLosesAccess
<1>1. BoundaryInv => WithdrawnKeyLosesAccess
  <2> SUFFICES ASSUME BoundaryInv, NEW t \in Thread, InHandler(t)
               PROVE  PublishedWithin(header[t].signer, TrustWindow, arrived[t])
    BY DEF WithdrawnKeyLosesAccess
  <2>1. /\ PublishedWithin(kid[t], TrustWindow, since[t]) /\ arrived[t] <= since[t]
        /\ header[t].signer = kid[t]
    BY DEF BoundaryInv, Verified, HasAsked, InHandler
  <2>2. kid[t] \in Kid /\ since[t] \in Nat /\ arrived[t] \in Nat /\ withdrawnAt[kid[t]] \in Nat \cup {Never}
    BY DEF BoundaryInv, BoundaryTypeOK, TypeOK
  <2> QED
    BY <2>1, <2>2 DEF PublishedWithin
<1> QED
  BY <1>1, BoundaryInvariant, PTL
=============================================================================
