-------------------------- MODULE RequestBoundary --------------------------
(***************************************************************************)
(* From an HTTP request to a handler with a VerifiedIdentity: the bearer   *)
(* header (backend/app/http/dependencies.py), the verifier                 *)
(* (auth/verifier.py), the payload's shape (http/schemas.py) and the       *)
(* handler.  A thread serves one request at a time; threads share the JWKS *)
(* cache and nothing else.  The cache is KeyTrust, which JwksCache         *)
(* implements: it trusts or refuses the kid a thread asks for, in its own  *)
(* time.  Each call into PyJWT, each group of checks and the handler is    *)
(* one step; the clock and the provider's rotations move in between.       *)
(*                                                                         *)
(* A token is a record of what the checks look at.  Its claims are those   *)
(* its signer put there; the signature verifies under the key of the kid   *)
(* that signed it and under no other.                                      *)
(***************************************************************************)
EXTENDS KeyTrust

CONSTANTS
    Subject,   \* what `sub` claims name
    User,      \* those of them that are UUIDs
    Token,     \* the tokens in circulation
    NoKid,     \* a token header without kid
    NoHeader,  \* no Authorization header, or none with a token that parses
    Nobody,    \* no identity
    Skew,      \* CLOCK_SKEW_SECONDS
    KeyAlgorithm  \* the algorithm that the type of each kid's key is for

\* The pinned allow-list.
ALLOWED_ALGORITHMS == {"ES256", "RS256"}
Algorithm == ALLOWED_ALGORITHMS \cup {"other"}

Claim ==
    [kid : Kid \cup {NoKid}, alg : Algorithm, signer : Kid, registered : {"good", "bad"},
     iat : Nat, exp : Nat, role : {"authenticated", "anon"}, sub : Subject]

ASSUME SubjectAssumption == User \subseteq Subject /\ Nobody \notin Subject
ASSUME TokenAssumption == Token \subseteq Claim /\ NoHeader \notin Token
ASSUME NoKidAssumption == NoKid \notin Kid
ASSUME SkewAssumption == Skew \in Nat
ASSUME KeyAssumption == KeyAlgorithm \in [Kid -> Algorithm]
ASSUME WindowAssumption == TrustWindow \in Nat \ {0} /\ Never \notin Nat

VARIABLES
    stage,     \* what the request does next; "free" when the thread serves none
    header,    \* its Authorization header: a token, or NoHeader
    identity,  \* the VerifiedIdentity the handler receives, or Nobody
    status,    \* of the response; "handled" stands for whatever a handler answers
    arrived    \* history: when the request came

exchange == <<stage, header, identity, status, arrived>>
boundaryVars == <<vars, exchange>>

Status == {"none", "401", "422", "500", "handled"}

BoundaryTypeOK ==
    /\ TypeOK
    /\ stage \in [Thread -> {"free", "header", "key", "decode", "claims", "schema", "handler"}]
    /\ header \in [Thread -> Token \cup {NoHeader}]
    /\ identity \in [Thread -> User \cup {Nobody}]
    /\ status \in [Thread -> Status]
    /\ arrived \in [Thread -> Nat]

BoundaryInit ==
    /\ Init
    /\ stage = [t \in Thread |-> "free"]
    /\ header = [t \in Thread |-> NoHeader]
    /\ identity = [t \in Thread |-> Nobody]
    /\ status = [t \in Thread |-> "none"]
    /\ arrived = [t \in Thread |-> 0]

-----------------------------------------------------------------------------
(* One request, on thread t *)

Arrive(t, h) ==
    /\ stage[t] = "free"
    /\ stage' = [stage EXCEPT ![t] = "header"]
    /\ header' = [header EXCEPT ![t] = h]
    /\ status' = [status EXCEPT ![t] = "none"]
    /\ arrived' = [arrived EXCEPT ![t] = now]
    /\ UNCHANGED <<vars, identity>>

Proceed(t, to) ==
    /\ stage' = [stage EXCEPT ![t] = to]
    /\ UNCHANGED <<header, status, arrived>>

Continue(t, to) == Proceed(t, to) /\ UNCHANGED identity

\* The response is sent; the request is gone.
Answer(t, s) ==
    /\ stage' = [stage EXCEPT ![t] = "free"]
    /\ status' = [status EXCEPT ![t] = s]
    /\ header' = [header EXCEPT ![t] = NoHeader]
    /\ identity' = [identity EXCEPT ![t] = Nobody]
    /\ arrived' = [arrived EXCEPT ![t] = 0]

\* _unauthenticated
Unauthenticated(t) == Answer(t, "401")

\* The framework parses the body as JSON before it resolves the dependencies.
RefuseBody(t) ==
    /\ stage[t] = "header"
    /\ Answer(t, "422")
    /\ UNCHANGED vars

\* _extract_bearer, or get_unverified_header in verify, raises.
RefuseHeader(t) ==
    /\ stage[t] = "header"
    /\ header[t] \notin Token
    /\ Unauthenticated(t)
    /\ UNCHANGED vars

\* verify calls get_key(header.get("kid", "")).
AskForKey(t) ==
    /\ stage[t] = "header"
    /\ header[t] \in Token
    /\ IF header[t].kid = NoKid THEN Refuse(t) ELSE Ask(t, header[t].kid)
    /\ Continue(t, "key")

KeyReceived(t) ==
    /\ stage[t] = "key"
    /\ verdict[t] = "trust"
    /\ Continue(t, "decode")
    /\ UNCHANGED vars

\* get_key raises.  An AuthenticationError becomes the 401; the exceptions of a
\* fetch that _refresh does not translate (JwksCache, FetchFailed), nobody does.
KeyRefused(t) ==
    /\ stage[t] = "key"
    /\ verdict[t] = "refuse"
    /\ Unauthenticated(t) \/ (header[t].kid # NoKid /\ Answer(t, "500"))
    /\ UNCHANGED vars

AllowedAndFitting(token, k) == token.alg \in ALLOWED_ALGORITHMS /\ token.alg = KeyAlgorithm[k]

\* PyJWT refuses to prepare a key of another type than the algorithm's, with a
\* TypeError, which verify does not translate.
CannotPrepare(token, k) == token.alg \in ALLOWED_ALGORITHMS /\ token.alg # KeyAlgorithm[k]

\* Mutant: a token is good until its expiry and the skew have passed, and then
\* one instant more.
Decodes_Lenient(token, k) ==
    /\ AllowedAndFitting(token, k) /\ token.signer = k
    /\ token.iat <= now + Skew
    /\ now <= token.exp + Skew
    /\ token.registered = "good"

\* Mutant: the claims are read without verifying the signature.
Decodes_Unsigned(token, k) ==
    /\ token.iat <= now + Skew
    /\ now < token.exp + Skew
    /\ token.registered = "good"

\* jwt.decode with the key of k: the algorithm and the signature, then the
\* registered claims (issuer, audience, presence) and times.  Expired means
\* exp <= now - leeway.
Decodes(token, k) ==
    /\ AllowedAndFitting(token, k) /\ token.signer = k
    /\ token.iat <= now + Skew
    /\ now < token.exp + Skew
    /\ token.registered = "good"

\* Mutant: no _check_subject.
Acceptable_AnySubject(token) ==
    /\ token.iat <= now + Skew
    /\ token.role = "authenticated"

\* _check_temporal, _check_role and _check_subject
Acceptable(token) ==
    /\ token.iat <= now + Skew
    /\ token.role = "authenticated"
    /\ token.sub \in User

\* _build: the VerifiedIdentity of subject, which is a UUID here.
Build(t, subject) == identity' = [identity EXCEPT ![t] = subject]

Decode(t) ==
    /\ stage[t] = "decode"
    /\ IF CannotPrepare(header[t], kid[t]) THEN Answer(t, "500")
       ELSE IF Decodes(header[t], kid[t]) THEN Continue(t, "claims")
       ELSE Unauthenticated(t)
    /\ UNCHANGED vars

\* Mutant: the thread's identity is looked up by kid, and found where another
\* request with that kid left it.
CheckClaims_ByKid(t) ==
    /\ stage[t] = "claims"
    /\ IF Acceptable(header[t])
       THEN /\ Proceed(t, "schema")
            /\ \E s \in Thread :
                  /\ s = t \/ (kid[s] = kid[t] /\ identity[s] # Nobody)
                  /\ identity' = [identity EXCEPT
                        ![t] = IF s = t THEN header[t].sub ELSE identity[s]]
       ELSE Unauthenticated(t)
    /\ UNCHANGED vars

\* ... and _build.
CheckClaims(t) ==
    /\ stage[t] = "claims"
    /\ IF Acceptable(header[t])
       THEN /\ Proceed(t, "schema")
            /\ Build(t, header[t].sub)
       ELSE Unauthenticated(t)
    /\ UNCHANGED vars

\* The body's shape is judged after the dependencies and before the handler.
CheckPayload(t) ==
    /\ stage[t] = "schema"
    /\ Continue(t, "handler") \/ Answer(t, "422")
    /\ UNCHANGED vars

\* The handler answers; what it does is StudentStore's and DbSession's.
Handle(t) ==
    /\ stage[t] = "handler"
    /\ Answer(t, "handled")
    /\ UNCHANGED vars

Serve(t) ==
    \/ RefuseBody(t)
    \/ RefuseHeader(t)
    \/ AskForKey(t)
    \/ KeyReceived(t)
    \/ KeyRefused(t)
    \/ Decode(t)
    \/ CheckClaims(t)
    \/ CheckPayload(t)
    \/ Handle(t)

\* get_key returns or raises.
KeyDecided(t) ==
    /\ verdict[t] = "pending"
    /\ TrustKey(t) \/ Refuse(t)
    /\ UNCHANGED exchange

BoundaryNext ==
    \/ (Tick \/ \E S \in SUBSET Kid : Publish(S)) /\ UNCHANGED exchange
    \/ \E t \in Thread :
          \/ \E h \in Token \cup {NoHeader} : Arrive(t, h)
          \/ Serve(t)
          \/ KeyDecided(t)

BoundarySpec == BoundaryInit /\ [][BoundaryNext]_boundaryVars

-----------------------------------------------------------------------------
(* Properties *)

InHandler(t) == stage[t] = "handler"

\* ADR-0064 I-25, I-29 and H7: a handler runs for a request of its own, whose
\* token names the very subject the handler acts for, is signed by the key it
\* names with an allowed algorithm, and passed every check, whatever the other
\* threads are verifying.
HandlerActsForBearer ==
    \A t \in Thread : InHandler(t) =>
        /\ header[t] \in Token
        /\ identity[t] = header[t].sub /\ identity[t] \in User
        /\ header[t].signer = header[t].kid /\ header[t].alg \in ALLOWED_ALGORITHMS
        /\ header[t].registered = "good" /\ header[t].role = "authenticated"

\* A request that comes after its token has expired, by more than the skew, does
\* not reach a handler, and none does before its token was issued, less the skew.
ExpiredTokenIsRefused ==
    \A t \in Thread : InHandler(t) =>
        arrived[t] < header[t].exp + Skew /\ header[t].iat <= now + Skew

\* Rotation revokes: a request that comes TrustWindow after the provider has
\* withdrawn the key its token is signed with does not reach a handler, whatever
\* is cached and whoever cached it.
WithdrawnKeyLosesAccess ==
    \A t \in Thread : InHandler(t) => PublishedWithin(header[t].signer, TrustWindow, arrived[t])

HasAsked(t) == stage[t] \notin {"free", "header"} /\ verdict[t] # "refuse"

\* What t has established at each stage: the inductive invariant.
Verified(t) ==
    /\ stage[t] # "free" => arrived[t] <= now
    /\ stage[t] \notin {"free", "header"} => header[t] \in Token
    /\ stage[t] = "key" => verdict[t] \in {"pending", "trust", "refuse"}
    /\ HasAsked(t) =>
          kid[t] = header[t].kid /\ arrived[t] <= since[t] /\ since[t] <= now
    /\ verdict[t] = "trust" /\ HasAsked(t) => PublishedWithin(kid[t], TrustWindow, since[t])
    /\ stage[t] \in {"decode", "claims", "schema", "handler"} => verdict[t] = "trust"
    /\ stage[t] \in {"claims", "schema", "handler"} =>
          /\ header[t].signer = header[t].kid /\ header[t].alg \in ALLOWED_ALGORITHMS
          /\ header[t].registered = "good"
          /\ header[t].iat <= now + Skew /\ arrived[t] < header[t].exp + Skew
    /\ stage[t] \in {"schema", "handler"} =>
          header[t].role = "authenticated" /\ header[t].sub \in User /\ identity[t] = header[t].sub

\* Nothing a thread has established is undone by the clock, by the provider or by
\* another thread's request while its own is on its way.
BoundaryInv == BoundaryTypeOK /\ \A t \in Thread : Verified(t)

\* ADR-0064 section 1, I-24: a request that ends without an identity is answered
\* by the one 401, "JWKS unavailable" included.  (A body that is not JSON is
\* refused before authentication, which has not failed then.)
RefusalsAreUniform ==
    \A t \in Thread : stage[t] = "free" => status[t] \in {"none", "401", "422", "handled"}
=============================================================================
