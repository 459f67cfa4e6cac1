------------------------------ MODULE KeyTrust ------------------------------
(***************************************************************************)
(* What the JWKS cache promises to the verifier that asks it for a key,    *)
(* with nothing of how it keeps the promise: no cache, no fetch, no rate   *)
(* limit.  A thread asks for the key of a kid; it is told to trust that    *)
(* key, or it is refused.  It is told to trust it only if the provider     *)
(* still published the key less than TrustWindow before the question was   *)
(* asked: a withdrawn signing key stops being accepted after a bounded     *)
(* time, whatever the other threads do.                                    *)
(*                                                                         *)
(* JwksCache implements this module (JwksCache!Trust).                     *)
(***************************************************************************)
EXTENDS Naturals

CONSTANTS
    Thread,       \* the request threads of one process
    Kid,          \* key identifiers
    Never,        \* "this has not happened": the code's None
    TrustWindow,  \* for how long a withdrawn key may still be trusted
    MaxTime       \* bound: the clock stops here

VARIABLES
    now,          \* the clock
    published,    \* the kids in the provider's key document
    withdrawnAt,  \* kid -> when the provider last withdrew it, or Never
    kid,          \* thread -> the kid it asked for
    since,        \* thread -> when it asked (0 once refused)
    verdict       \* thread -> "none", "pending", "trust" or "refuse"

vars == <<now, published, withdrawnAt, kid, since, verdict>>

Verdict == {"none", "pending", "trust", "refuse"}

TypeOK ==
    /\ now \in Nat
    /\ published \in SUBSET Kid
    /\ withdrawnAt \in [Kid -> Nat \cup {Never}]
    /\ kid \in [Thread -> Kid]
    /\ since \in [Thread -> Nat]
    /\ verdict \in [Thread -> Verdict]

\* The provider published k at some moment less than `window` before `at`.
PublishedWithin(k, window, at) ==
    \/ k \in published
    \/ withdrawnAt[k] # Never /\ at < withdrawnAt[k] + window

Init ==
    /\ now = 0
    /\ published \in SUBSET Kid
    /\ withdrawnAt = [k \in Kid |-> Never]
    /\ kid \in [Thread -> Kid]
    /\ since = [t \in Thread |-> 0]
    /\ verdict = [t \in Thread |-> "none"]

\* Time passes.
Tick ==
    /\ now < MaxTime
    /\ now' = now + 1
    /\ UNCHANGED <<published, withdrawnAt, kid, since, verdict>>

\* The provider replaces its key document.
Publish(S) ==
    /\ published' = S
    /\ withdrawnAt' = [k \in Kid |-> IF k \in published \ S THEN now ELSE withdrawnAt[k]]
    /\ UNCHANGED <<now, kid, since, verdict>>

Ask(t, k) ==
    /\ verdict[t] # "pending"
    /\ kid' = [kid EXCEPT ![t] = k]
    /\ since' = [since EXCEPT ![t] = now]
    /\ verdict' = [verdict EXCEPT ![t] = "pending"]
    /\ UNCHANGED <<now, published, withdrawnAt>>

TrustKey(t) ==
    /\ verdict[t] = "pending"
    /\ PublishedWithin(kid[t], TrustWindow, since[t])
    /\ verdict' = [verdict EXCEPT ![t] = "trust"]
    /\ UNCHANGED <<now, published, withdrawnAt, kid, since>>

\* A question may be refused at any time, and so may a caller with no question.
Refuse(t) ==
    /\ verdict' = [verdict EXCEPT ![t] = "refuse"]
    /\ since' = [since EXCEPT ![t] = 0]
    /\ UNCHANGED <<now, published, withdrawnAt, kid>>

Next ==
    \/ Tick
    \/ \E S \in SUBSET Kid : Publish(S)
    \/ \E t \in Thread :
          \/ \E k \in Kid : Ask(t, k)
          \/ TrustKey(t)
          \/ Refuse(t)

Spec == Init /\ [][Next]_vars
=============================================================================
