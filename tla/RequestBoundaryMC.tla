------------------------- MODULE RequestBoundaryMC -------------------------
(* Instances of RequestBoundary for TLC. *)
EXTENDS RequestBoundary, TLC

ThreadSymmetry == Permutations(Thread)

CONSTANTS k1, k2, u1, u2, guest

Good(k, u, issued, expires) ==
    [kid |-> k, alg |-> "ES256", signer |-> k, registered |-> "good", iat |-> issued, exp |-> expires,
     role |-> "authenticated", sub |-> u]

KeyTypes == [k \in Kid |-> IF k = k1 THEN "ES256" ELSE "RS256"]

\* A token of each of two users, of which one expires early and one is issued
\* later, and one that fails in each group of checks: no kid, the signature of
\* another key, an algorithm that is not of its key's type, one that is not allowed,
\* the registered claims, the role, the subject.
Tokens ==
    LET token == Good(k1, u1, 2, 3)
    IN  {token, Good(k1, u2, 0, 1),
         [token EXCEPT !.kid = NoKid],
         [token EXCEPT !.kid = k2, !.alg = "RS256"],
         [token EXCEPT !.alg = "RS256"],
         [token EXCEPT !.alg = "other"],
         [token EXCEPT !.registered = "bad"],
         [token EXCEPT !.role = "anon"],
         [token EXCEPT !.sub = guest]}
=============================================================================
