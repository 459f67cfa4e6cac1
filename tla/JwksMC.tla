------------------------------- MODULE JwksMC -------------------------------
(* Instances of JwksCache for TLC. *)
EXTENDS JwksCache

CONSTANTS t1, t2, k1, k2, k3

\* k1 comes and goes beside a key that stays.
WithAndWithoutK1 == {{k1, k2}, {k2}}

\* k1 comes and goes beside k3, whose entry cannot be parsed, and is replaced by
\* another key or by nothing usable.
WithAndWithoutUsable == {{k1, k3}, {k2}, {k3}}

\* Bound: the provider starts with a document the cache can use, and rotates
\* before the clock first moves.  What comes of a withdrawal depends on the time
\* since, so an early one leaves the most room for it.
EarlyInit == Init /\ published \cap Usable # {}
EarlyNext == Next /\ (published' # published => now = 0)
EarlySpec == EarlyInit /\ [][EarlyNext]_vars /\ \A t \in Thread : WF_vars(Step(t))
=============================================================================
