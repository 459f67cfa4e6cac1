---------------------------- MODULE JwksRotation ----------------------------
(***************************************************************************)
(* JwksCache with a history variable: whether the kid a call asks for has  *)
(* been in the provider's document, with a usable key, ever since the call *)
(* was made.                                                               *)
(***************************************************************************)
EXTENDS JwksMC

VARIABLE steady

BeginsCall(t) == pc[t] = "idle" /\ pc'[t] = "expiry"

RotationInit == Init /\ steady = [t \in Thread |-> FALSE]

RotationNext ==
    /\ Next
    /\ steady' = [t \in Thread |->
                     IF BeginsCall(t)
                     THEN kid'[t] \in published \cap Usable
                     ELSE steady[t] /\ kid[t] \in published']

RotationSpec == RotationInit /\ [][RotationNext]_<<vars, steady>>

\* ADR-0063 on rotation: "A token bearing a new kid is a cache miss, triggers
\* one refresh, and verifies against the newly published key."  So a call whose
\* kid is published all along does not end in unknown_kid: a successful refresh
\* is followed by a successful lookup.  With one thread it is; with two, _keys
\* may have been replaced, between the refresh and the lookup, by an older
\* document that another thread fetched before the rotation.
RotationPickedUp == \A t \in Thread : outcome[t] = "unknown_kid" => ~steady[t]
=============================================================================
