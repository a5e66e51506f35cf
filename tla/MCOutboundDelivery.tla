------------------------- MODULE MCOutboundDelivery -------------------------
(* Small instances of OutboundDelivery for TLC. *)
EXTENDS OutboundDelivery, TLC

CONSTANTS r1, r2, alice, bob, k1, t1, t2, note, other, bulk

\* note and other are single sends to t1; bulk goes to t1 and t2.
MCTargetsOf == [b \in Bodies |-> IF b = bulk THEN {t1, t2} ELSE {t1}]
MCBatchBodies == Bodies \cap {bulk}

Ask(s, k, b) == [subject |-> s, key |-> k, body |-> b]

\* The same keyed message, retried.
RetryRequests == {Ask(alice, k1, note)}
\* A retry, the key reused for another body, another subject, and no key.
MixedRequests == {Ask(alice, k1, note), Ask(alice, k1, other),
                  Ask(bob, k1, note), Ask(alice, NoKey, note)}
BatchRequests == {Ask(alice, k1, bulk)}
BatchOrSend == {Ask(alice, k1, bulk), Ask(alice, k1, note)}

ReqSymmetry == Permutations(Reqs)
BatchSymmetry == ReqSymmetry \cup Permutations(Targets)
=============================================================================
