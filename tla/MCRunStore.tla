----------------------------- MODULE MCRunStore -----------------------------
(***************************************************************************)
(* Two messages of one conversation, without idempotency keys.             *)
(***************************************************************************)
EXTENDS RunStore, TLC

CONSTANTS r1, r2, s1

MCSessionOf == [r \in Runs |-> s1]

MCKeyOf == [r \in Runs |-> NoKey]

\* The two have the same session and no key.
MCSymmetry == Permutations({r1, r2})
=============================================================================
