------------------------------- MODULE Budget -------------------------------
(***************************************************************************)
(* What a reserve-before-you-spend ledger promises.  Holders claim an      *)
(* amount of one limited thing and give it back.  A claim is granted       *)
(* against everything the others hold at that very moment, so claims       *)
(* granted at the same time cannot pass the limit together.                *)
(***************************************************************************)
EXTENDS Naturals, FiniteSetsExt

CONSTANTS Holders, Limit

VARIABLE claims     \* [Holders -> Nat]

Total(c) == MapThenSumSet(LAMBDA h : c[h], Holders)

Init == claims = [h \in Holders |-> 0]

Claim(h) ==
    /\ claims[h] = 0
    /\ \E amount \in 1..Limit : claims' = [claims EXCEPT ![h] = amount]
    /\ Total(claims') <= Limit

\* Given back, in part or in full.
Release(h) ==
    \E amount \in 0..Limit :
        amount < claims[h] /\ claims' = [claims EXCEPT ![h] = amount]

Next == \E h \in Holders : Claim(h) \/ Release(h)

Spec == Init /\ [][Next]_claims
=============================================================================
