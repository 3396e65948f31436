------------------------------ MODULE TokenChain ------------------------------
(***************************************************************************)
(* What refresh-token rotation promises a client (OAuth 2.1, 4.3.1, as     *)
(* stated at the head of src/auth/refresh-rotation-store.ts): a chain has  *)
(* at most one token that buys a new one; buying it supersedes it by a     *)
(* token never seen before; reuse ends the chain for good.                 *)
(***************************************************************************)
CONSTANTS Family, Call, Root
VARIABLES
    redeemable,   \* per family, the tokens that can still be exchanged
    links         \* the exchanges made: <<family, old token, new token>>

chainVars == <<redeemable, links>>

Init ==
    /\ redeemable = [f \in Family |-> {Root}]
    /\ links = {}

\* A redeemable token of f is exchanged for one never minted before, which is
\* from then on the only redeemable token of f.
Rotate(f, c) ==
    /\ \A l \in links : l[3] # c
    /\ \E j \in redeemable[f] : links' = links \cup {<<f, j, c>>}
    /\ redeemable' = [redeemable EXCEPT ![f] = {c}]

\* Reuse was detected: the chain ends.
Kill(f) ==
    /\ redeemable[f] # {}
    /\ redeemable' = [redeemable EXCEPT ![f] = {}]
    /\ UNCHANGED links

Next == \E f \in Family : Kill(f) \/ \E c \in Call : Rotate(f, c)

Spec == Init /\ [][Next]_chainVars
=============================================================================
