---------------------------- MODULE MCSettlements ----------------------------
(* Model-checking instance of Settlements: requests that differ from the    *)
(* first one in their user, their body, or not at all.                      *)
EXTENDS Settlements, TLC

CONSTANTS alice, bob, k1, g1, a1, a2, a3

Pays(user, key, payer, payee, amount) ==
  [user |-> user, key |-> key, group |-> g1,
   payer |-> payer, payee |-> payee, amount |-> amount]

\* One request and the ways to misuse its key.
OneKey == {Pays(alice, k1, bob, alice, 1),
           Pays(alice, k1, bob, alice, 2),
           Pays(bob, k1, bob, alice, 1)}

\* A request that is refused because sender and receiver are the same.
ToOneself == {Pays(alice, k1, alice, alice, 1)}

SameRequest == {Pays(alice, k1, bob, alice, 1)}

OneKeyAndOneself == OneKey \cup ToOneself

OwnedByAlice == [g \in {g1} |-> alice]

AttemptSymmetry == Permutations(Attempts)
=============================================================================
