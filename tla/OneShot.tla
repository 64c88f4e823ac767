------------------------------- MODULE OneShot -------------------------------
(***************************************************************************)
(* What every single-use credential of the workspace promises, whatever    *)
(* store keeps the mark: a rotated refresh token, an e-mail code, a        *)
(* step-up proof.  `uses[i]' counts how often item i has been accepted,    *)
(* `over[i]' tells that its life has ended.  While it lives it is accepted *)
(* at most once; of what happens later the contract promises nothing.      *)
(***************************************************************************)
EXTENDS Naturals

CONSTANT Item

VARIABLES uses, over

Init ==
    /\ uses = [i \in Item |-> 0]
    /\ over = [i \in Item |-> FALSE]

Use(i) ==
    /\ uses[i] = 0 \/ over[i]
    /\ uses' = [uses EXCEPT ![i] = @ + 1]

(* With any step lives may end, and none begins again. *)
LivesEnd ==
    /\ over' \in [Item -> BOOLEAN]
    /\ \A i \in Item : over[i] => over'[i]

Next ==
    /\ LivesEnd
    /\ UNCHANGED uses \/ \E i \in Item : Use(i)

Spec == Init /\ [][Next]_<<uses, over>>
=============================================================================
