------------------------------ MODULE MCIBTree ------------------------------
(***************************************************************************)
(* Sizes in the proportions of the code's: every entry is smaller than     *)
(* half a node, a node with one light entry is small, and so is an inner   *)
(* node with one child.  The builds give trees of one, two and three       *)
(* levels, filled in ascending and in descending order.                    *)
(***************************************************************************)
EXTENDS IBTree

Light == 3
Heavy == 7

MCKeys == 1..8
MCValues == {Light, Heavy}

Ascending(ks) == [i \in DOMAIN ks |-> <<ks[i], Heavy>>]

MCBuilds ==
  { <<<<1, Light>>>>,
    Ascending(<<2, 4, 6, 7>>),
    Ascending(<<1, 2, 3, 5, 6, 7, 8>>),
    [i \in 1..8 |-> <<9 - i, IF i % 2 = 0 THEN Heavy ELSE Light>>] }
=============================================================================
