------------------------------ MODULE MCOrigin ------------------------------
(* The announce tree for TLC.                                               *)
EXTENDS Origin, TLC

CONSTANTS b1, b2, b3, b4, c1, c2

MCDirs == {1, 2}
(* From best to worst: b2, b3 (by its hash), then b1 and b4 in a tie.       *)
MCHops == (b1 :> 2) @@ (b2 :> 1) @@ (b3 :> 2) @@ (b4 :> 2)
MCHash == (b1 :> 5) @@ (b2 :> 7) @@ (b3 :> 3) @@ (b4 :> 5)
MCLooped == {b \in Broadcasts : FALSE}

Layout(producers, scope, broadcasts, copies) ==
    [producers |-> producers, scope |-> scope, broadcasts |-> broadcasts, copies |-> copies]

(* Handles that do not mix the two ways into the tree.                      *)
Routes == Layout({"root"}, c1 :> Root, {b1, b2, b3}, 1)
Crowd == Layout({"root"}, (c1 :> Root) @@ (c2 :> Root), {b1, b2}, 1)
Scoped == Layout({"scoped"}, (c1 :> 1) @@ (c2 :> 1), {b1, b4}, 1)
Again == Layout({"root"}, c1 :> Root, {b1}, 2)
MCLayouts == {Routes, Crowd, Scoped, Again}

(* Several broadcasts, each possibly published twice.                       *)
MCTwice == {Layout({"root"}, c1 :> Root, {b1, b2}, 2)}

(* A scoped producer beside a consumer of the whole tree.                   *)
MCMixed == {Layout({"scoped"}, c1 :> Root, {b1, b2}, 1)}
=============================================================================
