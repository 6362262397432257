---------------------------- MODULE MCExecutorSym ----------------------------
(***************************************************************************)
(* Larger graphs for Executor, over model values: the graphs' own          *)
(* automorphisms are the symmetries of the runs (safety only).             *)
(***************************************************************************)
EXTENDS Executor, TLC

CONSTANTS a, b, d, x, y  \* vertices beside Root

\* root -> a, b; a, b -> d; d -> x: a raced vertex that has a dependent.
TailVertex == {Root, a, b, d, x}
TailUp == [v \in TailVertex |->
             CASE v = Root -> {} [] v = d -> {a, b} [] v = x -> {d}
               [] OTHER -> {Root}]
TailSymmetry == Permutations({a, b})

\* root -> a, b; a, b -> x, y: two vertices that share two dependencies.
MeshVertex == {Root, a, b, x, y}
MeshUp == [v \in MeshVertex |->
             CASE v = Root -> {} [] v \in {x, y} -> {a, b}
               [] OTHER -> {Root}]
MeshSymmetry == {p @@ q : p \in Permutations({a, b}), q \in Permutations({x, y})}
=============================================================================
