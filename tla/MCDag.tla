------------------------------- MODULE MCDag -------------------------------
(* Dag over numbered vertices.                                             *)
EXTENDS Dag

CONSTANT N  \* the number of vertices

MCVertex == 1 .. N

(* Every acyclic graph on N vertices is one of these, up to renaming.      *)
Forward == {e \in MCVertex \X MCVertex : e[1] < e[2]}

(* Vertex 5 depends on 2 by way of 3, and on 4.                            *)
TwoBranches == {<<1, 2>>, <<2, 3>>, <<3, 5>>, <<1, 4>>, <<4, 5>>}
=============================================================================
