----------------------------- MODULE MCExecutor -----------------------------
(***************************************************************************)
(* Small graphs for Executor, where liveness is checked.                   *)
(***************************************************************************)
EXTENDS Executor

\* root -> a -> b, root -> c: no vertex has two dependencies.
TreeVertex == {"root", "a", "b", "c"}
TreeUp == [v \in TreeVertex |->
             CASE v = "root" -> {} [] v = "b" -> {"a"} [] OTHER -> {"root"}]

\* root -> a, b; a, b -> d: d is reached by two walkers.
DiamondVertex == {"root", "a", "b", "d"}
DiamondUp == [v \in DiamondVertex |->
                CASE v = "root" -> {} [] v = "d" -> {"a", "b"}
                  [] OTHER -> {"root"}]

\* root -> v <- u: u refers to nothing, so the parser connects it to nothing.
OrphanVertex == {"root", "u", "v"}
OrphanUp == [v \in OrphanVertex |-> IF v = "v" THEN {"root", "u"} ELSE {}]
=============================================================================
