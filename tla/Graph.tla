------------------------------- MODULE Graph -------------------------------
(***************************************************************************)
(* Directed graphs as sets of edges <<u, v>>, "v depends on u", and what   *)
(* TransitiveReduction promises of the graph it leaves: Dag checks the     *)
(* promise, Parser relies on it.                                           *)
(***************************************************************************)
\* The edges of a map of down vertices.
EdgesOf(down) == UNION {{<<u, v>> : v \in down[u]} : u \in DOMAIN down}

Ends(E) == {e[1] : e \in E} \cup {e[2] : e \in E}

\* The set S holds what depends on a member of it.
Closed(E, S) == \A e \in E : e[1] \in S => e[2] \in S

\* There is a path of one edge or more from u to v: v is in every closed set
\* that holds what depends on u itself.
Path(E, u, v) ==
    \A S \in SUBSET Ends(E) :
        (\A e \in E : e[1] = u => e[2] \in S) /\ Closed(E, S) => v \in S

Acyclic(E) == \A v \in Ends(E) : ~Path(E, v, v)

\* E reduces to F, over the vertices V: F has no edge of its own, every
\* vertex that depends on another still does, an edge from a name that is no
\* vertex stays, and no edge between vertices has a longer path beside it.
ReducesTo(V, E, F) ==
    /\ F \subseteq E
    /\ \A e \in E : e[1] \in V => \E u \in V : <<u, e[2]>> \in F
    /\ \A e \in E \ F : e[1] \in V
    /\ \A e \in F : e[1] \in V => ~Path(F \ {e}, e[1], e[2])
=============================================================================
