------------------------------ MODULE MCFnExec ------------------------------
(***************************************************************************)
(* A pipeline for FnExec, cut down from examples/topo4.yaml: a slice over  *)
(* a range, a conditional block with a query and a map over a range, a     *)
(* container in a conditional range that refers to all of them, and a      *)
(* template after it.                                                      *)
(***************************************************************************)
EXTENDS FnExec

MCVertex == {"cr", "templates", "block", "blockRoot", "all", "children",
             "fabric", "topology"}
MCType == [v \in MCVertex |->
    CASE v \in {"cr", "blockRoot"} -> "root" [] v = "block" -> "block"
      [] v = "all" -> "query" [] v = "children" -> "map"
      [] v = "templates" -> "slice" [] v = "fabric" -> "image"
      [] v = "topology" -> "gotemplate"]
MCUp == [v \in MCVertex |->
    CASE v \in {"block", "templates"} -> {"cr"}
      [] v \in {"all", "children"} -> {"blockRoot"}
      [] v = "fabric" -> {"templates", "block"}
      [] v = "topology" -> {"fabric"} [] OTHER -> {}]
MCRefs == [v \in MCVertex |->
    CASE v \in {"templates", "block", "children"} -> {"cr"}
      [] v = "fabric" -> {"cr", "templates", "all", "children"}
      [] v = "topology" -> {"fabric"} [] OTHER -> {}]
MCInner == [v \in MCVertex |->
    IF v = "block" THEN {"blockRoot", "all", "children"} ELSE {}]
MCVar == [v \in MCVertex |->
    CASE v = "templates" -> {"x", "y"} [] v = "children" -> {"x"}
      [] v = "fabric" -> {"z"} [] OTHER -> {}]

\* Every variable is computed from VALUE.
OfValue == [x \in {"x", "y", "z"} |-> "VALUE"]

\* The conditions of the theorems of FnExecProofs on references and variables.
ASSUME ExampleAssumption == ReferencesConnected /\ VariablesOfValue
=============================================================================
