---------------------------- MODULE MCFnRuntime ----------------------------
(***************************************************************************)
(* Two calls for FnRuntime: one for a container, which meets another, a    *)
(* service, a command and the functions that are refused.                  *)
(***************************************************************************)
EXTENDS FnRuntime

CONSTANTS c1, c2

Image == [executor |-> "image", service |-> FALSE, input |-> TRUE]
Svc   == [Image EXCEPT !.service = TRUE]

MCCall == {c1, c2}
MCFunctions ==
    {[c \in MCCall |-> IF c = c2 THEN f ELSE Image] :
        f \in {Image, Svc, [Image EXCEPT !.executor = "command"],
              [Image EXCEPT !.input = FALSE], [Svc EXCEPT !.executor = "command"],
              [Image EXCEPT !.executor = "bad command"], [Image EXCEPT !.executor = "none"]}}
=============================================================================
