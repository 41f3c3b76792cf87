-------------------------- MODULE MCNativePipeline --------------------------
(***************************************************************************)
(* NativePipeline with one unit of the runtime, one that includes others.  *)
(***************************************************************************)
EXTENDS NativePipeline

CONSTANTS p1, p2

SomeUnits == <<"runtime">>

Run(mode, out, limited) == [mode |-> mode, keepAsm |-> FALSE, limited |-> limited, out |-> out]
SomeCommands ==
  [p \in Procs |->
    IF p = p1 THEN {Run("full", "app", TRUE), Run("link", "app", TRUE)}
    ELSE {Run("full", "game", FALSE), Run("compile", "app", FALSE)}]
=============================================================================
