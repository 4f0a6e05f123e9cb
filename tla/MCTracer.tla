------------------------------ MODULE MCTracer ------------------------------
(***************************************************************************)
(* Instances of Tracer for TLC: execve, exit_group and one or two other    *)
(* calls, under every assignment of verdicts.  The model is finite without *)
(* a state constraint.                                                     *)
(***************************************************************************)
EXTENDS TracerProofs

\* An unset status may decode to a clean exit or to a stray byte.
MCJunkReturns == {0, 77}

=============================================================================
