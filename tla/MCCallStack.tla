------------------------------ MODULE MCCallStack ------------------------------
(* Small programs for the interpreter's calls. *)
EXTENDS CallStackProperties

MCFunctions == {[args |-> 0, locals |-> 0], [args |-> 1, locals |-> 1]}
MCClosures == {[args |-> 1, locals |-> 1]}
MCConsts    == {1}
MCLabels    == {10, 20}
===============================================================================
