----------------------------- MODULE MCTablePorts -----------------------------
(***************************************************************************)
(* An instance of TablePorts for TLC: pages that share tables on one port  *)
(* and not on the other, and a change of flags that takes READ away.       *)
(***************************************************************************)
EXTENDS TablePorts

MCMapFlags == {{"READ", "WRITE"}}
MCNewFlags == {{"READ", "NOEXEC"}, {"WRITE"}}

=============================================================================
