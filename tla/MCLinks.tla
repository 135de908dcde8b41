------------------------------ MODULE MCLinks -------------------------------
(* Links on small instances.                                                *)
EXTENDS Links

=============================================================================
