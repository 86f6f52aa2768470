------------------------------ MODULE MCCache -------------------------------
(* The simulator on small instances: Csim's traces, and what CacheProps    *)
(* expects of the cache that they fill.                                    *)
EXTENDS CacheProps, Csim
=============================================================================
