------------------------------- MODULE MCCtx -------------------------------
\* Instances of Ctx for TLC.
EXTENDS Ctx

HelperOf == [s \in Connecters |-> "pair_" \o s]
=============================================================================
