-------------------------- MODULE MCSessionContext --------------------------
(* Instances of SessionContext for TLC.                                    *)
EXTENDS SessionContext, TLC

\* Allocations are interchangeable.
ContextSymmetry == Permutations(Contexts)

=============================================================================
