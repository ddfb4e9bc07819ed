--------------------------- MODULE MCContextSync ----------------------------
(* The instances of ContextSync that TLC checks. *)
EXTENDS ContextSync, TLC

HandlerSymmetry == Permutations(Handlers) \cup Permutations(Paths)
AllKinds == Kinds
NoFaults == {}
\* No action and no property reads stamped: states that differ in nothing else are one.
Unstamped == <<git, mirror, handler, covered>>
Forced == {"force"}
=============================================================================
