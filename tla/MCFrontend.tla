---------------------------- MODULE MCFrontend ----------------------------
(* Small instances of Frontend for TLC.                                    *)
EXTENDS Frontend, TLC

CONSTANTS s1, s2, c1, c2, c3, n1, n2, n3, q1, q2, w1, w2, w3

\* One subsystem with two controllers and two namespaces.
ParentOne == [k \in Children |-> s1]

\* Two subsystems; the second has a controller and a namespace of its own.
ParentTwo == [k \in Children |-> IF k \in {c3, n3} THEN s2 ELSE s1]

\* Clients may give the same NQN to both subsystems, or to the second only one
\* of those of the first, or keep them apart.
NqnShared == [s \in Subsystems |-> Nqns]
NqnOneOf  == [s \in Subsystems |-> IF s = s1 THEN Nqns ELSE {q1}]
NqnOwn    == [s \in Subsystems |-> IF s = s1 THEN {q1} ELSE {q2}]

\* Clients wait for every request on the subsystem, for those on the name, or
\* for none.
PerSubsystem == [k \in Keys |-> {j \in Keys : Root(j) = Root(k)}]
PerName      == [k \in Keys |-> {k}]
Unordered    == [k \in Keys |-> {}]

AllOps == SubsystemOps \cup ControllerOps \cup NamespaceOps
            \cup {"UpdateNvmeSubsystem", "UpdateNvmeNamespace"}

Workers == Permutations(Worker)
=============================================================================
