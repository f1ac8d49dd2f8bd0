------------------------------ MODULE MCEngine ------------------------------
(* Instances of Engine for TLC.                                            *)
EXTENDS EngineProofs, TLC

\* Workers, changes, nodes and docState addresses are interchangeable.
Symmetry ==
    Permutations(Worker) \cup Permutations(Change)
        \cup Permutations(Node) \cup Permutations(DocState)

\* Every property of a run is conditional on ~raced, so what follows a DELETE
\* that overlapped with another request need not be expanded.
Calm == ~raced
============================================================================
