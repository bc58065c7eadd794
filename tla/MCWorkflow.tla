----------------------------- MODULE MCWorkflow -----------------------------
(***************************************************************************)
(* Instances of Workflow for TLC.                                          *)
(***************************************************************************)
EXTENDS WorkflowIsolated, WorkflowPayloads, TLC

CONSTANTS o1, o2, eve

WellFormed == {Leave, Resubmit}
\* The definitions of the isolated instance are those OneTaskIsOpen is about.
ASSUME WellFormedIsComplete == \A wf \in WellFormed : Complete(wf)

AllPayloads == {Leave, Resubmit, Ragged, Circular, Misspelt}

\* ann and bob share an organization, eve is of another one.
OneOrg  == [u \in Users |-> o1]
TwoOrgs == [u \in Users |-> IF u = eve THEN o2 ELSE o1]

Symmetry == Permutations(Procs)
=============================================================================
