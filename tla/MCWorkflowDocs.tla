--------------------------- MODULE MCWorkflowDocs ---------------------------
(***************************************************************************)
(* The instance of WorkflowDocs for TLC.                                   *)
(***************************************************************************)
EXTENDS WorkflowDocs, WorkflowPayloads

CONSTANTS o1

OneOrg == [u \in Users |-> o1]

JustLeave == {Leave}
=============================================================================
