---------------------------- MODULE WorkflowDocs ----------------------------
(***************************************************************************)
(* What docs/specs/06-workflow-engine.md says of the engine where the      *)
(* engine does otherwise.                                                  *)
(***************************************************************************)
EXTENDS Workflow

\* "Instance: running -> approved / rejected / cancelled": a resolved instance
\* stays as it was resolved.  advance and CancelInstance each write back a copy
\* of the row they read before the other resolved it.
ResolvedIsFinal ==
    [][\A i \in DOMAIN instances :
          instances[i].status # "running" => instances'[i] = instances[i]]_vars
=============================================================================
