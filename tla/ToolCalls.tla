----------------------------- MODULE ToolCalls -----------------------------
(***************************************************************************)
(* Who may call an MCP tool: the scopes that the tools are registered with *)
(* and the checks before every call (mcp/auth.go, mcp/helpers.go).         *)
(*                                                                         *)
(* claims is what an access token says, [user, org, role, scopes].         *)
(***************************************************************************)
EXTENDS Integers

CONSTANT TokenScopes   \* the sets of scopes that access tokens carry

UserTools ==
    [list_members |-> "org.read", create_member |-> "org.write",
     update_member |-> "org.write", remove_member |-> "org.write"]

DeptTools ==
    [list |-> "org.read", get |-> "org.read", tree |-> "org.read",
     create |-> "org.write", update |-> "org.write", delete |-> "org.write",
     set_manager |-> "org.write"]

OrgTools ==
    [get |-> "org.read", list |-> "org.read", create |-> "org.write",
     update |-> "org.write", delete |-> "org.write"]

AppTools ==
    [import |-> "org.write", list |-> "org.read", get |-> "org.read", update |-> "org.write",
     delete |-> "org.write", update_code |-> "org.write", deploy |-> "org.write",
     start |-> "org.write", stop |-> "org.write", restart |-> "org.write",
     status |-> "org.read", logs |-> "org.read", deployments |-> "org.read",
     distribute |-> "org.write", undistribute |-> "org.write",
     list_distributions |-> "org.read", set_admin |-> "org.write", remove_admin |-> "org.write"]

DataTools ==
    [create_table |-> "data.write", drop_table |-> "data.write", insert |-> "data.write",
     batch_insert |-> "data.write", update |-> "data.write", delete |-> "data.write",
     add_column |-> "data.write", exec_raw |-> "data.write", list_tables |-> "data.read",
     describe_table |-> "data.read", query |-> "data.read", count |-> "data.read"]

-----------------------------------------------------------------------------
Claims(ids, orgs, roles) == [user : ids, org : orgs, role : roles, scopes : TokenScopes]

RequireScope(claims, scope) == claims.scopes \cap {scope, "admin"} # {}

RequireRole(claims, roles) == claims.role \in roles

\* A call that names an organization names the caller's.
RequireOrgAccess(claims, org) == claims.org = org

ValidateToolCall(claims, scope, org) ==
    RequireScope(claims, scope) /\ RequireOrgAccess(claims, org)
=============================================================================
