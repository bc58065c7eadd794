------------------------------ MODULE Sharing ------------------------------
(***************************************************************************)
(* Organizations, the applications they are given and who administers an   *)
(* application for them: OrgService and DistributionService, by REST route *)
(* and by tool.                                                            *)
(*                                                                         *)
(* As in Members an action is one statement with the code up to the next   *)
(* one, and proc[p] is what the goroutine keeps.                           *)
(***************************************************************************)
EXTENDS ToolCalls, FiniteSets

CONSTANTS
    Procs, Apps, Users,
    Orgs, Provider,  \* Provider: organization 1
    Owner,           \* Owner[a]: the organization that imported a
    Tables, Columns, \* of AppData
    Nothing,         \* no application, table and so on
    MaxRequests      \* bound on the requests and changes of a behaviour

ASSUME ProviderIsOrg == Provider \in Orgs
ASSUME FewOrgs == IsFiniteSet(Orgs)   \* as many as a database has
ASSUME RequestsBound == MaxRequests \in Nat

VARIABLES
    keyed,     \* whether application_distributions and application_admins have
               \* their foreign keys: those of init.sql do, those of migration
               \* 002 do not; stays as it is
    orgs,      \* of every id: "new", "live" or "gone"
    apps,      \* the applications there are
    members,   \* org_user_bonds: <<org, user>>
    dists,     \* application_distributions: <<app, org>>
    admins,    \* application_admins: <<app, org, user>>
    untidy,    \* history: <<app, org>> of appointments and withdrawals that
               \* something came in between of, or that stopped half-way
    proc,
    left       \* how many requests and changes are still to come

sharing == <<orgs, apps, members, dists, admins, untidy>>

LiveOrgs == {o \in Orgs : orgs[o] = "live"}

Idle == [pc |-> "idle"]
At(p, label) == proc[p].pc = label
Busy == {p \in Procs : ~At(p, "idle")}

\* Of a request: what it is about; users and more are what is still to be done;
\* alone says that no other request has been in flight since it began.
Work(label, a, o, who) ==
    [pc |-> label, app |-> a, org |-> o, users |-> who,
     table |-> Nothing, cols |-> {}, then |-> "", row |-> 0, more |-> 0,
     alone |-> Busy = {}]

Disturbed(q) == IF At(q, "idle") THEN Idle ELSE [proc[q] EXCEPT !.alone = FALSE]

Counted == left > 0 /\ left' = left - 1

Starts(p, work) ==
    /\ Counted
    /\ proc' = [q \in Procs |-> IF q = p THEN work ELSE Disturbed(q)]

Continues(p, label) == proc' = [proc EXCEPT ![p].pc = label] /\ UNCHANGED left
Ends(p) == proc' = [proc EXCEPT ![p] = Idle] /\ UNCHANGED left

\* A request of one statement, or a change from elsewhere.
AtOnce == Counted /\ proc' = [q \in Procs |-> Disturbed(q)]

AdminsOf(a, o) == {u \in Users : <<a, o, u>> \in admins}
Pair(p) == <<proc[p].app, proc[p].org>>

-----------------------------------------------------------------------------
(***************************************************************************)
(* Organizations.  What else hangs on one goes with it, its own            *)
(* applications too, as far as there are foreign keys.                     *)
(***************************************************************************)
CreateOrg(o) ==
    /\ orgs[o] = "new"
    /\ orgs' = [orgs EXCEPT ![o] = "live"]
    /\ AtOnce
    /\ UNCHANGED <<apps, members, dists, admins, untidy>>

UpdateOrg(p, o) ==
    /\ At(p, "idle") /\ o \in LiveOrgs
    /\ Starts(p, Work("saveOrg", Nothing, o, {}))
    /\ UNCHANGED sharing

\* gorm's Save inserts the row again if it has been deleted meanwhile.
UpdateOrgSave(p) ==
    /\ At(p, "saveOrg")
    /\ orgs' = [orgs EXCEPT ![proc[p].org] = "live"]
    /\ Ends(p)
    /\ UNCHANGED <<apps, members, dists, admins, untidy>>

\* What is left of the distributions and the administrators.
Cascades ==
    /\ dists' = IF keyed THEN {d \in dists : d[1] \in apps' /\ d[2] \in LiveOrgs'} ELSE dists
    /\ admins' = IF keyed THEN {d \in admins : d[1] \in apps' /\ d[2] \in LiveOrgs'} ELSE admins

DeleteOrg(o) ==
    /\ o \in LiveOrgs
    /\ orgs' = [orgs EXCEPT ![o] = "gone"]
    /\ apps' = {a \in apps : Owner[a] # o}
    /\ members' = {m \in members : m[1] # o}
    /\ Cascades
    /\ AtOnce
    /\ UNCHANGED untidy

-----------------------------------------------------------------------------
\* An application is deleted (see AppRuntime).
AppDeleted(a) ==
    /\ a \in apps
    /\ apps' = apps \ {a}
    /\ UNCHANGED <<orgs, members, untidy>>
    /\ Cascades
    /\ AtOnce

\* Members come and go (see Members); an administrator's row stays.
MemberJoins(o, u) ==
    /\ o \in LiveOrgs
    /\ members' = members \cup {<<o, u>>}
    /\ AtOnce
    /\ UNCHANGED <<orgs, apps, dists, admins, untidy>>

MemberLeaves(o, u) ==
    /\ members' = members \ {<<o, u>>}
    /\ AtOnce
    /\ UNCHANGED <<orgs, apps, dists, admins, untidy>>

-----------------------------------------------------------------------------
(***************************************************************************)
(* Distribution.  The application, the organization and the distribution   *)
(* are read one after the other; the keys, if any, and the unique index    *)
(* check them again.  What is refused leaves no trace.                     *)
(***************************************************************************)
\* Mutant: the provider is not refused.
DistributeToAny(p, a, o) ==
    /\ At(p, "idle")
    /\ a \in apps /\ o \in LiveOrgs /\ <<a, o>> \notin dists
    /\ Starts(p, Work("distribute", a, o, {}))
    /\ UNCHANGED sharing

DistributeApp(p, a, o) ==
    /\ At(p, "idle")
    /\ a \in apps /\ o \in LiveOrgs \ {Provider} /\ <<a, o>> \notin dists
    /\ Starts(p, Work("distribute", a, o, {}))
    /\ UNCHANGED sharing

Keys(a, o) == keyed => a \in apps /\ o \in LiveOrgs

CreateDistribution(p) ==
    /\ At(p, "distribute")
    /\ Keys(proc[p].app, proc[p].org) /\ Pair(p) \notin dists
    /\ dists' = dists \cup {Pair(p)}
    /\ Ends(p)
    /\ UNCHANGED <<orgs, apps, members, admins, untidy>>

\* Whatever there is: that nothing is deleted is not an error.
UndistributeApp(p, a, o) ==
    /\ At(p, "idle")
    /\ dists' = dists \ {<<a, o>>}
    /\ Starts(p, Work("listAdmins", a, o, {}))
    /\ UNCHANGED <<orgs, apps, members, admins, untidy>>

\* A withdrawal that nothing came in between of puts everything in order.
Withdrawn(p) == untidy' = IF proc[p].alone THEN untidy \ {Pair(p)} ELSE untidy \cup {Pair(p)}

UndistributeList(p) ==
    /\ At(p, "listAdmins")
    /\ LET who == AdminsOf(proc[p].app, proc[p].org) IN
       IF who = {} THEN Ends(p) /\ Withdrawn(p)
       ELSE /\ proc' = [proc EXCEPT ![p].pc = "dismiss", ![p].users = who]
            /\ UNCHANGED <<left, untidy>>
    /\ UNCHANGED <<orgs, apps, members, dists, admins>>

\* Mutant: the last of the list is forgotten.
RemainingButOne(who, u) == IF Cardinality(who) <= 2 THEN {} ELSE who \ {u}

Remaining(who, u) == who \ {u}

UndistributeNext(p) ==
    /\ At(p, "dismiss")
    /\ \E u \in proc[p].users :
          LET rest == Remaining(proc[p].users, u) IN
          /\ admins' = admins \ {<<proc[p].app, proc[p].org, u>>}
          /\ IF rest = {} THEN Ends(p) /\ Withdrawn(p)
             ELSE proc' = [proc EXCEPT ![p].users = rest] /\ UNCHANGED <<left, untidy>>
    /\ UNCHANGED <<orgs, apps, members, dists>>

-----------------------------------------------------------------------------
(***************************************************************************)
(* Administrators: members of an organization that has the application.    *)
(***************************************************************************)
SetAppAdmin(p, a, o, u) ==
    /\ At(p, "idle")
    /\ <<a, o>> \in dists
    /\ Starts(p, Work("member", a, o, {u}))
    /\ UNCHANGED sharing

SetAdminMember(p) ==
    /\ At(p, "member")
    /\ \A u \in proc[p].users : <<proc[p].org, u>> \in members
    /\ Continues(p, "appoint")
    /\ UNCHANGED sharing

\* GetAdmin finds what the unique index would; neither looks at dists.
CreateAdmin(p) ==
    /\ At(p, "appoint")
    /\ Keys(proc[p].app, proc[p].org)
    /\ proc[p].users \cap AdminsOf(proc[p].app, proc[p].org) = {}
    /\ admins' = admins \cup ({proc[p].app} \X {proc[p].org} \X proc[p].users)
    /\ untidy' = IF proc[p].alone THEN untidy ELSE untidy \cup {Pair(p)}
    /\ Ends(p)
    /\ UNCHANGED <<orgs, apps, members, dists>>

RemoveAppAdmin(a, o, u) ==
    /\ admins' = admins \ {<<a, o, u>>}
    /\ AtOnce
    /\ UNCHANGED <<orgs, apps, members, dists, untidy>>

\* Members of the provider administer everything, whatever the application.
IsAppAdmin(u, o, a) == <<Provider, u>> \in members \/ <<a, o, u>> \in admins

\* What a caller sees listed (GET /api/apps).
ListApps(role, o) == IF role = "provider" THEN apps ELSE {a \in apps : <<a, o>> \in dists}

-----------------------------------------------------------------------------
\* A statement fails, the client hangs up or the server stops.
SharingRefused(p) ==
    /\ proc[p].pc \in {"saveOrg", "distribute", "member", "appoint", "listAdmins", "dismiss"}
    /\ untidy' = IF proc[p].pc \in {"listAdmins", "dismiss"} THEN untidy \cup {Pair(p)} ELSE untidy
    /\ Ends(p)
    /\ UNCHANGED <<orgs, apps, members, dists, admins>>

(***************************************************************************)
(* The callers: the routes are for the role that a token gives, the tools  *)
(* for that role and, where there is an application, its owner's token.    *)
(***************************************************************************)
Callers == Claims(Users, Orgs, {"provider", "tenant"})

RequireProvider(c) == RequireRole(c, {"provider"})
RequireAppOrg(c, a) == a \in apps /\ RequireOrgAccess(c, Owner[a])

MayOrg(scope) == \E c \in Callers : RequireScope(c, scope) /\ RequireProvider(c)
MayApp(scope, a) ==
    \E c \in Callers : RequireScope(c, scope) /\ RequireProvider(c) /\ RequireAppOrg(c, a)

ToolOrg(p) ==
    \E o \in Orgs :
       \/ MayOrg(OrgTools.create) /\ CreateOrg(o)
       \/ MayOrg(OrgTools.update) /\ UpdateOrg(p, o)
       \/ MayOrg(OrgTools.delete) /\ DeleteOrg(o)

RouteOrg(p) ==
    /\ \E c \in Callers : RequireProvider(c)
    /\ \E o \in Orgs : CreateOrg(o) \/ UpdateOrg(p, o) \/ DeleteOrg(o)

ToolShare(p) ==
    \E a \in Apps, o \in Orgs :
       \/ MayApp(AppTools.distribute, a) /\ DistributeApp(p, a, o)
       \/ MayApp(AppTools.undistribute, a) /\ UndistributeApp(p, a, o)
       \/ MayApp(AppTools.set_admin, a) /\ \E u \in Users : SetAppAdmin(p, a, o, u)
       \/ MayApp(AppTools.remove_admin, a) /\ \E u \in Users : RemoveAppAdmin(a, o, u)

RouteShare(p) ==
    /\ \E c \in Callers : RequireProvider(c)
    /\ \E a \in Apps, o \in Orgs :
          \/ DistributeApp(p, a, o) \/ UndistributeApp(p, a, o)
          \/ \E u \in Users : SetAppAdmin(p, a, o, u) \/ RemoveAppAdmin(a, o, u)

SharingRequest(p) == ToolOrg(p) \/ RouteOrg(p) \/ ToolShare(p) \/ RouteShare(p)

SharingStep(p) ==
    \/ UpdateOrgSave(p) \/ CreateDistribution(p) \/ UndistributeList(p) \/ UndistributeNext(p)
    \/ SetAdminMember(p) \/ CreateAdmin(p) \/ SharingRefused(p)

Around ==
    \/ \E a \in Apps : AppDeleted(a)
    \/ \E o \in Orgs, u \in Users : MemberJoins(o, u) \/ MemberLeaves(o, u)
=============================================================================
