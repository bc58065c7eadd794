---------------------------- MODULE Departments ----------------------------
(***************************************************************************)
(* The departments of the organizations: DepartmentService and the table   *)
(* departments, as the MCP tools and the REST handlers use them.           *)
(***************************************************************************)
EXTENDS Members, Functions, TLC

CONSTANT MaxDepts   \* bound

VARIABLE depts      \* table departments, by id, deleted ones with live = FALSE

\* parent and dt (a DingTalk id) are 0 for none.  Name, level, manager and
\* description are left out, saved with the row (the level orders the lists); a
\* sync's saves of a changed name alone (syncDepartments) are not modelled.
Dept(o, parent, dt, live) == [org |-> o, parent |-> parent, dt |-> dt, live |-> live]

Live == {d \in DOMAIN depts : depts[d].live}
DeptsOf(o) == {d \in Live : depts[d].org = o}
GetByDingTalkDeptID(o, dt) == First({d \in DeptsOf(o) : depts[d].dt = dt})

\* The foreign keys, and the unique index on organization and DingTalk id, for
\* a row to be stored at d.
Storable(d, row) ==
    /\ row.parent \in Live \cup {0, d}
    /\ row.dt = 0 \/ GetByDingTalkDeptID(row.org, row.dt) \in {0, d}

StoreDept(row) == Storable(0, row) /\ depts' = Append(depts, row)

\* Saving a row that has been deleted meanwhile inserts it again.
UpdateDept(d, row) == Storable(d, row) /\ depts' = [depts EXCEPT ![d] = row]

\* Children of a deleted department lose their parent (init.sql); the bonds,
\* which have no such key, go on naming it.
DeleteDept(d) ==
    depts' = [e \in DOMAIN depts |->
        [depts[e] EXCEPT !.parent = IF @ = d THEN 0 ELSE @, !.live = @ /\ e # d]]

-----------------------------------------------------------------------------
(***************************************************************************)
(* One statement each: create, delete and set the manager, for which both  *)
(* interfaces agree, and the update of the REST interface, which saves a   *)
(* row made of the request alone: over the department it names, or in      *)
(* place of a deleted one, or, if the id is unknown, as a new one.         *)
(***************************************************************************)
unmoved == <<users, bonds, account>>

\* A single statement overlaps with whatever is in flight.
Disturbs ==
    proc' = [q \in Procs |-> IF At(q, "idle") THEN Idle ELSE [proc[q] EXCEPT !.alone = FALSE]]

Parents == Live \cup {0}

DeptCreate(o) ==
    /\ Len(depts) + Cardinality(Busy) < MaxDepts
    /\ \E parent \in Parents : StoreDept(Dept(o, parent, 0, TRUE))
    /\ Disturbs
    /\ UNCHANGED unmoved

DeptDelete(d) == DeleteDept(d) /\ Disturbs /\ UNCHANGED unmoved

\* A column of its own, which is left out here.
DeptSetManager(d) == Disturbs /\ UNCHANGED <<unmoved, depts>>

DeptReplace(o, d) ==
    /\ \E parent \in Parents \cup {d} : UpdateDept(d, Dept(o, parent, 0, TRUE))
    /\ Disturbs
    /\ UNCHANGED unmoved

(***************************************************************************)
(* The update of the MCP tool: read the row, change what is given, save.   *)
(***************************************************************************)
DeptUpdate(p, d, parent) ==
    /\ At(p, "idle")
    /\ Starts(p, Work("saveMoved", depts[d].org, d,
                      [depts[d] EXCEPT !.parent = parent], Nobody))
    /\ UNCHANGED <<unmoved, depts>>

DeptUpdateSave(p) ==
    /\ At(p, "saveMoved")
    /\ UpdateDept(proc[p].user, proc[p].row)
    /\ Ends(p)
    /\ UNCHANGED unmoved

-----------------------------------------------------------------------------
(***************************************************************************)
(* BuildTree: the departments without a parent in the organization are the *)
(* roots; the others hang below their parents.                             *)
(***************************************************************************)
\* Mutant: a parent in another organization counts.
RootsNil(o) == {d \in DeptsOf(o) : depts[d].parent = 0}

Roots(o) == {d \in DeptsOf(o) : depts[d].parent \notin DeptsOf(o)}

Children(o, d) == {e \in DeptsOf(o) : depts[e].parent = d} \ Roots(o)

\* The nodes of the tree down to a depth of n.
BuildTree(o) ==
    LET shown[n \in 0 .. Len(depts)] ==
            IF n = 0 THEN Roots(o)
            ELSE shown[n - 1] \cup UNION {Children(o, d) : d \in shown[n - 1]}
    IN shown[Len(depts)]

-----------------------------------------------------------------------------
(***************************************************************************)
(* The tools: only the one that creates names an organization.             *)
(***************************************************************************)
ToolCreateDept ==
    \E o \in Orgs : \E c \in Callers(o) :
       ValidateToolCall(c, DeptTools.create, o) /\ DeptCreate(o)

Anyone(tool) == \E o \in Orgs : \E c \in Callers(o) : RequireScope(c, DeptTools[tool])

ToolUpdateDept(p) ==
    \E d \in Live, parent \in Parents : Anyone("update") /\ DeptUpdate(p, d, parent)

ToolDeleteDept == \E d \in Live : Anyone("delete") /\ DeptDelete(d)

ToolSetManager == \E d \in Live : Anyone("set_manager") /\ DeptSetManager(d)

(***************************************************************************)
(* The REST routes, for the provider.                                      *)
(***************************************************************************)
RestCreateDept == \E o \in Orgs : DeptCreate(o)
RestUpdateDept ==
    \E o \in Orgs : DeptCreate(o) \/ \E d \in DOMAIN depts : DeptReplace(o, d)
RestDeleteDept == \E d \in Live : DeptDelete(d)
RestSetManager == \E d \in Live : DeptSetManager(d)

DepartmentStep ==
    \/ ToolCreateDept \/ ToolDeleteDept \/ ToolSetManager
    \/ RestCreateDept \/ RestUpdateDept \/ RestDeleteDept \/ RestSetManager
    \/ \E p \in Procs : ToolUpdateDept(p) \/ DeptUpdateSave(p)
=============================================================================
