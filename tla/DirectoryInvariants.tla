------------------------ MODULE DirectoryInvariants ------------------------
(***************************************************************************)
(* What holds of departments and of what a synchronization has done.       *)
(***************************************************************************)
EXTENDS Directory

\* The departments one step further up, and all of them.
Above(o, D) == {depts[d].parent : d \in D} \cap DeptsOf(o)
Ancestors(o, d) ==
    LET up[n \in 0 .. Len(depts)] == IF n = 0 THEN Above(o, {d}) ELSE Above(o, up[n - 1])
    IN UNION Range(up)

\* Every department is in its organization's tree, also one whose parent is in
\* another organization; only a department that is above itself, or below
\* such a one, is missing (BuildTree).
TreeShowsAll ==
    \A o \in Orgs :
       BuildTree(o) = {d \in DeptsOf(o) :
                          \A e \in Ancestors(o, d) \cup {d} : e \notin Ancestors(o, e)}

Listed(i) == First({d \in DeptsOf(SyncOrg) : depts[d].dt = directory[i].id})

DepartmentMirrored(i) ==
    /\ Listed(i) # 0
    /\ directory[i].parent = 0 => depts[Listed(i)].parent = 0
    /\ \A j \in 1 .. i - 1 :
          directory[j].id = directory[i].parent => depts[Listed(i)].parent = Listed(j)

PersonMirrored(d) ==
    LET u == GetByDingTalkUserID(d)
        b == GetByOrgAndUser(SyncOrg, u)
    IN u # 0 /\ b # 0 /\ bonds[b].dept # 0

\* A sync that nothing disturbs, whatever earlier ones left half-done, brings
\* in every department, below its parent if DingTalk lists the parent first,
\* and makes everyone in it a member with a department (SyncOrganization).
SyncMirrors ==
    settled => \A i \in DOMAIN directory :
        DepartmentMirrored(i) /\ \A e \in directory[i].staff : PersonMirrored(e.who)

\* "It is idempotent" (SyncOrganization): another sync has nothing to change.
ResyncIsIdle ==
    [][settled /\ (\E p \in Procs : SyncStep(p)) => UNCHANGED tables]_dirVars
=============================================================================
