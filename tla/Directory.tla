----------------------------- MODULE Directory -----------------------------
(***************************************************************************)
(* DingTalkSyncService: an organization's departments and members brought  *)
(* in from DingTalk, while others work on the same tables.                 *)
(***************************************************************************)
EXTENDS Departments

CONSTANTS
    SyncOrg,
    Directories,   \* what DingTalk may hold, see below
    SyncIds        \* the ids the directory has of a person

(***************************************************************************)
(* A directory is the sequence of departments in the order DingTalk lists  *)
(* them: [id, parent (0: none), staff], the staff a set of [who, phone].   *)
(* External: a department is listed once, and a person, who may be in many *)
(* departments, has the same phone in each.                                *)
(***************************************************************************)
Staff == [who : People, phone : Phones \cup {NoPhone}]
Entries == [id : Nat \ {0}, parent : Nat, staff : SUBSET Staff]

ASSUME SyncOrgKnown == SyncOrg \in Orgs

ASSUME SyncIdsKnown == "userid" \in SyncIds /\ SyncIds \subseteq {"userid", "union", "open"}

ASSUME DirectoriesKnown ==
    \A dir \in Directories :
       /\ dir \in Seq(Entries)
       /\ \A i, j \in DOMAIN dir :
             /\ dir[i].id = dir[j].id => i = j
             /\ \A e \in dir[i].staff, f \in dir[j].staff :
                   e.who = f.who => e.phone = f.phone

VARIABLES
    directory,  \* external: what DingTalk holds now
    settled     \* history: an undisturbed sync has ended well, and nothing
                \* has changed since, here or in DingTalk

dirVars == <<vars, depts, directory, settled>>
tables == <<users, bonds, depts>>

(***************************************************************************)
(* A sync's row is what it keeps: the listed departments, how many of them *)
(* are done, the ids they got here (deptMap), the people still to do in    *)
(* the current department, those it has seen, and the row to be stored.    *)
(* It is alone if no other request overlaps it, DingTalk's answers are     *)
(* readable and its contents do not change.                                *)
(***************************************************************************)
Progress(listed, done, map, staff, seen) ==
    [listed |-> listed, done |-> done, map |-> map, staff |-> staff,
     seen |-> seen, copy |-> Nobody]

Sync(p) == proc[p].row
Continues(p, label, progress, alone) ==
    proc' = [proc EXCEPT ![p].pc = label, ![p].row = progress,
                         ![p].alone = @ /\ alone]
Stores(p, label, id, row) ==
    proc' = [proc EXCEPT ![p].pc = label, ![p].user = id, ![p].row.copy = row]

More(p) == Sync(p).done < Len(Sync(p).listed)
Current(p) == Sync(p).listed[Sync(p).done + 1]

\* The list comes in one call; an answer that is not JSON counts as empty.
SyncStart(p) ==
    /\ At(p, "idle")
    /\ Starts(p, Work("list", SyncOrg, 0, Nobody, Nobody))
    /\ UNCHANGED <<unmoved, depts>>

SyncList(p) ==
    /\ At(p, "list")
    /\ \E listed \in {directory, <<>>} :
          Continues(p, "depts", Progress(listed, 0, <<>>, {}, {}), listed = directory)
    /\ UNCHANGED <<unmoved, depts>>

-----------------------------------------------------------------------------
(***************************************************************************)
(* syncDepartments, one department at a time: look it up, then store it if *)
(* it is new or its parent has changed.                                    *)
(***************************************************************************)
\* Mutant: once there, a department keeps its parent.
ParentKept(map, up, row) ==
    IF row.parent = 0 /\ up \in DOMAIN map THEN map[up] ELSE row.parent

\* A parent that the list names only later is not in the map.
ParentIn(map, up, row) ==
    IF up = 0 THEN 0 ELSE IF up \in DOMAIN map THEN map[up] ELSE row.parent

With(map, id, d) == [i \in DOMAIN map \cup {id} |-> IF i = id THEN d ELSE map[i]]

DeptDone(p, d) ==
    LET s == Sync(p) IN
    Continues(p, "depts",
              Progress(s.listed, s.done + 1, With(s.map, Current(p).id, d), {}, {}), TRUE)

SyncDept(p) ==
    /\ At(p, "depts") /\ More(p)
    /\ LET d == GetByDingTalkDeptID(proc[p].org, Current(p).id)
           row == IF d = 0 THEN Dept(proc[p].org, 0, Current(p).id, TRUE) ELSE depts[d]
           new == [row EXCEPT !.parent = ParentIn(Sync(p).map, Current(p).parent, row)]
       IN IF d # 0 /\ new = row THEN DeptDone(p, d) ELSE Stores(p, "saveDept", d, new)
    /\ UNCHANGED <<unmoved, depts>>

SyncSaveDept(p) ==
    /\ At(p, "saveDept")
    /\ \/ /\ proc[p].user = 0
          /\ Len(depts) < MaxDepts
          /\ StoreDept(Sync(p).copy)
          /\ DeptDone(p, Len(depts) + 1)
       \/ /\ proc[p].user # 0
          /\ UpdateDept(proc[p].user, Sync(p).copy)
          /\ DeptDone(p, proc[p].user)
    /\ UNCHANGED unmoved

-----------------------------------------------------------------------------
(***************************************************************************)
(* syncUsers: the staff of one department after the other, each listed by  *)
(* a call of its own; everyone once, in the department met first.          *)
(***************************************************************************)
SyncDeptsDone(p) ==
    /\ At(p, "depts") /\ ~More(p)
    /\ LET s == Sync(p) IN Continues(p, "staff", Progress(s.listed, 0, s.map, {}, {}), TRUE)
    /\ UNCHANGED <<unmoved, depts>>

StaffNow(id) ==
    UNION {directory[i].staff : i \in {i \in DOMAIN directory : directory[i].id = id}}

Unseen(staff, seen) == {e \in staff : e.who \notin seen}

SyncListStaff(p) ==
    /\ At(p, "staff") /\ More(p)
    /\ LET s == Sync(p)
           now == StaffNow(Current(p).id) IN
       \E staff \in {now, {}} :
          Continues(p, "people",
                    Progress(s.listed, s.done, s.map, Unseen(staff, s.seen), s.seen),
                    staff = now)
    /\ UNCHANGED <<unmoved, depts>>

NextDept(p) ==
    /\ At(p, "people") /\ Sync(p).staff = {}
    /\ LET s == Sync(p) IN
       Continues(p, "staff", Progress(s.listed, s.done + 1, s.map, {}, s.seen), TRUE)
    /\ UNCHANGED <<unmoved, depts>>

\* Mutant: the new account is not told its userid.
FromDirectoryUnion(e) == User(e.phone, NoName, NoPassword, (SyncIds \ {"userid"}) \X {e.who})

FromDirectory(e) == User(e.phone, NoName, NoPassword, SyncIds \X {e.who})

\* What the directory knows replaces the phone, and adds a missing union id.
Merged(row, e) ==
    AddIds([row EXCEPT !.phone = IF e.phone = NoPhone THEN @ ELSE e.phone], SyncIds, e.who)

\* upsertUser: the lookup.
SyncPerson(p) ==
    /\ At(p, "people")
    /\ \E e \in Sync(p).staff :
          LET s == Sync(p)
              u == GetByDingTalkUserID(e.who)
              row == IF u = 0 THEN FromDirectory(e) ELSE Merged(users[u], e)
          IN proc' = [proc EXCEPT
                ![p].pc = IF u # 0 /\ row = users[u] THEN "person" ELSE "savePerson",
                ![p].user = u,
                ![p].row = [Progress(s.listed, s.done, s.map, s.staff \ {e},
                                     s.seen \cup {e.who}) EXCEPT !.copy = row]]
    /\ UNCHANGED <<unmoved, depts>>

SyncSavePerson(p) ==
    /\ At(p, "savePerson")
    /\ \/ /\ proc[p].user = 0
          /\ Len(users) < MaxUsers
          /\ CreateUser(Sync(p).copy)
          /\ Stores(p, "person", Len(users) + 1, Nobody)
       \/ /\ proc[p].user # 0
          /\ UpdateUser(proc[p].user, Sync(p).copy)
          /\ Stores(p, "person", proc[p].user, Nobody)
    /\ UNCHANGED <<bonds, account, depts>>

\* upsertBond: a member without a department gets this one.
SyncBond(p) ==
    /\ At(p, "person")
    /\ LET b == GetByOrgAndUser(proc[p].org, proc[p].user)
           dept == Sync(p).map[Current(p).id]
           row == IF b = 0 THEN Bond(proc[p].org, proc[p].user, FALSE, dept, TRUE)
                  ELSE [bonds[b] EXCEPT !.dept = IF @ = 0 THEN dept ELSE @]
       IN proc' = [proc EXCEPT
             ![p].pc = IF b # 0 /\ row = bonds[b] THEN "people" ELSE "saveMember",
             ![p].user = 0, ![p].bond = b, ![p].row.copy = Nobody, ![p].member = row]
    /\ UNCHANGED <<unmoved, depts>>

SyncSaveBond(p) ==
    /\ At(p, "saveMember")
    /\ \/ proc[p].bond = 0 /\ Len(bonds) < MaxBonds /\ CreateBond(proc[p].member)
       \/ proc[p].bond # 0 /\ UpdateBond(proc[p].bond, proc[p].member)
    /\ proc' = [proc EXCEPT ![p].pc = "people", ![p].bond = 0, ![p].member = Nobody]
    /\ UNCHANGED <<users, account, depts>>

SyncEnd(p) ==
    /\ At(p, "staff") /\ ~More(p)
    /\ Ends(p)
    /\ settled' = (settled \/ proc[p].alone)
    /\ UNCHANGED <<unmoved, depts, directory>>

-----------------------------------------------------------------------------
SyncStep(p) ==
    \/ SyncStart(p) \/ SyncList(p) \/ SyncDept(p) \/ SyncSaveDept(p) \/ SyncDeptsDone(p)
    \/ SyncListStaff(p) \/ NextDept(p) \/ SyncPerson(p) \/ SyncSavePerson(p)
    \/ SyncBond(p) \/ SyncSaveBond(p)

DirectoryChanges ==
    /\ directory' \in Directories \ {directory}
    /\ settled' = FALSE
    /\ Disturbs
    /\ UNCHANGED <<unmoved, depts>>

DirectoryInit ==
    /\ Init
    /\ bonds[1].org = SyncOrg
    /\ depts = <<>>
    /\ directory \in Directories
    /\ settled = FALSE

Unsettles == settled' = (settled /\ UNCHANGED tables)

\* The request on members that undoes what a sync does; Members has them all.
MemberStep(p) ==
    (RemoveMember(p) \/ RemoveCount(p) \/ RemoveDelete(p) \/ Fail(p)) /\ UNCHANGED depts

DirectoryNext ==
    \/ /\ DepartmentStep \/ \E p \in Procs : MemberStep(p) \/ SyncStep(p)
       /\ Unsettles
       /\ UNCHANGED directory
    \/ \E p \in Procs : SyncEnd(p)
    \/ DirectoryChanges

DirectorySpec == DirectoryInit /\ [][DirectoryNext]_dirVars
=============================================================================
