------------------------------ MODULE Members ------------------------------
(***************************************************************************)
(* Accounts and their memberships: UserService, the DingTalk login and the *)
(* tables users and org_user_bonds.  The MCP tools (mcp/tools/user_tools)  *)
(* and the REST handlers (handler/common) call the same service.           *)
(*                                                                         *)
(* As in Tokens an action is one statement with the code up to the next    *)
(* one; proc[p] is what the goroutine keeps, rows it has read included.    *)
(***************************************************************************)
EXTENDS ToolCalls, Sequences, FiniteSetsExt

CONSTANTS
    Procs, Orgs,
    Phones, Names, Passwords, People,          \* People: in DingTalk
    NoPhone, NoName, NoPassword, Nobody,
    PhoneOf,            \* the mobile number DingTalk has of a person
    LoginIds,           \* the ids a DingTalk login brings
    MaxUsers, MaxBonds  \* bounds

ASSUME IdsKnown == LoginIds # {} /\ LoginIds \subseteq {"userid", "union", "open"}
ASSUME PasswordsKnown == NoPassword \notin Passwords
ASSUME PhonesKnown == PhoneOf \in [People -> Phones \cup {NoPhone}]

VARIABLES
    users,      \* table users, by id; nothing here deletes one
    bonds,      \* table org_user_bonds, by id, removed ones with live = FALSE
    proc,
    account     \* history: whom each person's last undisturbed login led to

vars == <<users, bonds, proc, account>>

\* Name, mail, avatar and position are left out.  They are saved with the row; a
\* sync compares them, and saves the row for their sake alone (upsertUser): of
\* these saves only those that change a column kept here are modelled.
\* ids are the DingTalk ids that the row has, each <<its kind, whose it is>>.
User(phone, name, password, ids) ==
    [phone |-> phone, name |-> name, password |-> password, ids |-> ids]

\* With the ids of these kinds that the row does not have yet.
AddIds(row, kinds, d) ==
    LET missing == {k \in kinds : \A id \in row.ids : id[1] # k}
    IN [row EXCEPT !.ids = @ \cup (missing \X {d})]

Bond(o, u, admin, dept, live) ==
    [org |-> o, user |-> u, admin |-> admin, dept |-> dept, live |-> live]

\* Of a request: ask is what the client gave; user and bond are ids (0: none),
\* row and member copies of the two rows; alone says that no other request has
\* been in flight since it began.
Work(label, o, u, row, ask) ==
    [pc |-> label, org |-> o, user |-> u, bond |-> 0, row |-> row,
     member |-> Nobody, ask |-> ask, alone |-> TRUE]

Idle == [pc |-> "idle"]

At(p, label) == proc[p].pc = label
Busy == {p \in Procs : ~At(p, "idle")}

Starts(p, work) ==
    proc' = [q \in Procs |->
        IF q = p THEN [work EXCEPT !.alone = Busy = {}]
        ELSE IF At(q, "idle") THEN Idle ELSE [proc[q] EXCEPT !.alone = FALSE]]

Goes(p, label) == proc' = [proc EXCEPT ![p].pc = label]
GoesWith(p, label, u) ==
    proc' = [proc EXCEPT ![p].pc = label, ![p].user = u]
Ends(p) == proc' = [proc EXCEPT ![p] = Idle]

\* Bound: every request in flight may still create an account and a bond.
RoomForUser == Len(users) + Cardinality(Busy) < MaxUsers
RoomForBond == Len(bonds) + Cardinality(Busy) < MaxBonds

-----------------------------------------------------------------------------
(***************************************************************************)
(* The repositories.  First orders by id; 0 stands for no row.             *)
(***************************************************************************)
First(ids) == IF ids = {} THEN 0 ELSE Min(ids)

GetByPhone(ph) == First({u \in DOMAIN users : users[u].phone = ph})
GetByUsername(n) == First({u \in DOMAIN users : users[u].name = n})
GetByDingTalkUserID(d) == First({u \in DOMAIN users : <<"userid", d>> \in users[u].ids})

BondsOf(o) == {b \in DOMAIN bonds : bonds[b].live /\ bonds[b].org = o}
GetByOrgAndUser(o, u) == First({b \in BondsOf(o) : bonds[b].user = u})

\* The unique indexes on username and dingtalk_userid, for a row to be stored
\* at u.
Unique(u, row) ==
    \A v \in DOMAIN users \ {u} :
       /\ row.name = NoName \/ users[v].name # row.name
       /\ \A d \in People : <<"userid", d>> \notin row.ids \cap users[v].ids

CreateUser(row) == Unique(0, row) /\ users' = Append(users, row)

\* Mutant: a row made of the profile only.
SavedProfile(u, row) ==
    [users EXCEPT ![u] = User(row.phone, row.name, NoPassword, row.ids)]

\* gorm's Save writes every column of the copy.
Saved(u, row) == [users EXCEPT ![u] = row]

UpdateUser(u, row) == Unique(u, row) /\ users' = Saved(u, row)

CreateBond(row) ==
    /\ GetByOrgAndUser(row.org, row.user) = 0
    /\ bonds' = Append(bonds, row)

\* Saving a row that has been deleted meanwhile inserts it again.
UpdateBond(b, row) ==
    /\ GetByOrgAndUser(row.org, row.user) \in {0, b}
    /\ bonds' = [bonds EXCEPT ![b] = row]

-----------------------------------------------------------------------------
(***************************************************************************)
(* CreateMember: the account with that phone, or a new one, and its bond.  *)
(* A username or password the service refuses is NoName or NoPassword.     *)
(***************************************************************************)
Create(p, o, ph, n, pw, admin) ==
    /\ At(p, "idle") /\ RoomForUser /\ RoomForBond
    /\ LET u == GetByPhone(ph) IN
       Starts(p, Work(IF u = 0 THEN "name" ELSE "member", o, u,
                      User(ph, n, pw, {}), admin))
    /\ UNCHANGED <<users, bonds, account>>

\* Being a member already is not an error, and changes nothing.
CreateFindBond(p) ==
    /\ At(p, "member")
    /\ IF GetByOrgAndUser(proc[p].org, proc[p].user) = 0 THEN Goes(p, "bond") ELSE Ends(p)
    /\ UNCHANGED <<users, bonds, account>>

\* Mutant: the password's own rules are not checked.
AcceptableName(row) == row.name # NoName

\* username.Validate and password.Hash.
Acceptable(row) == row.name # NoName /\ row.password # NoPassword

\* The lookup's error is dropped, as if the username were free.
CreateCheckName(p) ==
    /\ At(p, "name")
    /\ \/ Acceptable(proc[p].row) /\ Goes(p, "account")
       \/ ~Acceptable(proc[p].row) /\ Ends(p)
       \/ GetByUsername(proc[p].row.name) # 0 /\ Ends(p)
    /\ UNCHANGED <<users, bonds, account>>

CreateAccount(p) ==
    /\ At(p, "account")
    /\ CreateUser(proc[p].row)
    /\ GoesWith(p, "bond", Len(users) + 1)
    /\ UNCHANGED <<bonds, account>>

CreateMembership(p) ==
    /\ At(p, "bond")
    /\ CreateBond(Bond(proc[p].org, proc[p].user, proc[p].ask = "admin", 0, TRUE))
    /\ Ends(p)
    /\ UNCHANGED <<users, account>>

-----------------------------------------------------------------------------
(***************************************************************************)
(* UpdateMember: both rows are read, then both are saved.  What is asked   *)
(* is to become an administrator, to cease to be one, or neither ("keep"). *)
(***************************************************************************)
Asked(row, admin) ==
    [row EXCEPT !.admin = IF admin = "keep" THEN @ ELSE admin = "admin"]

Update(p, o, u, admin) ==
    /\ At(p, "idle")
    /\ GetByOrgAndUser(o, u) # 0
    /\ LET b == GetByOrgAndUser(o, u) IN
       Starts(p, [Work("profile", o, u, Nobody, admin) EXCEPT
                     !.bond = b, !.member = Asked(bonds[b], admin)])
    /\ UNCHANGED <<users, bonds, account>>

UpdateLoad(p) ==
    /\ At(p, "profile")
    /\ proc' = [proc EXCEPT ![p].pc = "saveUser", ![p].row = users[proc[p].user]]
    /\ UNCHANGED <<users, bonds, account>>

UpdateSaveUser(p) ==
    /\ At(p, "saveUser")
    /\ UpdateUser(proc[p].user, proc[p].row)
    /\ Goes(p, "saveBond")
    /\ UNCHANGED <<bonds, account>>

UpdateSaveBond(p) ==
    /\ At(p, "saveBond")
    /\ UpdateBond(proc[p].bond, proc[p].member)
    /\ Ends(p)
    /\ UNCHANGED <<users, account>>

-----------------------------------------------------------------------------
(***************************************************************************)
(* RemoveMember: never oneself, never the last administrator.              *)
(***************************************************************************)
Remove(p, o, u, caller) ==
    /\ At(p, "idle")
    /\ u # caller
    /\ Starts(p, Work("count", o, u, Nobody, Nobody))
    /\ UNCHANGED <<users, bonds, account>>

Admins(o) == {bonds[b].user : b \in {b \in BondsOf(o) : bonds[b].admin}}

\* Mutant: one too few.
LastAdminNone(o, u) == u \in Admins(o) /\ Cardinality(Admins(o)) <= 0

LastAdmin(o, u) == u \in Admins(o) /\ Cardinality(Admins(o)) <= 1

RemoveCount(p) ==
    /\ At(p, "count")
    /\ IF LastAdmin(proc[p].org, proc[p].user) THEN Ends(p) ELSE Goes(p, "delete")
    /\ UNCHANGED <<users, bonds, account>>

DeleteByOrgAndUser(o, u) ==
    bonds' = [b \in DOMAIN bonds |->
        IF bonds[b].org = o /\ bonds[b].user = u
        THEN [bonds[b] EXCEPT !.live = FALSE] ELSE bonds[b]]

RemoveDelete(p) ==
    /\ At(p, "delete")
    /\ DeleteByOrgAndUser(proc[p].org, proc[p].user)
    /\ Ends(p)
    /\ UNCHANGED <<users, account>>

-----------------------------------------------------------------------------
\* ResetPassword: one column of one row.
Reset(p, u, pw) ==
    /\ At(p, "idle")
    /\ Starts(p, Work("reset", Nobody, u, Nobody, pw))
    /\ UNCHANGED <<users, bonds, account>>

ResetSave(p) ==
    /\ At(p, "reset")
    /\ users' = [users EXCEPT ![proc[p].user].password = proc[p].ask]
    /\ Ends(p)
    /\ UNCHANGED <<bonds, account>>

-----------------------------------------------------------------------------
(***************************************************************************)
(* LoginOrCreate: the first account with one of the ids that DingTalk told *)
(* of the person, or a new one; a missing id is added to the account.      *)
(***************************************************************************)
LoginIdsOf(d) == LoginIds \X {d}

\* Mutant: only the userid is compared.
SameUserid(row, d) == row.ids \cap LoginIdsOf(d) \cap ({"userid"} \X People) # {}

Same(row, d) == row.ids \cap LoginIdsOf(d) # {}

FindDingTalkUser(d) == First({u \in DOMAIN users : Same(users[u], d)})

Login(p, d) ==
    /\ At(p, "idle") /\ RoomForUser
    /\ LET u == FindDingTalkUser(d)
           row == IF u = 0 THEN User(PhoneOf[d], NoName, NoPassword, LoginIdsOf(d))
                  ELSE AddIds(users[u], LoginIds, d)
       IN Starts(p, Work(IF u = 0 THEN "newcomer"
                         ELSE IF row = users[u] THEN "session" ELSE "refresh",
                         Nobody, u, row, d))
    /\ UNCHANGED <<users, bonds, account>>

LoginCreate(p) ==
    /\ At(p, "newcomer")
    /\ CreateUser(proc[p].row)
    /\ GoesWith(p, "session", Len(users) + 1)
    /\ UNCHANGED <<bonds, account>>

\* The error is dropped.
LoginRefresh(p) ==
    /\ At(p, "refresh")
    /\ UpdateUser(proc[p].user, proc[p].row) \/ UNCHANGED users
    /\ Goes(p, "session")
    /\ UNCHANGED <<bonds, account>>

\* The organizations are listed and the login session stored, as in Tokens.
LoginSession(p) ==
    /\ At(p, "session")
    /\ account' = IF proc[p].alone THEN [account EXCEPT ![proc[p].ask] = proc[p].user]
                  ELSE account
    /\ Ends(p)
    /\ UNCHANGED <<users, bonds>>

\* A statement fails, for whatever reason, and its error ends the request; or
\* the client hangs up, or the server stops.
Fail(p) ==
    /\ ~At(p, "idle")
    /\ Ends(p)
    /\ UNCHANGED <<users, bonds, account>>

-----------------------------------------------------------------------------
\* After the first setup, an administrator without a phone; maybe somebody
\* whom a synchronization has brought in, and who is no member any more.
Founder(n, pw) == User(NoPhone, n, pw, {})
Synced(d) == User(PhoneOf[d], NoName, NoPassword, {"userid", "union"} \X {d})

Init ==
    /\ \E n \in Names, pw \in Passwords :
          \/ users = <<Founder(n, pw)>>
          \/ \E d \in People : users = <<Founder(n, pw), Synced(d)>>
    /\ \E o \in Orgs : bonds = <<Bond(o, 1, TRUE, 0, TRUE)>>
    /\ proc = [p \in Procs |-> Idle]
    /\ account = [d \in People |-> 0]

\* The tools name their caller's organization; the REST routes, for the
\* provider, any.
Callers(o) == Claims(DOMAIN users, {o}, {"provider", "tenant"})

ToolCreateMember(p) ==
    \E o \in Orgs, ph \in Phones \cup {NoPhone}, n \in Names \cup {NoName},
       pw \in Passwords \cup {NoPassword}, admin \in {"admin", "member"} :
          /\ \E c \in Callers(o) : ValidateToolCall(c, UserTools.create_member, o)
          /\ Create(p, o, ph, n, pw, admin)

\* A password that is too short does not get here.
CreateMember(p) ==
    \E o \in Orgs, ph \in Phones \cup {NoPhone}, n \in Names \cup {NoName},
       pw \in Passwords, admin \in {"admin", "member"} : Create(p, o, ph, n, pw, admin)

ToolUpdateMember(p) ==
    \E o \in Orgs, u \in DOMAIN users, admin \in {"admin", "member", "keep"} :
       /\ \E c \in Callers(o) : ValidateToolCall(c, UserTools.update_member, o)
       /\ Update(p, o, u, admin)

UpdateMember(p) ==
    \E o \in Orgs, u \in DOMAIN users, admin \in {"admin", "member", "keep"} :
       Update(p, o, u, admin)

ToolRemoveMember(p) ==
    \E o \in Orgs : \E c \in Callers(o), u \in DOMAIN users :
       /\ ValidateToolCall(c, UserTools.remove_member, o)
       /\ Remove(p, o, u, c.user)

RemoveMember(p) ==
    \E o \in Orgs, u, caller \in DOMAIN users : Remove(p, o, u, caller)

ContinueMember(p) ==
    \/ CreateFindBond(p) \/ CreateCheckName(p) \/ CreateAccount(p) \/ CreateMembership(p)
    \/ UpdateLoad(p) \/ UpdateSaveUser(p) \/ UpdateSaveBond(p)
    \/ RemoveCount(p) \/ RemoveDelete(p)

ResetPassword(p) ==
    \/ \E u \in DOMAIN users, pw \in Passwords : Reset(p, u, pw)
    \/ ResetSave(p)

LoginOrCreate(p) ==
    \/ \E d \in People : Login(p, d)
    \/ LoginCreate(p) \/ LoginRefresh(p) \/ LoginSession(p)

Next ==
    \E p \in Procs :
       \/ ToolCreateMember(p) \/ ToolUpdateMember(p) \/ ToolRemoveMember(p)
       \/ CreateMember(p) \/ UpdateMember(p) \/ RemoveMember(p) \/ ContinueMember(p)
       \/ ResetPassword(p) \/ LoginOrCreate(p) \/ Fail(p)

Spec == Init /\ [][Next]_vars
=============================================================================
