------------------------------ MODULE AppData ------------------------------
(***************************************************************************)
(* DataService: the tables of an application, one in the database for all  *)
(* the organizations that have it, and a description of it for each.       *)
(*                                                                         *)
(* The tools take the application from the caller's context.  Nothing puts *)
(* it there yet (main.go sets no app_id); here it is any.                  *)
(***************************************************************************)
EXTENDS Sharing, Functions

CONSTANT
    Cut   \* Cut[t]: what PostgreSQL keeps of t, a name's first 26 characters
          \* (an application's id, an underscore and t are to be 63 at most)

VARIABLES
    described,  \* data_tables: <<app, org, table>> with the columns it lists
    stored,     \* the tables themselves, by <<app, what is kept of the name>>,
                \* with columns and rows
    marred      \* history: tables of which a creation or a removal met another
                \* request, failed, or found the table there, or that a
                \* statement of an application's own has made, altered, dropped

data == <<described, stored, marred>>
vars == <<keyed, sharing, data, proc, left>>

\* A row's id, whose it is, and whether it has been updated.
Row(i, o) == [id |-> i, org |-> o, updated |-> FALSE]
Table(cols) == [cols |-> cols, rows |-> {}, serial |-> 0]

With(f, k, v) == [x \in DOMAIN f \cup {k} |-> IF x = k THEN v ELSE f[x]]
Less(f, k) == [x \in DOMAIN f \ {k} |-> f[x]]

\* Two tables of an application may have one name in the database.
Physical(a, t) == <<a, Cut[t]>>
PhysicalNames == {Physical(a, t) : a \in Apps, t \in Tables}

Name(p) == Physical(proc[p].app, proc[p].table)
Entry(p) == <<proc[p].app, proc[p].org, proc[p].table>>
Mars(p) == marred' = marred \cup {Name(p)}
Keeps(p) == IF proc[p].alone THEN UNCHANGED marred ELSE Mars(p)

Call(label, a, o, t) == [Work(label, a, o, {}) EXCEPT !.table = t]

-----------------------------------------------------------------------------
(***************************************************************************)
(* Creation: the table, if there is none, and its description, without     *)
(* which the table goes again.  Names and types that are refused leave no  *)
(* trace.                                                                  *)
(***************************************************************************)
CreateTable(p, a, o, t, cols) ==
    /\ At(p, "idle")
    /\ LET n == Physical(a, t) IN
       IF n \in DOMAIN stored THEN marred' = marred \cup {n} /\ UNCHANGED stored
       ELSE stored' = With(stored, n, Table(cols)) /\ UNCHANGED marred
    /\ Starts(p, [Call("describe", a, o, t) EXCEPT !.cols = cols])
    /\ UNCHANGED <<sharing, described>>

\* Mutant: the table stays behind.
UndoneNot(p) == stored

Undone(p) == Less(stored, Name(p))

\* The unique index, or another reason why the row is not written.
CreateDescription(p) ==
    /\ At(p, "describe")
    /\ \/ /\ Entry(p) \notin DOMAIN described
          /\ described' = With(described, Entry(p), proc[p].cols)
          /\ Ends(p) /\ Keeps(p)
       \/ Continues(p, "undo") /\ UNCHANGED <<described, marred>>
    /\ UNCHANGED <<sharing, stored>>

\* Its own failure is not looked at.
CreateUndo(p) ==
    /\ At(p, "undo")
    /\ \/ stored' = Undone(p) /\ Keeps(p)
       \/ UNCHANGED stored /\ Mars(p)
    /\ Ends(p)
    /\ UNCHANGED <<sharing, described>>

-----------------------------------------------------------------------------
(***************************************************************************)
(* All other operations begin with the description: those of the tools at  *)
(* once, those of the routes when IsAppAdmin has been asked.               *)
(***************************************************************************)
Authorize(p) ==
    /\ At(p, "authorize")
    /\ \A u \in proc[p].users : IsAppAdmin(u, proc[p].org, proc[p].app)
    /\ Continues(p, "metadata")
    /\ UNCHANGED <<sharing, data>>

GetTableMetadata(p) ==
    /\ At(p, "metadata")
    /\ Entry(p) \in DOMAIN described
    /\ Continues(p, proc[p].then)
    /\ UNCHANGED <<sharing, data>>

DropTable(p) ==
    /\ At(p, "drop")
    /\ stored' = Less(stored, Name(p))
    /\ Continues(p, "forget")
    /\ UNCHANGED <<sharing, described, marred>>

DropDescription(p) ==
    /\ At(p, "forget")
    /\ described' = Less(described, Entry(p))
    /\ Ends(p) /\ Keeps(p)
    /\ UNCHANGED <<sharing, stored>>

\* Mutant: the organization is not a condition.
MatchingAny(p, row) == proc[p].row \in {0, row.id}

Matching(p, row) == row.org = proc[p].org /\ proc[p].row \in {0, row.id}

There(p) == Name(p) \in DOMAIN stored
Rewritten(p, rows) == stored' = [stored EXCEPT ![Name(p)].rows = rows]

\* A batch is so many statements, and ends at the first that fails.
Insert(p) ==
    /\ At(p, "insert") /\ There(p)
    /\ LET i == stored[Name(p)].serial + 1 IN
       stored' = [stored EXCEPT ![Name(p)].serial = i,
                                ![Name(p)].rows = @ \cup {Row(i, proc[p].org)}]
    /\ IF proc[p].more = 0 THEN Ends(p)
       ELSE proc' = [proc EXCEPT ![p].more = @ - 1] /\ UNCHANGED left
    /\ UNCHANGED <<sharing, described, marred>>

Update(p) ==
    /\ At(p, "update") /\ There(p)
    /\ Rewritten(p, {IF Matching(p, r) THEN [r EXCEPT !.updated = TRUE] ELSE r :
                       r \in stored[Name(p)].rows})
    /\ Ends(p)
    /\ UNCHANGED <<sharing, described, marred>>

Delete(p) ==
    /\ At(p, "delete") /\ There(p)
    /\ Rewritten(p, {r \in stored[Name(p)].rows : ~Matching(p, r)})
    /\ Ends(p)
    /\ UNCHANGED <<sharing, described, marred>>

\* No description mentions it.
AddColumn(p) ==
    /\ At(p, "addColumn") /\ There(p)
    /\ proc[p].cols \cap stored[Name(p)].cols = {}
    /\ stored' = [stored EXCEPT ![Name(p)].cols = @ \cup proc[p].cols]
    /\ Ends(p)
    /\ UNCHANGED <<sharing, described, marred>>

(***************************************************************************)
(* A statement of the application's own.  validateRawSQL looks at what     *)
(* follows the first FROM, INTO, UPDATE and JOIN, so it may be about any   *)
(* table (here: one of those of AppData), and make, alter or drop it.      *)
(***************************************************************************)
Defines(n) ==
    /\ \/ /\ n \notin DOMAIN stored
          /\ \E cols \in SUBSET Columns : stored' = With(stored, n, Table(cols))
       \/ /\ n \in DOMAIN stored
          /\ \E cols \in SUBSET Columns : stored' = [stored EXCEPT ![n].cols = cols]
       \/ stored' = Less(stored, n)
    /\ marred' = marred \cup {n}

\* Rows of any organization come, change hands, are updated and go.
Manipulates(n) ==
    /\ n \in DOMAIN stored
    /\ LET s == stored[n] IN
       \/ \E gone \in SUBSET s.rows : stored' = [stored EXCEPT ![n].rows = @ \ gone]
       \/ \E o \in Orgs, r \in s.rows :
             stored' = [stored EXCEPT ![n].rows =
                          (@ \ {r}) \cup {[r EXCEPT !.org = o, !.updated = TRUE]}]
       \/ \E o \in Orgs :
             stored' = [stored EXCEPT ![n].serial = s.serial + 1,
                                      ![n].rows = @ \cup {Row(s.serial + 1, o)}]
    /\ UNCHANGED marred

ExecRaw(n) ==
    /\ Defines(n) \/ Manipulates(n)
    /\ AtOnce
    /\ UNCHANGED <<sharing, described>>

\* A statement fails, the client hangs up or the server stops.
DataRefused(p) ==
    /\ ~At(p, "idle") /\ proc[p].table # Nothing
    /\ IF proc[p].pc \in {"describe", "undo", "forget"} THEN Mars(p) ELSE UNCHANGED marred
    /\ Ends(p)
    /\ UNCHANGED <<sharing, described, stored>>

-----------------------------------------------------------------------------
(***************************************************************************)
(* The callers.                                                            *)
(***************************************************************************)
MayData(scope, o) == \E c \in Callers : ValidateToolCall(c, scope, o)

Begins(p, work) == At(p, "idle") /\ Starts(p, work) /\ UNCHANGED <<sharing, data>>

Operation(then, a, o, t, i) == [Call("metadata", a, o, t) EXCEPT !.then = then, !.row = i]

ToolTable(p) ==
    \E a \in Apps, o \in Orgs, t \in Tables :
       \/ /\ MayData(DataTools.create_table, o)
          /\ \E cols \in SUBSET Columns : CreateTable(p, a, o, t, cols)
       \/ MayData(DataTools.drop_table, o) /\ Begins(p, Operation("drop", a, o, t, 0))
       \/ /\ MayData(DataTools.add_column, o)
          /\ \E c \in Columns :
                Begins(p, [Operation("addColumn", a, o, t, 0) EXCEPT !.cols = {c}])
       \/ MayData(DataTools.exec_raw, o) /\ ExecRaw(Physical(a, t))

Ids(a, t) ==
    LET n == Physical(a, t)
    IN  IF n \in DOMAIN stored THEN {r.id : r \in stored[n].rows} ELSE {}

ToolRows(p) ==
    \E a \in Apps, o \in Orgs, t \in Tables :
       \/ MayData(DataTools.insert, o) /\ Begins(p, Operation("insert", a, o, t, 0))
       \/ /\ MayData(DataTools.batch_insert, o)
          /\ Begins(p, [Operation("insert", a, o, t, 0) EXCEPT !.more = 1])
       \/ \E i \in {0} \cup Ids(a, t) :
             \/ MayData(DataTools.update, o) /\ Begins(p, Operation("update", a, o, t, i))
             \/ MayData(DataTools.delete, o) /\ Begins(p, Operation("delete", a, o, t, i))

Asks(p, u, work) == Begins(p, [work EXCEPT !.pc = "authorize", !.users = {u}])

RouteRows(p) ==
    \E u \in Users, a \in Apps, o \in Orgs, t \in Tables :
       \/ Asks(p, u, Operation("insert", a, o, t, 0))
       \/ \E i \in Ids(a, t), then \in {"update", "delete"} :
             Asks(p, u, Operation(then, a, o, t, i))

-----------------------------------------------------------------------------
(***************************************************************************)
(* An application that nobody has yet, or one that two organizations have  *)
(* and that keeps a table with a row for each of them.                     *)
(***************************************************************************)
Empty == [x \in {} |-> {}]

Init ==
    /\ keyed \in BOOLEAN
    /\ orgs \in [Orgs -> {"new", "live"}] /\ orgs[Provider] = "live"
    /\ apps = Apps
    /\ \E boss, u \in Users : members = {<<Provider, boss>>} \cup ((LiveOrgs \ {Provider}) \X {u})
    /\ \/ dists = {} /\ admins = {} /\ described = Empty /\ stored = Empty /\ marred = {}
       \/ LET tenants == LiveOrgs \ {Provider}
              several == Cardinality(tenants) > 1
          IN /\ tenants # {}
             /\ \E who \in SUBSET Users, ids \in [tenants -> 1 .. Cardinality(tenants)],
                   t \in Tables :
                   /\ IsInjective(ids)
                   /\ dists = Apps \X tenants
                   /\ admins = Apps \X tenants \X who
                   /\ described = [e \in Apps \X tenants \X {t} |-> Columns]
                   /\ stored = [n \in Apps \X {Cut[t]} |->
                                   [cols |-> Columns, serial |-> Cardinality(tenants),
                                    rows |-> {Row(ids[o], o) : o \in tenants}]]
                   /\ marred = IF several THEN Apps \X {Cut[t]} ELSE {}
    /\ untidy = {}
    /\ proc = [p \in Procs |-> Idle]
    /\ left = MaxRequests

DataRequest(p) == ToolTable(p) \/ ToolRows(p) \/ RouteRows(p)

DataStep(p) ==
    \/ CreateDescription(p) \/ CreateUndo(p) \/ Authorize(p) \/ GetTableMetadata(p)
    \/ DropTable(p) \/ DropDescription(p)
    \/ Insert(p) \/ Update(p) \/ Delete(p) \/ AddColumn(p) \/ DataRefused(p)

Next ==
    /\ UNCHANGED keyed
    /\ \/ /\ left > 0
          /\ \/ (Around \/ \E p \in Procs : SharingRequest(p)) /\ UNCHANGED data
             \/ \E p \in Procs : DataRequest(p)
       \/ (\E p \in Procs : SharingStep(p)) /\ UNCHANGED data
       \/ \E p \in Procs : DataStep(p)

Spec == Init /\ [][Next]_vars
=============================================================================
