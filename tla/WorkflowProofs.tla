--------------------------- MODULE WorkflowProofs ---------------------------
(***************************************************************************)
(* Proofs, for every number of goroutines, users, definitions and rows, of *)
(* the invariants of WorkflowInvariants and WorkflowIsolated.              *)
(*                                                                         *)
(* The inductive invariant adds to them what every goroutine's local copy  *)
(* satisfies while it is stale (LocalOK), and that every stored definition *)
(* was validated.  The tables only grow and a row keeps its foreign keys   *)
(* (SameDefs, SameInstances, SameTasks): that is why a stale copy stays    *)
(* good.                                                                   *)
(*                                                                         *)
(* After them, in parts that begin with a comment of this kind: that no    *)
(* approval step is passed without a decision (HumanInTheLoop), and, while *)
(* requests overlap on different instances only, that an instance nobody   *)
(* is working on waits for one decision (OneOpenTask, see OneInv) and that *)
(* calls take effect all at once (CallsAreAtomic, see FaithInv).           *)
(***************************************************************************)
EXTENDS WorkflowIsolated, SequenceTheorems, WellFoundedInduction, TLAPS

-----------------------------------------------------------------------------
\* The copy a goroutine holds of the instance it will write back.
Copy(D, I, l) ==
    /\ l.id \in DOMAIN I
    /\ l.row \in InstanceRow
    /\ Coherent(D, l.row)
    /\ l.row.def = I[l.id].def
    /\ l.row.org = I[l.id].org

LocalOK(D, I, T, l) ==
    /\ l.pc = "create" =>
         /\ l.row \in InstanceRow
         /\ Coherent(D, l.row)
         /\ l.row.status = "running"
         /\ l.row.step = "start"
    /\ l.pc = "advance" =>
         Copy(D, I, l) /\ l.row.status = "running" /\ Resolves(D, l)
    /\ l.pc = "assign" =>
         /\ Copy(D, I, l)
         /\ l.goto \in DOMAIN D[l.row.def].wf
         /\ D[l.row.def].wf[l.goto].type = "approval"
    /\ l.pc = "saveTask" =>
         /\ l.tid \in DOMAIN T
         /\ l.task \in TaskRow
         /\ SameQuestion(l.task, T[l.tid])
         /\ l.task.status # "pending"
    /\ l.pc = "loadInstance" =>
         l.task \in TaskRow /\ Issued(D, I, l.task) /\ l.task.status # "pending"
    /\ l.pc = "saveCancel" => Copy(D, I, l)

DefsValid == \A d \in DOMAIN defs : ValidateDefinition(defs[d].wf)

LocalsOK == \A p \in Procs : LocalOK(defs, instances, tasks, proc[p])

IInv == TypeOK /\ DefsValid /\ RowsCoherent /\ TasksIssued /\ LocalsOK

\* What a step may do to a table: add rows, and leave the foreign keys and the
\* content of definitions alone.
SameDefs(D, E) ==
    \A d \in DOMAIN D : /\ d \in DOMAIN E
                        /\ E[d].wf = D[d].wf
                        /\ E[d].org = D[d].org

SameInstances(I, J) ==
    \A i \in DOMAIN I : /\ i \in DOMAIN J
                        /\ J[i].def = I[i].def
                        /\ J[i].org = I[i].org

SameTasks(T, U) ==
    \A t \in DOMAIN T : /\ t \in DOMAIN U
                        /\ SameQuestion(U[t], T[t])
                        /\ T[t].status # "pending" => U[t].status # "pending"

-----------------------------------------------------------------------------
(***************************************************************************)
(* Lemmas about the operators.                                             *)
(***************************************************************************)
LEMMA LeastBranch ==
    ASSUME NEW S \in SUBSET Nat, S # {}
    PROVE  \E h \in S : \A j \in S : h <= j
<1> DEFINE R == OpToRel(<, Nat)
<1>1. IsWellFoundedOn(R, Nat)
  BY NatLessThanWellFounded, Zenon
<1>2. \A x, y \in S : x < y => <<x, y>> \in R
  BY DEF OpToRel
<1>3. PICK h \in S : \A j \in S : ~(<<j, h>> \in R)
  <2> HIDE DEF R
  <2> QED BY <1>1, WFMin, Zenon
<1>4. \A j \in S : ~(j < h)
  BY <1>2, <1>3
<1> QED
  BY <1>4

\* A condition step of a validated definition routes to one of its steps, or
\* nowhere.
LEMMA ConditionRoutes ==
    ASSUME NEW wf \in Payloads, ValidateDefinition(wf),
           NEW n \in DOMAIN wf, NEW v
    PROVE  EvaluateConditions(wf[n], v) \in DOMAIN wf \cup {NoGoto}
<1> DEFINE c == wf[n].conditions
           hits == {h \in DOMAIN c : Stops(c[h], v)}
           k == CHOOSE h \in hits : \A j \in hits : h <= j
<1>1. EvaluateConditions(wf[n], v) =
        IF hits = {} \/ (c[k].guarded /\ v \in c[k].fails) THEN NoGoto
        ELSE IF c[k].guarded THEN c[k].goto ELSE c[k].otherwise
  BY Zenon DEF EvaluateConditions
<1>2. hits \in SUBSET Nat
  BY PayloadAssumption
<1>3. hits # {} => k \in hits
  <2> HIDE DEF hits
  <2> QED BY <1>2, LeastBranch, Zenon
<1>4. hits # {} => k \in DOMAIN c /\ Stops(c[k], v) /\ ValidCondition(wf, c[k])
  <2> HIDE DEF k
  <2> QED BY <1>3 DEF ValidateDefinition, ValidStep
<1> QED
  <2> HIDE DEF k, hits
  <2> QED BY <1>1, <1>4 DEF ValidCondition, Stops

\* Staleness does no harm: what was good over smaller tables is good still.
LEMMA CoherentGrows ==
    ASSUME NEW D, NEW E, NEW row, SameDefs(D, E), Coherent(D, row)
    PROVE  Coherent(E, row)
BY DEF SameDefs, Coherent

LEMMA IssuedGrows ==
    ASSUME NEW D, NEW E, NEW I, NEW J, NEW task,
           SameDefs(D, E), SameInstances(I, J), Issued(D, I, task),
           I[task.inst].def \in DOMAIN D
    PROVE  Issued(E, J, task)
BY DEF SameDefs, SameInstances, Issued

LEMMA LocalGrows ==
    ASSUME NEW D, NEW E, NEW I, NEW J, NEW T, NEW U, NEW l,
           SameDefs(D, E), SameInstances(I, J), SameTasks(T, U),
           \A i \in DOMAIN I : I[i].def \in DOMAIN D,
           LocalOK(D, I, T, l)
    PROVE  LocalOK(E, J, U, l)
<1>1. Copy(D, I, l) => Copy(E, J, l)
  BY CoherentGrows DEF Copy, SameInstances
<1>2. l.row.def \in DOMAIN D /\ Resolves(D, l) => Resolves(E, l)
  BY DEF Resolves, SameDefs
<1>3. Copy(D, I, l) => l.row.def \in DOMAIN D
  BY DEF Copy, Coherent
<1>4. CASE l.pc = "create"
  BY <1>4, CoherentGrows DEF LocalOK
<1>5. CASE l.pc = "advance"
  BY <1>1, <1>2, <1>3, <1>5 DEF LocalOK
<1>6. CASE l.pc = "assign"
  BY <1>1, <1>3, <1>6 DEF LocalOK, SameDefs
<1>7. CASE l.pc = "saveTask"
  BY <1>7 DEF LocalOK, SameTasks, SameQuestion
<1>8. CASE l.pc = "loadInstance"
  <2>1. l.task \in TaskRow /\ Issued(D, I, l.task) /\ l.task.status # "pending"
    BY <1>8 DEF LocalOK
  <2>2. I[l.task.inst].def \in DOMAIN D
    BY <2>1 DEF Issued
  <2>3. Issued(E, J, l.task)
    BY <2>1, <2>2, IssuedGrows
  <2> QED
    BY <1>8, <2>1, <2>3 DEF LocalOK
<1>9. CASE l.pc = "saveCancel"
  BY <1>1, <1>9 DEF LocalOK
<1>10. CASE /\ l.pc # "create" /\ l.pc # "advance" /\ l.pc # "assign"
            /\ l.pc # "saveTask" /\ l.pc # "loadInstance"
            /\ l.pc # "saveCancel"
  BY <1>10 DEF LocalOK
<1> QED
  BY <1>4, <1>5, <1>6, <1>7, <1>8, <1>9, <1>10

\* Rows are added at the end of a table, or written over.
LEMMA AppendRow ==
    ASSUME NEW S, NEW T \in Seq(S), NEW e \in S
    PROVE  /\ Append(T, e) \in Seq(S)
           /\ DOMAIN Append(T, e) = DOMAIN T \cup {Len(T) + 1}
           /\ \A k \in DOMAIN T : Append(T, e)[k] = T[k]
           /\ Append(T, e)[Len(T) + 1] = e
           /\ Len(T) + 1 \notin DOMAIN T
OBVIOUS

LEMMA WriteRow ==
    ASSUME NEW S, NEW T \in Seq(S), NEW k \in DOMAIN T, NEW e \in S
    PROVE  /\ [T EXCEPT ![k] = e] \in Seq(S)
           /\ DOMAIN [T EXCEPT ![k] = e] = DOMAIN T
           /\ \A j \in DOMAIN T : j # k => [T EXCEPT ![k] = e][j] = T[j]
           /\ [T EXCEPT ![k] = e][k] = e
OBVIOUS

LEMMA StepNames ==
    ASSUME NEW wf \in Payloads, NEW n \in DOMAIN wf
    PROVE  n \in Names /\ wf[n].next \in Names
BY DEF Names

LEMMA IdleLocal == Idle \in Local
<1>1. NoRow \in InstanceRow \cup {NoRow} /\ NoRow \in TaskRow \cup {NoRow}
  OBVIOUS
<1>2. NoGoto \in Names /\ "idle" \in Labels
  BY DEF Names, Labels
<1> QED
  BY <1>1, <1>2 DEF Idle, Local

LEMMA InstanceLocal ==
    ASSUME NEW label \in Labels, NEW id \in Nat, NEW row \in InstanceRow,
           NEW goto \in Names
    PROVE  LET l == OnInstance(label, id, row, goto)
           IN  /\ l \in Local
               /\ l.pc = label
               /\ l.id = id
               /\ l.row = row
               /\ l.goto = goto
<1>1. NoRow \in TaskRow \cup {NoRow} /\ row \in InstanceRow \cup {NoRow}
  OBVIOUS
<1> QED
  BY <1>1 DEF OnInstance, Local

LEMMA TaskLocal ==
    ASSUME NEW label \in Labels, NEW tid \in Nat, NEW task \in TaskRow
    PROVE  LET l == OnTask(label, tid, task)
           IN  /\ l \in Local
               /\ l.pc = label
               /\ l.tid = tid
               /\ l.task = task
<1>1. /\ NoRow \in InstanceRow \cup {NoRow}
      /\ task \in TaskRow \cup {NoRow}
      /\ NoGoto \in Names
  BY DEF Names
<1> QED
  BY <1>1 DEF OnTask, Local

LEMMA IdleOK ==
    ASSUME NEW D, NEW I, NEW T
    PROVE  LocalOK(D, I, T, Idle)
BY DEF Idle, LocalOK

LEMMA BecomesLocal ==
    ASSUME proc \in [Procs -> Local], NEW p \in Procs, NEW l \in Local,
           Becomes(p, l)
    PROVE  /\ proc' \in [Procs -> Local]
           /\ proc'[p] = l
           /\ \A q \in Procs : q # p => proc'[q] = proc[q]
BY DEF Becomes

-----------------------------------------------------------------------------
(***************************************************************************)
(* Every step adds or changes at most one row and one local copy, all of   *)
(* them good: then it preserves the invariant.                             *)
(***************************************************************************)
Careful ==
    /\ TypeOK'
    /\ DefsValid'
    /\ SameDefs(defs, defs')
    /\ SameInstances(instances, instances')
    /\ SameTasks(tasks, tasks')
    /\ \A i \in DOMAIN instances' :
          \/ i \in DOMAIN instances /\ instances'[i] = instances[i]
          \/ Coherent(defs', instances'[i])
    /\ \A t \in DOMAIN tasks' :
          \/ t \in DOMAIN tasks /\ tasks'[t] = tasks[t]
          \/ Issued(defs', instances', tasks'[t])
    /\ \A q \in Procs :
          \/ proc'[q] = proc[q]
          \/ LocalOK(defs', instances', tasks', proc'[q])

LEMMA CarefulPreserves ==
    ASSUME IInv, Careful
    PROVE  IInv'
<1>1. \A i \in DOMAIN instances : instances[i].def \in DOMAIN defs
  BY DEF IInv, RowsCoherent, Coherent
<1>2. RowsCoherent'
  <2> SUFFICES ASSUME NEW i \in DOMAIN instances'
               PROVE  Coherent(defs', instances'[i])
    BY DEF RowsCoherent
  <2>1. CASE i \in DOMAIN instances /\ instances'[i] = instances[i]
    <3>1. Coherent(defs, instances[i])
      BY <2>1 DEF IInv, RowsCoherent
    <3> QED
      BY <2>1, <3>1, CoherentGrows DEF Careful
  <2> QED
    BY <2>1 DEF Careful
<1>3. TasksIssued'
  <2> SUFFICES ASSUME NEW t \in DOMAIN tasks'
               PROVE  Issued(defs', instances', tasks'[t])
    BY DEF TasksIssued
  <2>1. CASE t \in DOMAIN tasks /\ tasks'[t] = tasks[t]
    <3>1. Issued(defs, instances, tasks[t])
      BY <2>1 DEF IInv, TasksIssued
    <3>2. instances[tasks[t].inst].def \in DOMAIN defs
      BY <1>1, <3>1 DEF Issued
    <3> QED
      BY <2>1, <3>1, <3>2, IssuedGrows DEF Careful
  <2> QED
    BY <2>1 DEF Careful
<1>4. LocalsOK'
  <2> SUFFICES ASSUME NEW q \in Procs
               PROVE  LocalOK(defs', instances', tasks', proc'[q])
    BY DEF LocalsOK
  <2>1. CASE proc'[q] = proc[q]
    <3>1. LocalOK(defs, instances, tasks, proc[q])
      BY DEF IInv, LocalsOK
    <3> QED
      BY <1>1, <2>1, <3>1, LocalGrows DEF Careful
  <2> QED
    BY <2>1 DEF Careful
<1> QED
  BY <1>2, <1>3, <1>4 DEF Careful, IInv

\* A row whose instance is resolved: two columns change.
LEMMA ClosedRow ==
    ASSUME NEW row \in InstanceRow, NEW status \in Statuses
    PROVE  /\ Closed(row, status) \in InstanceRow
           /\ Closed(row, status).def = row.def
           /\ Closed(row, status).org = row.org
           /\ Closed(row, status).step = row.step
           /\ Closed(row, status).status = status
           /\ Closed(row, status).completed = TRUE
<1> DEFINE mid == [org |-> row.org, def |-> row.def, status |-> status,
                   step |-> row.step, vars |-> row.vars,
                   createdBy |-> row.createdBy, completed |-> row.completed]
           new == [org |-> row.org, def |-> row.def, status |-> status,
                   step |-> row.step, vars |-> row.vars,
                   createdBy |-> row.createdBy, completed |-> TRUE]
<1>1. [row EXCEPT !.status = status] = mid
  BY DEF InstanceRow
<1>2. [mid EXCEPT !.completed = TRUE] = new
  <2>1. mid \in InstanceRow
    BY DEF InstanceRow
  <2>2. ASSUME NEW r \in InstanceRow, NEW b
        PROVE  [r EXCEPT !.completed = b] =
                  [org |-> r.org, def |-> r.def, status |-> r.status,
                   step |-> r.step, vars |-> r.vars,
                   createdBy |-> r.createdBy, completed |-> b]
    BY DEF InstanceRow
  <2>3. [mid EXCEPT !.completed = TRUE] =
           [org |-> mid.org, def |-> mid.def, status |-> mid.status,
            step |-> mid.step, vars |-> mid.vars,
            createdBy |-> mid.createdBy, completed |-> TRUE]
    <3> HIDE DEF mid
    <3> QED BY <2>1, <2>2, Zenon
  <2> QED
    BY <2>3
<1>3. Closed(row, status) = new
  <2> HIDE DEF mid, new
  <2> QED BY <1>1, <1>2, Zenon DEF Closed
<1>4. new \in InstanceRow
  BY DEF InstanceRow
<1> QED
  <2>1. /\ new.def = row.def
        /\ new.org = row.org
        /\ new.step = row.step
        /\ new.status = status
        /\ new.completed = TRUE
    OBVIOUS
  <2> HIDE DEF new
  <2> QED BY <1>3, <1>4, <2>1, Zenon

\* The tables a step leaves alone.
LEMMA SameTables ==
    /\ defs' = defs => SameDefs(defs, defs')
    /\ instances' = instances => SameInstances(instances, instances')
    /\ tasks' = tasks => SameTasks(tasks, tasks')
BY DEF SameDefs, SameInstances, SameTasks, SameQuestion

LEMMA InitIInv == Init => IInv
<1> SUFFICES ASSUME Init PROVE IInv
  OBVIOUS
<1>1. TypeOK
  BY IdleLocal DEF Init, TypeOK
<1>2. DefsValid /\ RowsCoherent /\ TasksIssued
  BY DEF Init, DefsValid, RowsCoherent, TasksIssued
<1>3. LocalsOK
  BY IdleOK DEF Init, LocalsOK
<1> QED
  BY <1>1, <1>2, <1>3 DEF IInv

\* A step of p that only changes what p holds.
LEMMA LocalStep ==
    ASSUME IInv, NEW p \in Procs, NEW l \in Local, Becomes(p, l),
           UNCHANGED <<defs, instances, tasks>>,
           LocalOK(defs, instances, tasks, l)
    PROVE  Careful
<1>1. /\ proc' \in [Procs -> Local]
      /\ proc'[p] = l
      /\ \A q \in Procs : q # p => proc'[q] = proc[q]
  BY BecomesLocal DEF IInv, TypeOK
<1>2. TypeOK' /\ DefsValid'
  BY <1>1 DEF IInv, TypeOK, DefsValid
<1> QED
  BY <1>1, <1>2, SameTables DEF Careful

LEMMA ReturnStep ==
    ASSUME IInv, NEW p \in Procs, Return(p),
           UNCHANGED <<defs, instances, tasks>>
    PROVE  Careful
BY IdleLocal, IdleOK, LocalStep DEF Return

-----------------------------------------------------------------------------
(***************************************************************************)
(* One lemma per operation: definitions, starting an instance.             *)
(***************************************************************************)
\* What is known of p, its copies and their definition, at each label.
LEMMA Known ==
    ASSUME IInv, NEW p \in Procs
    PROVE  /\ proc[p] \in Local
           /\ LocalOK(defs, instances, tasks, proc[p])
           /\ \A d \in DOMAIN defs : /\ d \in Nat
                                    /\ defs[d] \in DefRow
                                    /\ defs[d].wf \in Payloads
                                    /\ defs[d].org \in Orgs
                                    /\ ValidateDefinition(defs[d].wf)
           /\ \A i \in DOMAIN instances : instances[i] \in InstanceRow
           /\ \A t \in DOMAIN tasks : tasks[t] \in TaskRow
<1>1. proc[p] \in Local /\ LocalOK(defs, instances, tasks, proc[p])
  BY DEF IInv, TypeOK, LocalsOK
<1>2. \A d \in DOMAIN defs : d \in Nat /\ defs[d] \in DefRow
  BY DEF IInv, TypeOK
<1>3. \A d \in DefRow : d.wf \in Payloads /\ d.org \in Orgs
  BY DEF DefRow
<1>4. \A d \in DOMAIN defs : ValidateDefinition(defs[d].wf)
  BY DEF IInv, DefsValid
<1>5. \A i \in DOMAIN instances : instances[i] \in InstanceRow
  BY DEF IInv, TypeOK
<1>6. \A t \in DOMAIN tasks : tasks[t] \in TaskRow
  BY DEF IInv, TypeOK
<1> QED
  BY <1>1, <1>2, <1>3, <1>4, <1>5, <1>6

LEMMA DefineStep ==
    ASSUME IInv, NEW u \in Users, NEW wf \in Payloads, Define(u, wf)
    PROVE  Careful
<1> DEFINE row == [org |-> OrgOf[u], wf |-> wf, status |-> "active"]
<1>1. row \in DefRow /\ row.wf = wf /\ row.org = OrgOf[u]
  BY OrgAssumption DEF DefRow
<1>2. defs' = Append(defs, row) /\ defs \in Seq(DefRow) /\ ValidateDefinition(wf)
  BY DEF Define, IInv, TypeOK
<1> HIDE DEF row
<1>3. /\ defs' \in Seq(DefRow)
      /\ DOMAIN defs' = DOMAIN defs \cup {Len(defs) + 1}
      /\ \A d \in DOMAIN defs : defs'[d] = defs[d]
      /\ defs'[Len(defs) + 1] = row
  BY <1>1, <1>2, AppendRow
<1>4. UNCHANGED <<instances, tasks, proc>>
  BY DEF Define
<1>5. TypeOK'
  BY <1>3, <1>4 DEF IInv, TypeOK
<1>6. DefsValid'
  BY <1>1, <1>2, <1>3 DEF IInv, DefsValid
<1>7. SameDefs(defs, defs')
  BY <1>3 DEF SameDefs
<1> QED
  BY <1>4, <1>5, <1>6, <1>7, SameTables DEF Careful

LEMMA ArchiveStep ==
    ASSUME IInv, NEW u \in Users, NEW d \in DOMAIN defs, Archive(u, d)
    PROVE  Careful
<1> DEFINE row == [defs[d] EXCEPT !.status = "archived"]
<1>1. defs \in Seq(DefRow) /\ defs[d] \in DefRow
  BY DEF IInv, TypeOK
<1>2. row \in DefRow /\ row.wf = defs[d].wf /\ row.org = defs[d].org
  BY <1>1 DEF DefRow
<1>3. defs' = [defs EXCEPT ![d] = row]
  BY DEF Archive
<1> HIDE DEF row
<1>4. /\ defs' \in Seq(DefRow)
      /\ DOMAIN defs' = DOMAIN defs
      /\ \A j \in DOMAIN defs : j # d => defs'[j] = defs[j]
      /\ defs'[d] = row
  BY <1>1, <1>2, <1>3, WriteRow
<1>5. UNCHANGED <<instances, tasks, proc>>
  BY DEF Archive
<1>6. TypeOK'
  BY <1>4, <1>5 DEF IInv, TypeOK
<1>7. DefsValid'
  BY <1>2, <1>4 DEF IInv, DefsValid
<1>8. SameDefs(defs, defs')
  BY <1>2, <1>4 DEF SameDefs
<1> QED
  BY <1>5, <1>6, <1>7, <1>8, SameTables DEF Careful

LEMMA StartLoadStep ==
    ASSUME IInv, NEW p \in Procs, NEW u \in Users, NEW d \in DOMAIN defs,
           NEW v \in Vars, StartLoad(p, u, d, v)
    PROVE  Careful
<1> DEFINE wf == defs[d].wf
           row == [org |-> OrgOf[u], def |-> d, status |-> "running",
                   step |-> "start", vars |-> v, createdBy |-> u,
                   completed |-> FALSE]
           l == OnInstance("create", 0, row, wf["start"].next)
<1>1. /\ defs[d].org = OrgOf[u]
      /\ "start" \in DOMAIN wf
      /\ Becomes(p, l)
      /\ UNCHANGED <<defs, instances, tasks>>
  BY DEF StartLoad, StartStep
<1>2. defs[d] \in DefRow /\ wf \in Payloads /\ d \in Nat
  BY Known
<1>3. "start" \in Names /\ wf["start"].next \in Names
  BY <1>1, <1>2, StepNames
<1>4. row \in InstanceRow
  BY <1>2, <1>3, OrgAssumption DEF InstanceRow, Statuses
<1>5. Coherent(defs, row) /\ row.status = "running" /\ row.step = "start"
  BY <1>1 DEF Coherent
<1> HIDE DEF row
<1>6. l \in Local /\ l.pc = "create" /\ l.row = row
  BY <1>3, <1>4, InstanceLocal DEF Labels
<1> HIDE DEF l
<1>7. LocalOK(defs, instances, tasks, l)
  BY <1>4, <1>5, <1>6 DEF LocalOK
<1> QED
  BY <1>1, <1>6, <1>7, LocalStep

LEMMA StartCreateStep ==
    ASSUME IInv, NEW p \in Procs, StartCreate(p)
    PROVE  Careful
<1> DEFINE row == proc[p].row
           i == Len(instances) + 1
           l == OnInstance("advance", i, row, proc[p].goto)
<1>1. proc[p] \in Local /\ LocalOK(defs, instances, tasks, proc[p])
  BY Known
<1>2. /\ proc[p].pc = "create"
      /\ instances' = Append(instances, row)
      /\ Becomes(p, l)
      /\ UNCHANGED <<defs, tasks>>
  BY DEF StartCreate, At
<1>3. /\ row \in InstanceRow
      /\ Coherent(defs, row)
      /\ row.status = "running"
      /\ row.step = "start"
  BY <1>1, <1>2 DEF LocalOK
<1>4. instances \in Seq(InstanceRow) /\ i \in Nat
  BY DEF IInv, TypeOK
<1>5. /\ l \in Local
      /\ l.pc = "advance"
      /\ l.id = i
      /\ l.row = row
  BY <1>1, <1>3, <1>4, InstanceLocal DEF Local, Labels
<1> HIDE DEF row, l
<1>6. /\ instances' \in Seq(InstanceRow)
      /\ DOMAIN instances' = DOMAIN instances \cup {i}
      /\ \A j \in DOMAIN instances : instances'[j] = instances[j]
      /\ instances'[i] = row
  BY <1>2, <1>3, <1>4, AppendRow
<1> HIDE DEF i
<1>7. /\ proc' \in [Procs -> Local]
      /\ proc'[p] = l
      /\ \A q \in Procs : q # p => proc'[q] = proc[q]
  BY <1>2, <1>5, BecomesLocal DEF IInv, TypeOK
<1>8. Copy(defs, instances', l)
  BY <1>3, <1>5, <1>6 DEF Copy
<1>9. LocalOK(defs', instances', tasks', l)
  BY <1>2, <1>3, <1>5, <1>8 DEF LocalOK, Resolves
<1>10. TypeOK' /\ DefsValid'
  BY <1>2, <1>6, <1>7 DEF IInv, TypeOK, DefsValid
<1>11. SameInstances(instances, instances')
  BY <1>6 DEF SameInstances
<1>12. \A j \in DOMAIN instances' :
          \/ j \in DOMAIN instances /\ instances'[j] = instances[j]
          \/ Coherent(defs', instances'[j])
  BY <1>2, <1>3, <1>6
<1> QED
  BY <1>2, <1>7, <1>9, <1>10, <1>11, <1>12, SameTables DEF Careful

-----------------------------------------------------------------------------
(***************************************************************************)
(* One lemma per operation: advance and CancelInstance, which write back   *)
(* the whole row.                                                          *)
(***************************************************************************)
LEMMA SaveStep ==
    ASSUME IInv, NEW p \in Procs, Copy(defs, instances, proc[p]),
           NEW row \in InstanceRow, Save(p, row), Coherent(defs, row),
           row.def = proc[p].row.def, row.org = proc[p].row.org,
           NEW l \in Local, Becomes(p, l),
           LocalOK(defs, instances', tasks, l),
           UNCHANGED <<defs, tasks>>
    PROVE  Careful
<1> DEFINE i == proc[p].id
<1>1. i \in DOMAIN instances /\ row.def = instances[i].def
                             /\ row.org = instances[i].org
  BY DEF Copy
<1>2. instances \in Seq(InstanceRow) /\ instances' = [instances EXCEPT ![i] = row]
  BY DEF Save, IInv, TypeOK
<1> HIDE DEF i
<1>3. /\ instances' \in Seq(InstanceRow)
      /\ DOMAIN instances' = DOMAIN instances
      /\ \A j \in DOMAIN instances : j # i => instances'[j] = instances[j]
      /\ instances'[i] = row
  BY <1>1, <1>2, WriteRow
<1>4. /\ proc' \in [Procs -> Local]
      /\ proc'[p] = l
      /\ \A q \in Procs : q # p => proc'[q] = proc[q]
  BY BecomesLocal DEF IInv, TypeOK
<1>5. TypeOK' /\ DefsValid'
  BY <1>3, <1>4 DEF IInv, TypeOK, DefsValid
<1>6. SameInstances(instances, instances')
  BY <1>1, <1>3 DEF SameInstances
<1>7. \A j \in DOMAIN instances' :
         \/ j \in DOMAIN instances /\ instances'[j] = instances[j]
         \/ Coherent(defs', instances'[j])
  BY <1>3
<1> QED
  BY <1>4, <1>5, <1>6, <1>7, SameTables DEF Careful

\* What a write does not disturb: the copy of a goroutine stays the copy of
\* the row it wrote.
LEMMA CopyAfterSave ==
    ASSUME NEW D, NEW I, NEW J, NEW l, NEW m, Copy(D, I, l), m.id = l.id,
           m.row \in InstanceRow, Coherent(D, m.row),
           m.row.def = l.row.def, m.row.org = l.row.org,
           J = [I EXCEPT ![l.id] = m.row]
    PROVE  Copy(D, J, m)
BY DEF Copy

\* The row of a goroutine that is about to advance, once it has entered its
\* next step.
LEMMA EnteredRow ==
    ASSUME IInv, NEW p \in Procs, At(p, "advance"),
           proc[p].goto \in DOMAIN WfOf(proc[p].row)
    PROVE  /\ Copy(defs, instances, proc[p])
           /\ proc[p].id \in Nat
           /\ WfOf(proc[p].row) \in Payloads
           /\ ValidateDefinition(WfOf(proc[p].row))
           /\ Entered(p) \in InstanceRow
           /\ Entered(p).def = proc[p].row.def
           /\ Entered(p).org = proc[p].row.org
           /\ Entered(p).step = proc[p].goto
           /\ Entered(p).status = "running"
           /\ Entered(p).completed = FALSE
<1> DEFINE row == proc[p].row
<1>1. proc[p] \in Local /\ LocalOK(defs, instances, tasks, proc[p])
  BY Known
<1>2. Copy(defs, instances, proc[p]) /\ row.status = "running"
  BY <1>1 DEF LocalOK, At
<1>3. /\ row \in InstanceRow
      /\ Coherent(defs, row)
      /\ row.def \in DOMAIN defs
      /\ row.completed = FALSE
  <2>1. row \in InstanceRow /\ Coherent(defs, row)
    BY <1>2 DEF Copy
  <2>2. row.completed \in BOOLEAN
    BY <2>1 DEF InstanceRow
  <2> QED
    BY <1>2, <2>1, <2>2 DEF Coherent
<1>4. proc[p].goto \in Names /\ proc[p].id \in Nat
  BY <1>1 DEF Local
<1>5. WfOf(row) \in Payloads /\ ValidateDefinition(WfOf(row))
  BY <1>3, Known DEF WfOf
<1>6. Entered(p) = [org |-> row.org, def |-> row.def, status |-> row.status,
                    step |-> proc[p].goto, vars |-> row.vars,
                    createdBy |-> row.createdBy, completed |-> row.completed]
  BY <1>3 DEF Entered, InstanceRow
<1>7. Entered(p) \in InstanceRow
  BY <1>3, <1>4, <1>6 DEF InstanceRow
<1> QED
  BY <1>2, <1>3, <1>4, <1>5, <1>6, <1>7

\* A running row on a step that is not an end.
LEMMA EnteredCoherent ==
    ASSUME IInv, NEW p \in Procs, At(p, "advance"),
           proc[p].goto \in DOMAIN WfOf(proc[p].row),
           Target(p).type # "end"
    PROVE  Coherent(defs, Entered(p))
<1>1. /\ Copy(defs, instances, proc[p])
      /\ Entered(p).def = proc[p].row.def
      /\ Entered(p).org = proc[p].row.org
      /\ Entered(p).step = proc[p].goto
      /\ Entered(p).status = "running"
      /\ Entered(p).completed = FALSE
  BY EnteredRow
<1>2. Coherent(defs, proc[p].row)
  BY <1>1 DEF Copy
<1> QED
  BY <1>1, <1>2 DEF Coherent, Target, WfOf

\* Going on to a step that resolves, from a step that is not an end.
LEMMA GoOn ==
    ASSUME IInv, NEW p \in Procs, At(p, "advance"),
           proc[p].goto \in DOMAIN WfOf(proc[p].row),
           Target(p).type # "end",
           Save(p, Entered(p)), UNCHANGED <<defs, tasks>>,
           NEW goto \in Names,
           goto \in DOMAIN WfOf(proc[p].row) \cup {NoGoto},
           Becomes(p, OnInstance("advance", proc[p].id, Entered(p), goto))
    PROVE  Careful
<1> DEFINE l == OnInstance("advance", proc[p].id, Entered(p), goto)
<1>1. /\ Copy(defs, instances, proc[p])
      /\ proc[p].id \in Nat
      /\ Entered(p) \in InstanceRow
      /\ Entered(p).def = proc[p].row.def
      /\ Entered(p).org = proc[p].row.org
      /\ Entered(p).status = "running"
  BY EnteredRow
<1>2. Coherent(defs, Entered(p))
  BY EnteredCoherent
<1>3. "advance" \in Labels
  BY DEF Labels
<1>4. /\ l \in Local
      /\ l.pc = "advance"
      /\ l.id = proc[p].id
      /\ l.row = Entered(p)
      /\ l.goto = goto
  BY <1>1, <1>3, InstanceLocal
<1>5. Becomes(p, l)
  OBVIOUS
<1> HIDE DEF l
<1>6. Copy(defs, instances', l)
  BY <1>1, <1>2, <1>4, CopyAfterSave DEF Save
<1>7. Resolves(defs, l)
  BY <1>1, <1>4 DEF Resolves, WfOf
<1>8. LocalOK(defs, instances', tasks, l)
  BY <1>1, <1>4, <1>6, <1>7 DEF LocalOK
<1> QED
  BY <1>1, <1>2, <1>4, <1>5, <1>8, SaveStep

LEMMA AdvanceStartStep ==
    ASSUME IInv, NEW p \in Procs, AdvanceStart(p)
    PROVE  Careful
<1>1. /\ At(p, "advance")
      /\ proc[p].goto \in DOMAIN WfOf(proc[p].row)
      /\ Target(p).type = "start"
      /\ Save(p, Entered(p))
      /\ Becomes(p, OnInstance("advance", proc[p].id, Entered(p), Target(p).next))
      /\ UNCHANGED <<defs, tasks>>
  BY DEF AdvanceStart, Reaches
<1>2. WfOf(proc[p].row) \in Payloads /\ ValidateDefinition(WfOf(proc[p].row))
  BY <1>1, EnteredRow
<1>3. Target(p).next \in DOMAIN WfOf(proc[p].row)
  BY <1>1, <1>2 DEF Target, ValidateDefinition, ValidStep
<1>4. Target(p).next \in Names
  BY <1>2, <1>3, StepNames
<1>5. Target(p).type # "end"
  BY <1>1
<1> QED
  BY <1>1, <1>3, <1>4, <1>5, GoOn

LEMMA AdvanceConditionStep ==
    ASSUME IInv, NEW p \in Procs, AdvanceCondition(p)
    PROVE  Careful
<1> DEFINE goto == EvaluateConditions(Target(p), proc[p].row.vars)
<1>1. /\ At(p, "advance")
      /\ proc[p].goto \in DOMAIN WfOf(proc[p].row)
      /\ Target(p).type = "condition"
      /\ Save(p, Entered(p))
      /\ Becomes(p, OnInstance("advance", proc[p].id, Entered(p), goto))
      /\ UNCHANGED <<defs, tasks>>
  BY DEF AdvanceCondition, Reaches
<1>2. WfOf(proc[p].row) \in Payloads /\ ValidateDefinition(WfOf(proc[p].row))
  BY <1>1, EnteredRow
<1>3. goto \in DOMAIN WfOf(proc[p].row) \cup {NoGoto}
  BY <1>1, <1>2, ConditionRoutes DEF Target
<1>4. goto \in Names
  BY <1>2, <1>3 DEF Names
<1>5. Target(p).type # "end"
  BY <1>1
<1> HIDE DEF goto
<1> QED
  BY <1>1, <1>3, <1>4, <1>5, GoOn

LEMMA AdvanceApprovalStep ==
    ASSUME IInv, NEW p \in Procs, AdvanceApproval(p)
    PROVE  Careful
<1> DEFINE l == OnInstance("assign", proc[p].id, Entered(p), proc[p].goto)
<1>1. /\ At(p, "advance")
      /\ proc[p].goto \in DOMAIN WfOf(proc[p].row)
      /\ Target(p).type = "approval"
      /\ Save(p, Entered(p))
      /\ Becomes(p, l)
      /\ UNCHANGED <<defs, tasks>>
  BY DEF AdvanceApproval, Reaches
<1>2. /\ Copy(defs, instances, proc[p])
      /\ proc[p].id \in Nat
      /\ Entered(p) \in InstanceRow
      /\ Entered(p).def = proc[p].row.def
      /\ Entered(p).org = proc[p].row.org
  BY <1>1, EnteredRow
<1>3. Coherent(defs, Entered(p))
  BY <1>1, EnteredCoherent
<1>4. "assign" \in Labels /\ proc[p].goto \in Names
  BY Known DEF Labels, Local
<1>5. /\ l \in Local
      /\ l.pc = "assign"
      /\ l.id = proc[p].id
      /\ l.row = Entered(p)
      /\ l.goto = proc[p].goto
  BY <1>2, <1>4, InstanceLocal
<1> HIDE DEF l
<1>6. Copy(defs, instances', l)
  BY <1>1, <1>2, <1>3, <1>5, CopyAfterSave DEF Save
<1>7. LocalOK(defs, instances', tasks, l)
  BY <1>1, <1>2, <1>5, <1>6 DEF LocalOK, Target, WfOf
<1> QED
  BY <1>1, <1>2, <1>3, <1>5, <1>7, SaveStep

LEMMA AdvanceEndStep ==
    ASSUME IInv, NEW p \in Procs, AdvanceEnd(p)
    PROVE  Careful
<1> DEFINE row == Entered(p)
           result == Target(p).result
<1>1. /\ At(p, "advance")
      /\ proc[p].goto \in DOMAIN WfOf(proc[p].row)
      /\ Target(p).type = "end"
      /\ Save(p, Finished(p))
      /\ Becomes(p, Idle)
      /\ UNCHANGED <<defs, tasks>>
  BY DEF AdvanceEnd, Reaches, Return
<1>2. /\ Copy(defs, instances, proc[p])
      /\ WfOf(proc[p].row) \in Payloads
      /\ row \in InstanceRow
      /\ row.def = proc[p].row.def
      /\ row.org = proc[p].row.org
      /\ row.step = proc[p].goto
  BY <1>1, EnteredRow
<1>3. result \in Statuses \ {"running"}
  BY <1>1, <1>2, ResultAssumption DEF Target
<1>4. Finished(p) = Closed(row, result)
  BY DEF Finished
<1>5. result \in Statuses
  BY <1>3
<1> HIDE DEF result
<1>6. /\ Finished(p) \in InstanceRow
      /\ Finished(p).def = proc[p].row.def
      /\ Finished(p).org = proc[p].row.org
      /\ Finished(p).step = proc[p].goto
      /\ Finished(p).status = result
      /\ Finished(p).completed = TRUE
  <2> HIDE DEF row
  <2>1. /\ Closed(row, result) \in InstanceRow
        /\ Closed(row, result).def = row.def
        /\ Closed(row, result).org = row.org
        /\ Closed(row, result).step = row.step
        /\ Closed(row, result).status = result
        /\ Closed(row, result).completed = TRUE
    BY <1>2, <1>5, ClosedRow, Zenon
  <2> QED
    BY <1>2, <1>4, <2>1
<1>7. Coherent(defs, proc[p].row)
  BY <1>2 DEF Copy
<1>8. Coherent(defs, Finished(p))
  BY <1>1, <1>3, <1>6, <1>7 DEF Coherent, Target, WfOf, result
<1> QED
  BY <1>1, <1>2, <1>6, <1>8, IdleLocal, IdleOK, SaveStep

LEMMA CancelledRow ==
    ASSUME NEW D, NEW row \in InstanceRow, Coherent(D, row),
           row.status = "running", D[row.def].wf \in Payloads
    PROVE  /\ Cancelled(row) \in InstanceRow
           /\ Cancelled(row).def = row.def
           /\ Cancelled(row).org = row.org
           /\ Coherent(D, Cancelled(row))
<1>1. "cancelled" \in Statuses
  BY DEF Statuses
<1>2. /\ Cancelled(row) \in InstanceRow
      /\ Cancelled(row).def = row.def
      /\ Cancelled(row).org = row.org
      /\ Cancelled(row).step = row.step
      /\ Cancelled(row).status = "cancelled"
      /\ Cancelled(row).completed = TRUE
  BY <1>1, ClosedRow DEF Cancelled
<1>3. row.step \in DOMAIN D[row.def].wf
  BY DEF Coherent
<1>4. D[row.def].wf[row.step].type = "end" => row.step = "start"
  BY <1>3, ResultAssumption DEF Coherent
<1> QED
  BY <1>2, <1>4 DEF Coherent

LEMMA CancelLoadStep ==
    ASSUME IInv, NEW p \in Procs, NEW u \in Users, NEW i \in DOMAIN instances,
           CancelLoad(p, u, i)
    PROVE  Careful
<1> DEFINE row == Cancelled(instances[i])
           l == OnInstance("saveCancel", i, row, NoGoto)
<1>1. /\ instances[i].status = "running"
      /\ Becomes(p, l)
      /\ UNCHANGED <<defs, instances, tasks>>
  BY DEF CancelLoad
<1>2. instances[i] \in InstanceRow /\ i \in Nat
  BY DEF IInv, TypeOK
<1>3. Coherent(defs, instances[i])
  BY DEF IInv, RowsCoherent
<1>9. defs[instances[i].def].wf \in Payloads
  BY <1>3, Known DEF Coherent
<1>4. /\ row \in InstanceRow
      /\ row.def = instances[i].def
      /\ row.org = instances[i].org
      /\ Coherent(defs, row)
  BY <1>1, <1>2, <1>3, <1>9, CancelledRow
<1>5. "saveCancel" \in Labels /\ NoGoto \in Names
  BY DEF Labels, Names
<1> HIDE DEF row
<1>6. l \in Local /\ l.pc = "saveCancel" /\ l.id = i /\ l.row = row
  BY <1>2, <1>4, <1>5, InstanceLocal
<1> HIDE DEF l
<1>7. Copy(defs, instances, l)
  BY <1>4, <1>6 DEF Copy
<1>8. LocalOK(defs, instances, tasks, l)
  BY <1>6, <1>7 DEF LocalOK
<1> QED
  BY <1>1, <1>6, <1>8, LocalStep

LEMMA CancelSaveStep ==
    ASSUME IInv, NEW p \in Procs, CancelSave(p)
    PROVE  Careful
<1>1. /\ proc[p].pc = "saveCancel"
      /\ Save(p, proc[p].row)
      /\ Becomes(p, Idle)
      /\ UNCHANGED <<defs, tasks>>
  BY DEF CancelSave, At, Return
<1>2. Copy(defs, instances, proc[p])
  BY <1>1, Known DEF LocalOK
<1>3. proc[p].row \in InstanceRow /\ Coherent(defs, proc[p].row)
  BY <1>2 DEF Copy
<1> QED
  BY <1>1, <1>2, <1>3, IdleLocal, IdleOK, SaveStep

-----------------------------------------------------------------------------
(***************************************************************************)
(* One lemma per operation: tasks.                                         *)
(***************************************************************************)
LEMMA CreateTaskStep ==
    ASSUME IInv, NEW p \in Procs, CreateTask(p)
    PROVE  Careful
<1> DEFINE l == proc[p]
           task == [org |-> l.row.org, inst |-> l.id, step |-> l.goto,
                    assignee |-> Assignee(p).value, status |-> "pending"]
<1>1. /\ l.pc = "assign"
      /\ Assignee(p).kind = "user"
      /\ tasks' = Append(tasks, task)
      /\ Becomes(p, Idle)
      /\ UNCHANGED <<defs, instances>>
  BY DEF CreateTask, At, Return
<1>2. l \in Local /\ LocalOK(defs, instances, tasks, l)
  BY Known
<1>3. /\ Copy(defs, instances, l)
      /\ l.goto \in DOMAIN defs[l.row.def].wf
      /\ defs[l.row.def].wf[l.goto].type = "approval"
  BY <1>1, <1>2 DEF LocalOK
<1>4. /\ l.id \in DOMAIN instances
      /\ l.row \in InstanceRow
      /\ l.row.def \in DOMAIN defs
      /\ l.row.def = instances[l.id].def
      /\ l.row.org = instances[l.id].org
  BY <1>3 DEF Copy, Coherent
<1>5. defs[l.row.def].wf \in Payloads
  BY <1>4, Known
<1>6. Assignee(p).value \in Users
  BY <1>1, <1>3, <1>5, PayloadAssumption DEF Assignee, Target, WfOf
<1>7. l.row.org \in Orgs /\ l.id \in Nat /\ l.goto \in Names
  BY <1>2, <1>4 DEF Local, InstanceRow
<1>8. task \in TaskRow
  BY <1>6, <1>7 DEF TaskRow
<1>9. Issued(defs, instances, task)
  BY <1>1, <1>3, <1>4 DEF Issued, Assignee, Target, WfOf
<1>10. tasks \in Seq(TaskRow)
  BY DEF IInv, TypeOK
<1> HIDE DEF task
<1>11. /\ tasks' \in Seq(TaskRow)
       /\ DOMAIN tasks' = DOMAIN tasks \cup {Len(tasks) + 1}
       /\ \A t \in DOMAIN tasks : tasks'[t] = tasks[t]
       /\ tasks'[Len(tasks) + 1] = task
  BY <1>1, <1>8, <1>10, AppendRow
<1>12. /\ proc' \in [Procs -> Local]
       /\ proc'[p] = Idle
       /\ \A q \in Procs : q # p => proc'[q] = proc[q]
  BY <1>1, IdleLocal, BecomesLocal DEF IInv, TypeOK
<1>13. TypeOK' /\ DefsValid'
  BY <1>1, <1>11, <1>12 DEF IInv, TypeOK, DefsValid
<1>14. SameTasks(tasks, tasks')
  BY <1>11 DEF SameTasks, SameQuestion
<1>15. \A t \in DOMAIN tasks' :
          \/ t \in DOMAIN tasks /\ tasks'[t] = tasks[t]
          \/ Issued(defs', instances', tasks'[t])
  BY <1>1, <1>9, <1>11
<1> QED
  BY <1>1, <1>12, <1>13, <1>14, <1>15, IdleOK, SameTables DEF Careful

LEMMA ActLoadStep ==
    ASSUME IInv, NEW p \in Procs, NEW u \in Users, NEW t \in DOMAIN tasks,
           NEW decision \in Decisions, ActLoad(p, u, t, decision)
    PROVE  Careful
<1> DEFINE task == [tasks[t] EXCEPT !.status = decision]
           l == OnTask("saveTask", t, task)
<1>1. Becomes(p, l) /\ UNCHANGED <<defs, instances, tasks>>
  BY DEF ActLoad
<1>2. tasks[t] \in TaskRow /\ t \in Nat
  BY DEF IInv, TypeOK
<1>3. ASSUME NEW r \in TaskRow, NEW s
      PROVE  [r EXCEPT !.status = s] =
                [org |-> r.org, inst |-> r.inst, step |-> r.step,
                 assignee |-> r.assignee, status |-> s]
  BY DEF TaskRow
<1>4. task = [org |-> tasks[t].org, inst |-> tasks[t].inst,
              step |-> tasks[t].step, assignee |-> tasks[t].assignee,
              status |-> decision]
  BY <1>2, <1>3, Zenon
<1> HIDE DEF task
<1>5. /\ task \in TaskRow
      /\ SameQuestion(task, tasks[t])
      /\ task.status # "pending"
  BY <1>2, <1>4 DEF TaskRow, SameQuestion, Decisions
<1>6. "saveTask" \in Labels
  BY DEF Labels
<1>7. l \in Local /\ l.pc = "saveTask" /\ l.tid = t /\ l.task = task
  BY <1>2, <1>5, <1>6, TaskLocal
<1> HIDE DEF l
<1>8. LocalOK(defs, instances, tasks, l)
  BY <1>5, <1>7 DEF LocalOK
<1> QED
  BY <1>1, <1>7, <1>8, LocalStep

LEMMA ActSaveStep ==
    ASSUME IInv, NEW p \in Procs, ActSave(p)
    PROVE  Careful
<1> DEFINE t == proc[p].tid
           task == proc[p].task
           l == OnTask("loadInstance", t, task)
<1>1. /\ proc[p].pc = "saveTask"
      /\ tasks' = [tasks EXCEPT ![t] = task]
      /\ Becomes(p, l)
      /\ UNCHANGED <<defs, instances>>
  BY DEF ActSave, At
<1>2. proc[p] \in Local /\ LocalOK(defs, instances, tasks, proc[p])
  BY Known
<1>3. /\ t \in DOMAIN tasks
      /\ task \in TaskRow
      /\ SameQuestion(task, tasks[t])
      /\ task.status # "pending"
  BY <1>1, <1>2 DEF LocalOK
<1>4. Issued(defs, instances, tasks[t])
  BY <1>3 DEF IInv, TasksIssued
<1>5. Issued(defs, instances, task)
  BY <1>3, <1>4 DEF Issued, SameQuestion
<1>6. tasks \in Seq(TaskRow) /\ t \in Nat
  BY <1>3 DEF IInv, TypeOK
<1>7. "loadInstance" \in Labels
  BY DEF Labels
<1>8. l \in Local /\ l.pc = "loadInstance" /\ l.task = task
  BY <1>3, <1>6, <1>7, TaskLocal
<1> HIDE DEF l, t, task
<1>9. /\ tasks' \in Seq(TaskRow)
      /\ DOMAIN tasks' = DOMAIN tasks
      /\ \A j \in DOMAIN tasks : j # t => tasks'[j] = tasks[j]
      /\ tasks'[t] = task
  BY <1>1, <1>3, <1>6, WriteRow
<1>10. /\ proc' \in [Procs -> Local]
       /\ proc'[p] = l
       /\ \A q \in Procs : q # p => proc'[q] = proc[q]
  BY <1>1, <1>8, BecomesLocal DEF IInv, TypeOK
<1>11. TypeOK' /\ DefsValid'
  BY <1>1, <1>9, <1>10 DEF IInv, TypeOK, DefsValid
<1>12. SameTasks(tasks, tasks')
  BY <1>3, <1>9 DEF SameTasks, SameQuestion
<1>13. \A j \in DOMAIN tasks' :
          \/ j \in DOMAIN tasks /\ tasks'[j] = tasks[j]
          \/ Issued(defs', instances', tasks'[j])
  BY <1>1, <1>5, <1>9
<1>14. LocalOK(defs', instances', tasks', l)
  BY <1>1, <1>3, <1>5, <1>8 DEF LocalOK
<1> QED
  BY <1>1, <1>10, <1>11, <1>12, <1>13, <1>14, SameTables DEF Careful

LEMMA ActRouteStep ==
    ASSUME IInv, NEW p \in Procs, ActRoute(p)
    PROVE  Careful
<1> DEFINE i == proc[p].task.inst
           row == instances[i]
           wf == defs[row.def].wf
           goto == NextStep(p)
           l == OnInstance("advance", i, row, goto)
<1>1. /\ proc[p].pc = "loadInstance"
      /\ row.status = "running"
      /\ goto # NoGoto
      /\ Becomes(p, l)
      /\ UNCHANGED <<defs, instances, tasks>>
  BY DEF ActRoute, At, Loaded
<1>2. /\ proc[p].task \in TaskRow
      /\ Issued(defs, instances, proc[p].task)
  BY <1>1, Known DEF LocalOK
<1>3. i \in DOMAIN instances /\ i \in Nat /\ row \in InstanceRow
  <2>1. i \in DOMAIN instances
    BY <1>2, Zenon DEF Issued
  <2>2. instances \in Seq(InstanceRow)
    BY DEF IInv, TypeOK
  <2> HIDE DEF i, wf, goto, l
  <2> QED
    BY <2>1, <2>2
<1>4. Coherent(defs, row)
  BY <1>3 DEF IInv, RowsCoherent
<1>5. wf \in Payloads /\ ValidateDefinition(wf)
  BY <1>4, Known DEF Coherent
<1>6. proc[p].task.step \in DOMAIN wf
  BY <1>2 DEF Issued
<1>7. goto \in DOMAIN wf
  BY <1>1, <1>5, <1>6
     DEF NextStep, Branch, WfOf, Loaded, ValidateDefinition, ValidStep
<1>8. goto \in Names
  BY <1>5, <1>7, StepNames
<1>9. "advance" \in Labels
  BY DEF Labels
<1>10. /\ l \in Local
       /\ l.pc = "advance"
       /\ l.id = i
       /\ l.row = row
       /\ l.goto = goto
  BY <1>3, <1>8, <1>9, InstanceLocal
<1> HIDE DEF l
<1>11. Copy(defs, instances, l)
  BY <1>3, <1>4, <1>10 DEF Copy
<1>12. Resolves(defs, l)
  BY <1>7, <1>10 DEF Resolves
<1>13. LocalOK(defs, instances, tasks, l)
  BY <1>1, <1>10, <1>11, <1>12 DEF LocalOK
<1> QED
  BY <1>1, <1>10, <1>13, LocalStep

-----------------------------------------------------------------------------
LEMMA NextIsCareful ==
    ASSUME IInv, Next
    PROVE  Careful
<1>1. CASE Catalogue
  BY <1>1, DefineStep, ArchiveStep DEF Catalogue
<1>2. CASE \E p \in Procs : Request(p)
  BY <1>2, StartLoadStep, ActLoadStep, CancelLoadStep DEF Request
<1>3. CASE \E p \in Procs : Continue(p)
  <2> SUFFICES ASSUME NEW p \in Procs, Continue(p) PROVE Careful
    BY <1>3
  <2>1. CASE StartCreate(p)
    BY <2>1, StartCreateStep
  <2>2. CASE AdvanceStart(p)
    BY <2>2, AdvanceStartStep
  <2>3. CASE AdvanceCondition(p)
    BY <2>3, AdvanceConditionStep
  <2>4. CASE AdvanceApproval(p)
    BY <2>4, AdvanceApprovalStep
  <2>5. CASE AdvanceEnd(p)
    BY <2>5, AdvanceEndStep
  <2>6. CASE AdvanceError(p)
    BY <2>6, ReturnStep DEF AdvanceError
  <2>7. CASE CreateTask(p)
    BY <2>7, CreateTaskStep
  <2>8. CASE AssignError(p)
    BY <2>8, ReturnStep DEF AssignError
  <2>9. CASE ActSave(p)
    BY <2>9, ActSaveStep
  <2>10. CASE ActRoute(p)
    BY <2>10, ActRouteStep
  <2>11. CASE ActStop(p)
    BY <2>11, ReturnStep DEF ActStop
  <2>12. CASE CancelSave(p)
    BY <2>12, CancelSaveStep
  <2> QED
    BY <2>1, <2>2, <2>3, <2>4, <2>5, <2>6, <2>7, <2>8, <2>9, <2>10, <2>11,
       <2>12 DEF Continue
<1>4. CASE \E p \in Procs : Fail(p)
  BY <1>4, ReturnStep DEF Fail
<1> QED
  BY <1>1, <1>2, <1>3, <1>4 DEF Next

LEMMA NextPreservesIInv ==
    ASSUME IInv, [Next]_vars
    PROVE  IInv'
<1>1. CASE Next
  BY <1>1, NextIsCareful, CarefulPreserves
<1>2. CASE UNCHANGED vars
  BY <1>2 DEF vars, IInv, TypeOK, DefsValid, RowsCoherent, TasksIssued, LocalsOK
<1> QED
  BY <1>1, <1>2

\* The invariant holds in every reachable state, whatever the interleaving.
THEOREM InductiveInvariant == Spec => []IInv
<1> QED
  BY InitIInv, NextPreservesIInv, PTL DEF Spec

\* Rows, tasks and local copies have their types.
THEOREM TypeCorrect == Spec => []TypeOK
<1>1. IInv => TypeOK
  BY DEF IInv
<1> QED
  BY <1>1, InductiveInvariant, PTL

\* The columns of an instance row tell one story, whatever lost updates there
\* are.
THEOREM RowsAreCoherent == Spec => []RowsCoherent
<1>1. IInv => RowsCoherent
  BY DEF IInv
<1> QED
  BY <1>1, InductiveInvariant, PTL

\* Every task was issued by an approval step of its instance's definition, to
\* the user that step names.
THEOREM TasksAreIssued == Spec => []TasksIssued
<1>1. IInv => TasksIssued
  BY DEF IInv
<1> QED
  BY <1>1, InductiveInvariant, PTL

\* The validation at definition time leaves no goto for advance to trip over.
THEOREM GotosDoResolve == Spec => []GotosResolve
<1>1. IInv => GotosResolve
  BY DEF IInv, GotosResolve, LocalsOK, LocalOK, At
<1> QED
  BY <1>1, InductiveInvariant, PTL

\* A decided task is never pending again and never changes hands.
THEOREM DecisionsDoStick == Spec => DecisionsStick
<1>1. ASSUME IInv, [Next]_vars
      PROVE  [\A t \in DOMAIN tasks :
                 /\ t \in DOMAIN tasks'
                 /\ SameQuestion(tasks'[t], tasks[t])
                 /\ tasks[t].status # "pending" => tasks'[t].status # "pending"]_vars
  <2>1. CASE Next
    BY <1>1, <2>1, NextIsCareful DEF Careful, SameTasks
  <2>2. CASE UNCHANGED vars
    BY <2>2
  <2> QED
    BY <1>1, <2>1, <2>2
<1> QED
  BY <1>1, InductiveInvariant, PTL DEF Spec, DecisionsStick

-----------------------------------------------------------------------------
(***************************************************************************)
(* No instance passes an approval step without a decision                  *)
(* (HumanInTheLoop).  Until a task of an instance is decided, the only     *)
(* goroutine that can be advancing it is the one that started it, and it   *)
(* has not reached an approval step yet: neither the stored row nor the    *)
(* copy of a goroutine about to cancel it stands on one (Solo).            *)
(***************************************************************************)
Stands(D, row) == /\ D[row.def].wf[row.step].type = "approval"
                  /\ row.step # "start"

\* Undecided(i), over the task table T.
Open(T, i) == \A t \in DOMAIN T : T[t].inst = i => T[t].status = "pending"

Calm(T, l) ==
    /\ l.pc = "loadInstance" => ~Open(T, l.task.inst)
    /\ l.pc = "saveCancel" => l.row.status = "cancelled"

Below(D, I, T, l) ==
    l.pc = "advance" /\ Open(T, l.id) => ~Stands(D, I[l.id])

Apart(D, T, l, m) ==
    l.pc = "advance" /\ Open(T, l.id) /\ m.id = l.id =>
       /\ m.pc # "advance" /\ m.pc # "assign"
       /\ m.pc = "saveCancel" => ~Stands(D, m.row)

Solo ==
    /\ \A p \in Procs : /\ Calm(tasks, proc[p])
                        /\ Below(defs, instances, tasks, proc[p])
    /\ \A p, q \in Procs : q # p => Apart(defs, tasks, proc[p], proc[q])

-----------------------------------------------------------------------------
\* A decision, once recorded, stays: an instance open later was open before.
LEMMA OpenShrinks ==
    ASSUME NEW T, NEW U, SameTasks(T, U), NEW i, Open(U, i)
    PROVE  Open(T, i)
BY DEF Open, SameTasks, SameQuestion

LEMMA StandsSame ==
    ASSUME NEW D, NEW E, SameDefs(D, E), NEW row, row.def \in DOMAIN D
    PROVE  Stands(E, row) <=> Stands(D, row)
BY DEF Stands, SameDefs

LEMMA CalmGrows ==
    ASSUME NEW T, NEW U, SameTasks(T, U), NEW l, Calm(T, l)
    PROVE  Calm(U, l)
BY OpenShrinks DEF Calm

LEMMA ApartGrows ==
    ASSUME NEW D, NEW E, SameDefs(D, E), NEW T, NEW U, SameTasks(T, U),
           NEW l, NEW m, m.pc = "saveCancel" => m.row.def \in DOMAIN D,
           Apart(D, T, l, m)
    PROVE  Apart(E, U, l, m)
BY OpenShrinks, StandsSame DEF Apart

\* Where the copies of the goroutines and the rows refer to.
LEMMA Refers ==
    ASSUME IInv, NEW p \in Procs
    PROVE  /\ proc[p].pc = "saveCancel" => proc[p].row.def \in DOMAIN defs
           /\ proc[p].pc \in {"advance", "assign", "saveCancel"} =>
                 /\ proc[p].id \in DOMAIN instances
                 /\ instances[proc[p].id].def \in DOMAIN defs
<1>1. LocalOK(defs, instances, tasks, proc[p])
  BY Known
<1>2. \A i \in DOMAIN instances : instances[i].def \in DOMAIN defs
  BY DEF IInv, RowsCoherent, Coherent
<1>3. Copy(defs, instances, proc[p]) =>
         /\ proc[p].id \in DOMAIN instances
         /\ proc[p].row.def \in DOMAIN defs
  BY DEF Copy, Coherent
<1> QED
  BY <1>1, <1>2, <1>3 DEF LocalOK

\* A step of p has to be looked at from p's side and from everybody else's.
LEMMA SoloStep ==
    ASSUME IInv, Solo, Careful, NEW p \in Procs,
           \A q \in Procs : q # p => proc'[q] = proc[q],
           Calm(tasks', proc'[p]),
           Below(defs', instances', tasks', proc'[p]),
           \A q \in Procs : q # p =>
              /\ Below(defs', instances', tasks', proc[q])
              /\ Apart(defs', tasks', proc[q], proc'[p])
              /\ Apart(defs', tasks', proc'[p], proc[q])
    PROVE  Solo'
<1>1. SameDefs(defs, defs') /\ SameTasks(tasks, tasks')
  BY DEF Careful
<1>2. \A q \in Procs : q # p => Calm(tasks', proc[q])
  BY <1>1, CalmGrows DEF Solo
<1>3. \A q, r \in Procs : q # p /\ r # p /\ q # r =>
         Apart(defs', tasks', proc[q], proc[r])
  BY <1>1, Refers, ApartGrows DEF Solo
<1>4. \A q \in Procs : /\ Calm(tasks', proc'[q])
                       /\ Below(defs', instances', tasks', proc'[q])
  <2> TAKE q \in Procs
  <2>1. CASE q = p
    BY <2>1
  <2>2. CASE q # p
    BY <2>2, <1>2
  <2> QED
    BY <2>1, <2>2
<1>5. \A q, r \in Procs : r # q => Apart(defs', tasks', proc'[q], proc'[r])
  <2> SUFFICES ASSUME NEW q \in Procs, NEW r \in Procs, r # q
               PROVE  Apart(defs', tasks', proc'[q], proc'[r])
    OBVIOUS
  <2>1. CASE q = p
    BY <2>1
  <2>2. CASE r = p
    BY <2>2
  <2>3. CASE q # p /\ r # p
    BY <2>3, <1>3
  <2> QED
    BY <2>1, <2>2, <2>3
<1> QED
  BY <1>4, <1>5 DEF Solo

LEMMA BelowGrows ==
    ASSUME NEW D, NEW E, SameDefs(D, E), NEW T, NEW U, SameTasks(T, U),
           NEW I, NEW J, NEW l,
           l.pc = "advance" => I[l.id].def \in DOMAIN D /\ J[l.id] = I[l.id],
           Below(D, I, T, l)
    PROVE  Below(E, J, U, l)
BY OpenShrinks, StandsSame DEF Below

LEMMA BecomesAt ==
    ASSUME IInv, NEW p \in Procs, NEW l, Becomes(p, l)
    PROVE  /\ proc'[p] = l
           /\ \A q \in Procs : q # p => proc'[q] = proc[q]
BY DEF IInv, TypeOK, Becomes

LEMMA CatalogueSolo ==
    ASSUME IInv, Solo, Careful, Catalogue
    PROVE  Solo'
<1>1. UNCHANGED <<instances, tasks, proc>>
  BY DEF Catalogue, Define, Archive
<1>2. SameDefs(defs, defs') /\ SameTasks(tasks, tasks')
  BY DEF Careful
<1>3. \A p \in Procs : Below(defs', instances', tasks', proc[p])
  BY <1>1, <1>2, Refers, BelowGrows DEF Solo
<1>4. \A p, q \in Procs : q # p => Apart(defs', tasks', proc[p], proc[q])
  BY <1>2, Refers, ApartGrows DEF Solo
<1> QED
  BY <1>1, <1>3, <1>4 DEF Solo

\* A step after which p is not working on an instance.
LEMMA QuietStep ==
    ASSUME IInv, Solo, Careful, NEW p \in Procs, NEW l, Becomes(p, l),
           l.pc \in {"idle", "create", "saveTask"},
           instances' = instances
    PROVE  Solo'
<1>1. /\ proc'[p] = l
      /\ \A q \in Procs : q # p => proc'[q] = proc[q]
  BY BecomesAt
<1>2. SameDefs(defs, defs') /\ SameTasks(tasks, tasks')
  BY DEF Careful
<1>3. Calm(tasks', l) /\ Below(defs', instances', tasks', l)
  BY DEF Calm, Below
<1>4. \A q \in Procs : /\ Apart(defs', tasks', l, proc[q])
                       /\ Apart(defs', tasks', proc[q], l)
  BY DEF Apart
<1>5. \A q \in Procs : Below(defs', instances', tasks', proc[q])
  BY <1>2, Refers, BelowGrows DEF Solo
<1> QED
  BY <1>1, <1>3, <1>4, <1>5, SoloStep

\* The new row stands on "start", and nobody else knows its id.
LEMMA StartCreateSolo ==
    ASSUME IInv, Solo, Careful, NEW p \in Procs, StartCreate(p)
    PROVE  Solo'
<1> DEFINE i == Len(instances) + 1
           row == proc[p].row
           l == OnInstance("advance", i, row, proc[p].goto)
<1>1. /\ proc[p].pc = "create"
      /\ instances' = Append(instances, row)
      /\ Becomes(p, l)
  BY DEF StartCreate, At
<1>2. row \in InstanceRow /\ row.step = "start"
  BY <1>1, Known DEF LocalOK
<1>3. instances \in Seq(InstanceRow)
  BY DEF IInv, TypeOK
<1>4. /\ \A j \in DOMAIN instances : instances'[j] = instances[j]
      /\ instances'[i] = row
      /\ i \notin DOMAIN instances
  BY <1>1, <1>2, <1>3, AppendRow
<1>5. l.pc = "advance" /\ l.id = i
  BY DEF OnInstance
<1> HIDE DEF i, row, l
<1>6. /\ proc'[p] = l
      /\ \A q \in Procs : q # p => proc'[q] = proc[q]
  BY <1>1, BecomesAt
<1>7. Calm(tasks', l) /\ Below(defs', instances', tasks', l)
  BY <1>2, <1>4, <1>5 DEF Calm, Below, Stands
<1>8. \A q \in Procs : proc[q].pc \in {"advance", "assign", "saveCancel"} =>
                          proc[q].id # i
  BY <1>4, Refers
<1>9. \A q \in Procs : /\ Apart(defs', tasks', l, proc[q])
                       /\ Apart(defs', tasks', proc[q], l)
  BY <1>5, <1>8 DEF Apart
<1>10. SameDefs(defs, defs') /\ SameTasks(tasks, tasks')
  BY DEF Careful
<1>11. \A q \in Procs : Below(defs', instances', tasks', proc[q])
  BY <1>4, <1>10, Refers, BelowGrows DEF Solo
<1> QED
  BY <1>6, <1>7, <1>9, <1>11, SoloStep

\* p, advancing, writes the row it entered; while the instance is undecided
\* nobody else is advancing it.
LEMMA AdvanceSolo ==
    ASSUME IInv, Solo, Careful, NEW p \in Procs, proc[p].pc = "advance",
           NEW row, Save(p, row), NEW l, Becomes(p, l),
           l.pc \in {"advance", "assign", "idle"},
           l.pc = "advance" => /\ l.id = proc[p].id
                               /\ ~Stands(defs', row),
           l.pc = "assign" => l.id = proc[p].id
    PROVE  Solo'
<1> DEFINE i == proc[p].id
<1>1. SameDefs(defs, defs') /\ SameTasks(tasks, tasks')
  BY DEF Careful
<1>2. i \in DOMAIN instances
  BY Refers
<1>3. /\ instances'[i] = row
      /\ \A j \in DOMAIN instances : j # i => instances'[j] = instances[j]
  BY <1>2 DEF Save, IInv, TypeOK
<1>4. /\ proc'[p] = l
      /\ \A q \in Procs : q # p => proc'[q] = proc[q]
  BY BecomesAt
<1> HIDE DEF i
<1>5. Calm(tasks', l) /\ Below(defs', instances', tasks', l)
  BY <1>3 DEF Calm, Below, i
<1>6. ASSUME NEW q \in Procs, q # p
      PROVE  /\ Apart(defs', tasks', proc[q], proc[p])
             /\ Apart(defs', tasks', proc[p], proc[q])
  BY <1>1, <1>6, Refers, ApartGrows DEF Solo
<1>7. ASSUME NEW q \in Procs, q # p, proc[q].pc = "advance", proc[q].id = i,
             Open(tasks', i)
      PROVE  FALSE
  BY <1>6, <1>7 DEF Apart, i
<1>8. ASSUME NEW q \in Procs, q # p
      PROVE  Below(defs', instances', tasks', proc[q])
  <2>1. CASE proc[q].id = i
    BY <2>1, <1>7, <1>8 DEF Below
  <2>2. CASE proc[q].id # i
    BY <2>2, <1>1, <1>3, <1>8, Refers, BelowGrows DEF Solo
  <2> QED
    BY <2>1, <2>2
<1>9. ASSUME NEW q \in Procs, q # p
      PROVE  /\ Apart(defs', tasks', proc[q], l)
             /\ Apart(defs', tasks', l, proc[q])
  BY <1>6, <1>7, <1>9 DEF Apart, i
<1> QED
  BY <1>4, <1>5, <1>8, <1>9, SoloStep

LEMMA AdvanceActionsSolo ==
    ASSUME IInv, Solo, Careful, NEW p \in Procs,
           AdvanceStart(p) \/ AdvanceCondition(p) \/ AdvanceApproval(p)
                           \/ AdvanceEnd(p)
    PROVE  Solo'
<1> DEFINE i == proc[p].id
<1>1. /\ proc[p].pc = "advance"
      /\ At(p, "advance")
      /\ proc[p].goto \in DOMAIN WfOf(proc[p].row)
  BY DEF AdvanceStart, AdvanceCondition, AdvanceApproval, AdvanceEnd, Reaches, At
<1>2. Entered(p).def = proc[p].row.def /\ Entered(p).step = proc[p].goto
  BY <1>1, EnteredRow
<1>3. CASE AdvanceStart(p) \/ AdvanceCondition(p)
  <2>1. PICK goto : Becomes(p, OnInstance("advance", i, Entered(p), goto))
    BY <1>3 DEF AdvanceStart, AdvanceCondition
  <2>2. Save(p, Entered(p)) /\ defs' = defs
    BY <1>3 DEF AdvanceStart, AdvanceCondition
  <2>3. Target(p).type \in {"start", "condition"}
    BY <1>3 DEF AdvanceStart, AdvanceCondition, Reaches
  <2>4. ~Stands(defs', Entered(p))
    BY <1>2, <2>2, <2>3 DEF Stands, Target, WfOf
  <2> DEFINE l == OnInstance("advance", i, Entered(p), goto)
  <2>5. l.pc = "advance" /\ l.id = i
    BY DEF OnInstance
  <2> HIDE DEF l
  <2> QED
    BY <1>1, <2>1, <2>2, <2>4, <2>5, AdvanceSolo DEF l
<1>4. CASE AdvanceApproval(p)
  <2> DEFINE l == OnInstance("assign", i, Entered(p), proc[p].goto)
  <2>1. Save(p, Entered(p)) /\ Becomes(p, l)
    BY <1>4 DEF AdvanceApproval
  <2>2. l.pc = "assign" /\ l.id = i
    BY DEF OnInstance
  <2> HIDE DEF l
  <2> QED
    BY <1>1, <2>1, <2>2, AdvanceSolo
<1>5. CASE AdvanceEnd(p)
  <2>1. Save(p, Finished(p)) /\ Becomes(p, Idle)
    BY <1>5 DEF AdvanceEnd, Return
  <2>2. Idle.pc = "idle"
    BY DEF Idle
  <2> QED
    BY <1>1, <2>1, <2>2, AdvanceSolo
<1> QED
  BY <1>3, <1>4, <1>5

\* The decision is recorded before the instance is looked at.
LEMMA ActSaveSolo ==
    ASSUME IInv, Solo, Careful, NEW p \in Procs, ActSave(p)
    PROVE  Solo'
<1> DEFINE t == proc[p].tid
           task == proc[p].task
           l == OnTask("loadInstance", t, task)
<1>1. /\ proc[p].pc = "saveTask"
      /\ tasks' = [tasks EXCEPT ![t] = task]
      /\ Becomes(p, l)
      /\ UNCHANGED <<defs, instances>>
  BY DEF ActSave, At
<1>2. t \in DOMAIN tasks /\ task.status # "pending"
  BY <1>1, Known DEF LocalOK
<1>3. t \in DOMAIN tasks' /\ tasks'[t] = task
  BY <1>1, <1>2 DEF IInv, TypeOK
<1>4. ~Open(tasks', task.inst)
  BY <1>2, <1>3 DEF Open
<1>5. l.pc = "loadInstance" /\ l.task = task
  BY DEF OnTask
<1> HIDE DEF l, t, task
<1>6. /\ proc'[p] = l
      /\ \A q \in Procs : q # p => proc'[q] = proc[q]
  BY <1>1, BecomesAt
<1>7. Calm(tasks', l) /\ Below(defs', instances', tasks', l)
  BY <1>4, <1>5 DEF Calm, Below
<1>8. \A q \in Procs : /\ Apart(defs', tasks', l, proc[q])
                       /\ Apart(defs', tasks', proc[q], l)
  BY <1>5 DEF Apart
<1>9. SameDefs(defs, defs') /\ SameTasks(tasks, tasks')
  BY DEF Careful
<1>10. \A q \in Procs : Below(defs', instances', tasks', proc[q])
  BY <1>1, <1>9, Refers, BelowGrows DEF Solo
<1> QED
  BY <1>6, <1>7, <1>8, <1>10, SoloStep

\* p goes on to advance an instance that has a decided task.
LEMMA ActRouteSolo ==
    ASSUME IInv, Solo, Careful, NEW p \in Procs, ActRoute(p)
    PROVE  Solo'
<1> DEFINE i == proc[p].task.inst
           l == OnInstance("advance", i, Loaded(p), NextStep(p))
<1>1. /\ proc[p].pc = "loadInstance"
      /\ Becomes(p, l)
      /\ UNCHANGED <<defs, instances, tasks>>
  BY DEF ActRoute, At
<1>2. ~Open(tasks, i)
  BY <1>1 DEF Solo, Calm
<1>3. l.pc = "advance" /\ l.id = i
  BY DEF OnInstance
<1> HIDE DEF l, i
<1>4. /\ proc'[p] = l
      /\ \A q \in Procs : q # p => proc'[q] = proc[q]
  BY <1>1, BecomesAt
<1>5. Calm(tasks', l) /\ Below(defs', instances', tasks', l)
  BY <1>1, <1>2, <1>3 DEF Calm, Below
<1>6. \A q \in Procs : /\ Apart(defs', tasks', l, proc[q])
                       /\ Apart(defs', tasks', proc[q], l)
  BY <1>1, <1>2, <1>3 DEF Apart
<1>7. \A q \in Procs : Below(defs', instances', tasks', proc[q])
  BY <1>1 DEF Solo
<1> QED
  BY <1>4, <1>5, <1>6, <1>7, SoloStep

\* The copy a cancellation takes stands where the row stands.
LEMMA CancelLoadSolo ==
    ASSUME IInv, Solo, Careful, NEW p \in Procs, NEW u \in Users,
           NEW i \in DOMAIN instances, CancelLoad(p, u, i)
    PROVE  Solo'
<1> DEFINE row == Cancelled(instances[i])
           l == OnInstance("saveCancel", i, row, NoGoto)
<1>1. Becomes(p, l) /\ UNCHANGED <<defs, instances, tasks>>
  BY DEF CancelLoad
<1>2. instances[i] \in InstanceRow /\ "cancelled" \in Statuses
  BY Known DEF Statuses
<1>3. /\ row.status = "cancelled"
      /\ row.def = instances[i].def
      /\ row.step = instances[i].step
  BY <1>2, ClosedRow DEF Cancelled
<1> HIDE DEF row
<1>4. l.pc = "saveCancel" /\ l.id = i /\ l.row = row
  BY DEF OnInstance
<1> HIDE DEF l
<1>5. /\ proc'[p] = l
      /\ \A q \in Procs : q # p => proc'[q] = proc[q]
  BY <1>1, BecomesAt
<1>6. Calm(tasks', l) /\ Below(defs', instances', tasks', l)
  BY <1>3, <1>4 DEF Calm, Below
<1>7. \A q \in Procs : Below(defs', instances', tasks', proc[q])
  BY <1>1 DEF Solo
<1>8. ASSUME NEW q \in Procs, q # p
      PROVE  /\ Apart(defs', tasks', l, proc[q])
             /\ Apart(defs', tasks', proc[q], l)
  BY <1>1, <1>3, <1>4, <1>7 DEF Apart, Below, Stands
<1> QED
  BY <1>5, <1>6, <1>7, <1>8, SoloStep

\* A cancellation writes back a copy that stands on no approval step while
\* somebody is still starting the instance.
LEMMA CancelSaveSolo ==
    ASSUME IInv, Solo, Careful, NEW p \in Procs, CancelSave(p)
    PROVE  Solo'
<1> DEFINE i == proc[p].id
           row == proc[p].row
<1>1. /\ proc[p].pc = "saveCancel"
      /\ instances' = [instances EXCEPT ![i] = row]
      /\ Becomes(p, Idle)
      /\ UNCHANGED <<defs, tasks>>
  BY DEF CancelSave, At, Return, Save
<1>2. i \in DOMAIN instances
  BY <1>1, Refers
<1>3. /\ instances'[i] = row
      /\ \A j \in DOMAIN instances : j # i => instances'[j] = instances[j]
  BY <1>1, <1>2 DEF IInv, TypeOK
<1>4. Idle.pc = "idle"
  BY DEF Idle
<1>5. /\ proc'[p] = Idle
      /\ \A q \in Procs : q # p => proc'[q] = proc[q]
  BY <1>1, BecomesAt
<1>6. Calm(tasks', Idle) /\ Below(defs', instances', tasks', Idle)
  BY <1>4 DEF Calm, Below
<1>7. \A q \in Procs : /\ Apart(defs', tasks', Idle, proc[q])
                       /\ Apart(defs', tasks', proc[q], Idle)
  BY <1>4 DEF Apart
<1>8. ASSUME NEW q \in Procs, q # p
      PROVE  Below(defs', instances', tasks', proc[q])
  <2>1. Apart(defs, tasks, proc[q], proc[p]) /\ Below(defs, instances, tasks, proc[q])
    BY <1>8 DEF Solo
  <2>2. CASE proc[q].id = i
    BY <1>1, <1>3, <2>1, <2>2 DEF Below, Apart
  <2>3. CASE proc[q].id # i
    BY <1>1, <1>3, <2>1, <2>3, Refers DEF Below
  <2> QED
    BY <2>2, <2>3
<1> QED
  BY <1>5, <1>6, <1>7, <1>8, SoloStep

-----------------------------------------------------------------------------
LEMMA NextSolo ==
    ASSUME IInv, Solo, Next
    PROVE  Solo'
<1>1. Careful
  BY NextIsCareful
<1>2. CASE Catalogue
  BY <1>1, <1>2, CatalogueSolo
<1>3. ASSUME NEW p \in Procs, Request(p)
      PROVE  Solo'
  <2>1. PICK u \in Users :
           \/ \E d \in DOMAIN defs, v \in Vars : StartLoad(p, u, d, v)
           \/ \E t \in DOMAIN tasks, decision \in Decisions :
                 ActLoad(p, u, t, decision)
           \/ \E i \in DOMAIN instances : CancelLoad(p, u, i)
    BY <1>3 DEF Request
  <2>2. ASSUME NEW d \in DOMAIN defs, NEW v \in Vars, StartLoad(p, u, d, v)
        PROVE  Solo'
    <3>1. PICK row, goto : Becomes(p, OnInstance("create", 0, row, goto))
      BY <2>2 DEF StartLoad
    <3>2. OnInstance("create", 0, row, goto).pc = "create"
      BY DEF OnInstance
    <3>3. instances' = instances
      BY <2>2 DEF StartLoad
    <3> QED
      BY <1>1, <3>1, <3>2, <3>3, QuietStep
  <2>3. ASSUME NEW t \in DOMAIN tasks, NEW decision \in Decisions,
               ActLoad(p, u, t, decision)
        PROVE  Solo'
    <3>1. PICK task : Becomes(p, OnTask("saveTask", t, task))
      BY <2>3 DEF ActLoad
    <3>2. OnTask("saveTask", t, task).pc = "saveTask"
      BY DEF OnTask
    <3>3. instances' = instances
      BY <2>3 DEF ActLoad
    <3> QED
      BY <1>1, <3>1, <3>2, <3>3, QuietStep
  <2> QED
    BY <1>1, <2>1, <2>2, <2>3, CancelLoadSolo
<1>4. ASSUME NEW p \in Procs, Return(p), instances' = instances
      PROVE  Solo'
  <2>1. Becomes(p, Idle) /\ Idle.pc = "idle"
    BY <1>4 DEF Return, Idle
  <2> QED
    BY <1>1, <1>4, <2>1, QuietStep
<1>5. ASSUME NEW p \in Procs, Continue(p)
      PROVE  Solo'
  <2>1. CASE StartCreate(p)
    BY <1>1, <2>1, StartCreateSolo
  <2>2. CASE AdvanceStart(p) \/ AdvanceCondition(p) \/ AdvanceApproval(p)
                             \/ AdvanceEnd(p)
    BY <1>1, <2>2, AdvanceActionsSolo
  <2>3. CASE AdvanceError(p) \/ CreateTask(p) \/ AssignError(p) \/ ActStop(p)
    BY <1>4, <2>3 DEF AdvanceError, CreateTask, AssignError, ActStop
  <2>4. CASE ActSave(p)
    BY <1>1, <2>4, ActSaveSolo
  <2>5. CASE ActRoute(p)
    BY <1>1, <2>5, ActRouteSolo
  <2>6. CASE CancelSave(p)
    BY <1>1, <2>6, CancelSaveSolo
  <2> QED
    BY <1>5, <2>1, <2>2, <2>3, <2>4, <2>5, <2>6 DEF Continue
<1>6. ASSUME NEW p \in Procs, Fail(p)
      PROVE  Solo'
  BY <1>4, <1>6 DEF Fail
<1> QED
  BY <1>2, <1>3, <1>5, <1>6 DEF Next

\* Who writes an existing instance row: a goroutine advancing it or one that
\* cancels it.
LEMMA OnlyWriters ==
    ASSUME IInv, Next, NEW i \in DOMAIN instances, instances'[i] # instances[i]
    PROVE  \E p \in Procs :
              /\ proc[p].id = i
              /\ \/ proc[p].pc = "advance"
                 \/ proc[p].pc = "saveCancel" /\ instances'[i] = proc[p].row
<1>1. instances \in Seq(InstanceRow)
  BY DEF IInv, TypeOK
<1>2. ASSUME NEW p \in Procs, NEW row, Save(p, row), proc[p].pc = "advance"
      PROVE  proc[p].id = i
  BY <1>1, <1>2 DEF Save
<1>3. ASSUME NEW p \in Procs, CancelSave(p)
      PROVE  /\ proc[p].pc = "saveCancel"
             /\ proc[p].id = i
             /\ instances'[i] = proc[p].row
  BY <1>1, <1>3 DEF CancelSave, Save, At
<1>4. ASSUME NEW p \in Procs, StartCreate(p)
      PROVE  FALSE
  <2>1. proc[p].row \in InstanceRow
    BY <1>4, Known DEF StartCreate, At, LocalOK
  <2> QED
    BY <1>1, <1>4, <2>1, AppendRow DEF StartCreate
<1>5. PICK p \in Procs : Continue(p)
  <2>1. Catalogue => instances' = instances
    BY DEF Catalogue, Define, Archive
  <2>2. ASSUME NEW p \in Procs PROVE ~Request(p) /\ ~Fail(p)
    <3>1. Request(p) => instances' = instances
      BY DEF Request, StartLoad, ActLoad, CancelLoad
    <3>2. Fail(p) => instances' = instances
      BY DEF Fail
    <3> QED
      BY <3>1, <3>2
  <2> QED
    BY <2>1, <2>2 DEF Next
<1>6. CASE AdvanceStart(p) \/ AdvanceCondition(p) \/ AdvanceApproval(p)
                           \/ AdvanceEnd(p)
  BY <1>2, <1>6 DEF AdvanceStart, AdvanceCondition, AdvanceApproval, AdvanceEnd,
                    Reaches, At
<1>7. CASE CancelSave(p)
  BY <1>3, <1>7
<1> QED
  BY <1>4, <1>5, <1>6, <1>7
     DEF Continue, AdvanceError, CreateTask, AssignError, ActSave, ActRoute, ActStop

\* An instance leaves an approval step, other than by being cancelled, only
\* after somebody has decided one of its tasks.
THEOREM HumanIsInTheLoop == Spec => HumanInTheLoop
<1>1. Init => Solo
  BY DEF Init, Idle, Solo, Calm, Below, Apart
<1>2. ASSUME IInv, Solo, [Next]_vars
      PROVE  Solo'
  <2>1. CASE Next
    BY <1>2, <2>1, NextSolo
  <2>2. CASE UNCHANGED vars
    BY <1>2, <2>2 DEF vars, Solo
  <2> QED
    BY <1>2, <2>1, <2>2
<1>3. ASSUME IInv, Solo, [Next]_vars
      PROVE  [\A i \in DOMAIN instances :
                /\ WfOf(instances[i])[instances[i].step].type = "approval"
                /\ instances[i].step # "start"
                /\ Undecided(i)
                => \/ instances'[i].step = instances[i].step
                   \/ instances'[i].status = "cancelled"]_vars
  <2>1. ASSUME Next, NEW i \in DOMAIN instances,
               WfOf(instances[i])[instances[i].step].type = "approval",
               instances[i].step # "start",
               Undecided(i),
               instances'[i] # instances[i]
        PROVE  instances'[i].status = "cancelled"
    <3>1. Stands(defs, instances[i]) /\ Open(tasks, i)
      BY <2>1 DEF Stands, Open, Undecided, WfOf
    <3>2. PICK p \in Procs :
             /\ proc[p].id = i
             /\ \/ proc[p].pc = "advance"
                \/ proc[p].pc = "saveCancel" /\ instances'[i] = proc[p].row
      BY <1>3, <2>1, OnlyWriters
    <3>3. Calm(tasks, proc[p]) /\ Below(defs, instances, tasks, proc[p])
      BY <1>3 DEF Solo
    <3> QED
      BY <3>1, <3>2, <3>3 DEF Calm, Below
  <2>2. CASE Next
    BY <2>1, <2>2
  <2>3. CASE UNCHANGED vars
    BY <2>3
  <2> QED
    BY <1>3, <2>2, <2>3
<1> QED
  BY <1>1, <1>2, <1>3, InductiveInvariant, PTL DEF Spec, HumanInTheLoop

-----------------------------------------------------------------------------
(***************************************************************************)
(* One open task.  While no two requests work on one instance, and with    *)
(* definitions that leave nothing open (Complete), the one goroutine at    *)
(* work on an instance knows what is pending there (Onward), and where     *)
(* nobody is at work there is one task to decide (Waits).                  *)
(***************************************************************************)
\* Pending(i), over the task table T.
Waiting(T, i) == {t \in DOMAIN T : T[t].inst = i /\ T[t].status = "pending"}

\* The instance a goroutine with locals l is working on.
Place(l) == IF l.pc \in {"saveTask", "loadInstance"} THEN l.task.inst ELSE l.id

Onward(D, I, T, l) ==
    /\ l.pc \in {"idle", "create"} => l.id = 0
    /\ l.pc \in {"create", "advance"} => l.goto \in DOMAIN D[l.row.def].wf
    /\ l.pc \in {"advance", "assign"} => Waiting(T, l.id) = {}
    /\ l.pc = "assign" => I[l.id].step = l.goto
    /\ l.pc = "saveTask" /\ I[l.task.inst].status = "running" =>
          Waiting(T, l.task.inst) \subseteq {l.tid}
    /\ l.pc = "loadInstance" /\ I[l.task.inst].status = "running" =>
          Waiting(T, l.task.inst) = {}
    /\ l.pc = "saveCancel" => l.row.status = "cancelled"

Waits(I, T, i) ==
    I[i].status = "running" =>
       \E t \in DOMAIN T : Waiting(T, i) = {t} /\ T[t].step = I[i].step

OneInv ==
    /\ Isolated
    /\ \A p \in Procs : Onward(defs, instances, tasks, proc[p])
    /\ \A i \in DOMAIN instances : Workers(i) = {} => Waits(instances, tasks, i)

\* The goroutine that has an instance is the only one.
LEMMA PlaceOf ==
    /\ \A p \in Procs : InstanceOf(p) = Place(proc[p])
    /\ \A p \in Procs : InstanceOf(p)' = Place(proc'[p])
BY DEF InstanceOf, Place

LEMMA Elsewhere ==
    ASSUME NEW T, NEW U, NEW i,
           \A t \in DOMAIN T : T[t].inst = i => t \in DOMAIN U /\ U[t] = T[t],
           \A t \in DOMAIN U : U[t].inst = i => t \in DOMAIN T /\ U[t] = T[t]
    PROVE  /\ Waiting(U, i) = Waiting(T, i)
           /\ \A t \in Waiting(T, i) : U[t] = T[t]
BY DEF Waiting

\* Where a goroutine works there is an instance, and its definition.
LEMMA Places ==
    ASSUME IInv, NEW q \in Procs
    PROVE  /\ proc[q].pc \in Labels
           /\ proc[q].pc \in {"advance", "assign", "saveCancel"} =>
                 proc[q].id \in DOMAIN instances
           /\ proc[q].pc \in {"saveTask", "loadInstance"} =>
                 proc[q].task.inst \in DOMAIN instances
           /\ proc[q].pc \in {"create", "advance"} => proc[q].row.def \in DOMAIN defs
           /\ 0 \notin DOMAIN instances
<1>1. LocalOK(defs, instances, tasks, proc[q]) /\ proc[q] \in Local
  BY Known
<1>2. 0 \notin DOMAIN instances
  BY DEF IInv, TypeOK
<1>3. proc[q].pc \in {"advance", "assign", "saveCancel"} => Copy(defs, instances, proc[q])
  BY <1>1, Zenon DEF LocalOK
<1>4. proc[q].pc = "create" => Coherent(defs, proc[q].row)
  BY <1>1, Zenon DEF LocalOK
<1>5. proc[q].pc = "saveTask" =>
         proc[q].tid \in DOMAIN tasks /\ proc[q].task.inst = tasks[proc[q].tid].inst
  BY <1>1, Zenon DEF LocalOK, SameQuestion
<1>6. proc[q].pc = "loadInstance" => Issued(defs, instances, proc[q].task)
  BY <1>1, Zenon DEF LocalOK
<1>7. \A t \in DOMAIN tasks : tasks[t].inst \in DOMAIN instances
  BY DEF IInv, TasksIssued, Issued
<1>8. proc[q].pc \in Labels
  BY <1>1 DEF Local
<1>9. Copy(defs, instances, proc[q]) =>
         proc[q].id \in DOMAIN instances /\ Coherent(defs, proc[q].row)
  BY DEF Copy
<1>10. Coherent(defs, proc[q].row) => proc[q].row.def \in DOMAIN defs
  BY DEF Coherent
<1>11. Issued(defs, instances, proc[q].task) => proc[q].task.inst \in DOMAIN instances
  BY Zenon DEF Issued
<1> QED
  BY <1>2, <1>3, <1>4, <1>5, <1>6, <1>7, <1>8, <1>9, <1>10, <1>11

\* What others know of the instance they are working on: a step elsewhere
\* leaves it so.
LEMMA OnwardStays ==
    ASSUME IInv, NEW q \in Procs, Onward(defs, instances, tasks, proc[q]),
           NEW D, SameDefs(defs, D), NEW I, NEW T,
           Place(proc[q]) # 0 =>
              /\ I[Place(proc[q])] = instances[Place(proc[q])]
              /\ Waiting(T, Place(proc[q])) = Waiting(tasks, Place(proc[q]))
    PROVE  Onward(D, I, T, proc[q])
<1>1. proc[q].pc \in {"create", "advance"} => proc[q].goto \in DOMAIN D[proc[q].row.def].wf
  BY Places DEF Onward, SameDefs
<1>2. PICK i : i = Place(proc[q])
  OBVIOUS
<1>3. proc[q].pc \in {"advance", "assign", "saveCancel"} => i = proc[q].id /\ i # 0
  BY <1>2, Places DEF Place
<1>4. proc[q].pc \in {"saveTask", "loadInstance"} => i = proc[q].task.inst /\ i # 0
  BY <1>2, Places DEF Place
<1>5. i # 0 => I[i] = instances[i] /\ Waiting(T, i) = Waiting(tasks, i)
  BY <1>2
<1> QED
  BY <1>1, <1>3, <1>4, <1>5 DEF Onward

\* A step of p on instance j (0: on none).
LEMMA StepAt ==
    ASSUME IInv, OneInv, SameDefs(defs, defs'), Isolated', NEW p \in Procs,
           \A q \in Procs : q # p => proc'[q] = proc[q],
           NEW j, j = Place(proc[p]) \/ j = Place(proc'[p]),
           Place(proc[p]) \in {0, j}, Place(proc'[p]) \in {0, j},
           \A i \in DOMAIN instances \cup DOMAIN instances' : i # j =>
              i \in DOMAIN instances /\ instances'[i] = instances[i],
           \A t \in DOMAIN tasks : tasks[t].inst # j =>
              t \in DOMAIN tasks' /\ tasks'[t] = tasks[t],
           \A t \in DOMAIN tasks' : tasks'[t].inst # j =>
              t \in DOMAIN tasks /\ tasks'[t] = tasks[t],
           Onward(defs', instances', tasks', proc'[p]),
           Place(proc'[p]) = 0 /\ j \in DOMAIN instances' => Waits(instances', tasks', j)
    PROVE  OneInv'
<1>1. \A i : i # j => /\ Waiting(tasks', i) = Waiting(tasks, i)
                      /\ \A t \in Waiting(tasks, i) : tasks'[t] = tasks[t]
  BY Elsewhere
<1>2. ASSUME NEW q \in Procs
      PROVE  Onward(defs', instances', tasks', proc'[q])
  <2>1. CASE q = p
    BY <2>1
  <2>2. CASE q # p
    <3>1. proc'[q] = proc[q] /\ Onward(defs, instances, tasks, proc[q])
      BY <2>2 DEF OneInv
    <3>2. Place(proc[q]) # 0 => Place(proc[q]) # j
      BY <2>2, <3>1, PlaceOf DEF OneInv, Isolated
    <3>3. Place(proc[q]) # 0 => Place(proc[q]) \in DOMAIN instances
      BY <3>1, Places DEF Labels, Place, Onward
    <3>4. Place(proc[q]) # 0 =>
             /\ instances'[Place(proc[q])] = instances[Place(proc[q])]
             /\ Waiting(tasks', Place(proc[q])) = Waiting(tasks, Place(proc[q]))
      BY <1>1, <3>2, <3>3
    <3> QED
      BY <3>1, <3>4, OnwardStays
  <2> QED
    BY <2>1, <2>2
<1>3. ASSUME NEW i \in DOMAIN instances', \A q \in Procs : Place(proc'[q]) # i
      PROVE  Waits(instances', tasks', i)
  <2>1. CASE i = j
    BY <1>3, <2>1
  <2>2. CASE i # j
    <3>1. i \in DOMAIN instances /\ instances'[i] = instances[i]
      BY <2>2
    <3>2. i # 0
      BY <3>1 DEF IInv, TypeOK
    <3>3. \A q \in Procs : Place(proc[q]) # i
      BY <1>3, <2>2, <3>2
    <3>4. Workers(i) = {}
      BY <3>3, PlaceOf DEF Workers
    <3>5. Waits(instances, tasks, i)
      BY <3>1, <3>4 DEF OneInv
    <3>6. /\ Waiting(tasks', i) = Waiting(tasks, i)
          /\ \A t \in Waiting(tasks, i) : tasks'[t] = tasks[t] /\ t \in DOMAIN tasks'
      BY <1>1, <2>2 DEF Waiting
    <3> QED
      BY <3>1, <3>5, <3>6 DEF Waits
  <2> QED
    BY <2>1, <2>2
<1>4. ASSUME NEW i \in DOMAIN instances', Workers(i)' = {}
      PROVE  Waits(instances', tasks', i)
  BY <1>3, <1>4, PlaceOf DEF Workers
<1> QED
  BY <1>2, <1>4 DEF OneInv

-----------------------------------------------------------------------------
\* What p's new locals are, by their fields.
LEMMA NewLocal ==
    /\ \A label, id, row, goto :
          LET l == OnInstance(label, id, row, goto)
          IN  l.pc = label /\ l.id = id /\ l.row = row /\ l.goto = goto
    /\ \A label, tid, task :
          LET l == OnTask(label, tid, task)
          IN  l.pc = label /\ l.id = 0 /\ l.tid = tid /\ l.task = task
    /\ Idle.pc = "idle" /\ Idle.id = 0
BY DEF OnInstance, OnTask, Idle

LEMMA IdleOnward ==
    ASSUME NEW D, NEW I, NEW T
    PROVE  Onward(D, I, T, Idle) /\ Place(Idle) = 0
BY NewLocal DEF Onward, Place

\* A step of p that touches no table.
LEMMA MoveOne ==
    ASSUME IInv, OneInv, Isolated', NEW p \in Procs, NEW l, Becomes(p, l),
           UNCHANGED <<defs, instances, tasks>>,
           NEW j, j = Place(proc[p]) \/ j = Place(l),
           Place(proc[p]) \in {0, j}, Place(l) \in {0, j},
           Onward(defs, instances, tasks, l),
           Place(l) = 0 /\ j \in DOMAIN instances => Waits(instances, tasks, j)
    PROVE  OneInv'
<1>1. proc'[p] = l /\ \A q \in Procs : q # p => proc'[q] = proc[q]
  BY BecomesAt
<1>2. SameDefs(defs, defs')
  BY SameTables
<1> QED
  BY <1>1, <1>2, StepAt

\* A step of p that writes the row of its instance.
LEMMA WriteOne ==
    ASSUME IInv, OneInv, Isolated', NEW p \in Procs, NEW l, Becomes(p, l),
           NEW i \in DOMAIN instances, i = Place(proc[p]), Place(l) \in {0, i},
           NEW row, instances' = [instances EXCEPT ![i] = row],
           UNCHANGED <<defs, tasks>>,
           Onward(defs, instances', tasks, l),
           Place(l) = 0 => row.status # "running"
    PROVE  OneInv'
<1>1. proc'[p] = l /\ \A q \in Procs : q # p => proc'[q] = proc[q]
  BY BecomesAt
<1>2. SameDefs(defs, defs')
  BY SameTables
<1>3. /\ DOMAIN instances' = DOMAIN instances
      /\ instances'[i] = row
      /\ \A k \in DOMAIN instances : k # i => instances'[k] = instances[k]
  BY DEF IInv, TypeOK
<1>4. Place(proc'[p]) = 0 => Waits(instances', tasks', i)
  BY <1>1, <1>3 DEF Waits
<1>5. Place(proc[p]) \in {0, i} /\ Place(proc'[p]) \in {0, i}
  BY <1>1
<1>6. Onward(defs', instances', tasks', proc'[p])
  BY <1>1
<1> QED
  BY <1>1, <1>2, <1>3, <1>4, <1>5, <1>6, StepAt

LEMMA CatalogueOne ==
    ASSUME IInv, OneInv, Careful, Isolated', UNCHANGED <<instances, tasks, proc>>
    PROVE  OneInv'
<1>1. SameDefs(defs, defs')
  BY DEF Careful
<1>2. \A p \in Procs : Onward(defs', instances', tasks', proc'[p])
  BY <1>1, OnwardStays DEF OneInv
<1>3. ASSUME NEW i \in DOMAIN instances', Workers(i)' = {}
      PROVE  Waits(instances', tasks', i)
  <2>1. Workers(i) = {}
    BY <1>3, PlaceOf DEF Workers
  <2> QED
    BY <2>1 DEF OneInv
<1> QED
  BY <1>2, <1>3 DEF OneInv

\* An idle goroutine takes a request on instance j, on which nobody is at work.
LEMMA NobodyThere ==
    ASSUME IInv, OneInv, Isolated', NEW p \in Procs, At(p, "idle"), NEW l, Becomes(p, l),
           NEW j \in DOMAIN instances, Place(l) = j
    PROVE  Waits(instances, tasks, j) /\ Place(proc[p]) = 0
<1>1. proc'[p] = l /\ \A q \in Procs : q # p => proc'[q] = proc[q]
  BY BecomesAt
<1>2. j # 0
  BY DEF IInv, TypeOK
<1>3. Place(proc[p]) = 0
  BY DEF OneInv, Onward, Place, At
<1>4. \A q \in Procs : Place(proc[q]) # j
  BY <1>1, <1>2, <1>3, PlaceOf DEF Isolated
<1>5. Workers(j) = {}
  BY <1>4, PlaceOf DEF Workers
<1> QED
  BY <1>3, <1>5 DEF OneInv

-----------------------------------------------------------------------------
\* A start step leads to a step.
LEMMA StartLeads ==
    ASSUME NEW wf, ValidateDefinition(wf), NEW n \in DOMAIN wf, wf[n].type = "start"
    PROVE  wf[n].next \in DOMAIN wf
<1>1. ValidStep(wf, wf[n])
  BY Zenon DEF ValidateDefinition
<1> QED
  BY <1>1, Zenon DEF ValidStep

LEMMA StartLoadOne ==
    ASSUME IInv, OneInv, Isolated', \A wf \in Payloads : Complete(wf),
           NEW p \in Procs, NEW u \in Users, NEW d \in DOMAIN defs,
           NEW v \in Vars, StartLoad(p, u, d, v)
    PROVE  OneInv'
<1> DEFINE wf == defs[d].wf
           row == [org |-> OrgOf[u], def |-> d, status |-> "running",
                   step |-> "start", vars |-> v, createdBy |-> u,
                   completed |-> FALSE]
           l == OnInstance("create", 0, row, wf["start"].next)
<1>1. /\ At(p, "idle") /\ "start" \in DOMAIN wf /\ Becomes(p, l)
      /\ UNCHANGED <<defs, instances, tasks>>
  BY DEF StartLoad, StartStep
<1>2. wf["start"].next \in DOMAIN wf
  <2>1. wf \in Payloads /\ ValidateDefinition(wf) /\ "start" \in DOMAIN wf
    BY <1>1, Known
  <2> HIDE DEF wf
  <2>2. wf["start"].type = "start"
    BY <2>1, Zenon DEF Complete
  <2> QED
    BY <2>1, <2>2, StartLeads, Zenon
<1>3. row.def = d
  OBVIOUS
<1> HIDE DEF row
<1>4. l.pc = "create" /\ l.id = 0 /\ l.goto = wf["start"].next /\ l.row.def = d
  BY <1>3, NewLocal
<1> HIDE DEF l
<1>5. Onward(defs, instances, tasks, l) /\ Place(l) = 0
  BY <1>2, <1>4 DEF Onward, Place
<1>6. Place(proc[p]) = 0
  BY <1>1 DEF OneInv, Onward, Place, At
<1>7. 0 \notin DOMAIN instances
  BY Places
<1> QED
  BY <1>1, <1>5, <1>6, <1>7, MoveOne

LEMMA StartCreateOne ==
    ASSUME IInv, OneInv, Isolated', NEW p \in Procs, StartCreate(p)
    PROVE  OneInv'
<1> DEFINE i == Len(instances) + 1
           l == OnInstance("advance", i, proc[p].row, proc[p].goto)
<1>1. /\ proc[p].pc = "create" /\ instances' = Append(instances, proc[p].row)
      /\ Becomes(p, l) /\ UNCHANGED <<defs, tasks>>
  BY DEF StartCreate, At
<1>2. instances \in Seq(InstanceRow) /\ proc[p].row \in InstanceRow
  BY <1>1, Known DEF IInv, TypeOK, LocalOK
<1>3. /\ DOMAIN instances' = DOMAIN instances \cup {i}
      /\ \A k \in DOMAIN instances : instances'[k] = instances[k]
      /\ i \notin DOMAIN instances /\ i # 0
  BY <1>1, <1>2, AppendRow
<1> HIDE DEF i
<1>4. l.pc = "advance" /\ l.id = i /\ l.goto = proc[p].goto /\ l.row = proc[p].row
  BY NewLocal
<1> HIDE DEF l
<1>5. /\ proc[p].goto \in DOMAIN defs[proc[p].row.def].wf /\ Place(proc[p]) = 0
  BY <1>1 DEF OneInv, Onward, Place
<1>6. \A t \in DOMAIN tasks : tasks[t].inst # i
  <2>1. \A t \in DOMAIN tasks : Issued(defs, instances, tasks[t])
    BY DEF IInv, TasksIssued
  <2>2. \A t \in DOMAIN tasks : tasks[t].inst \in DOMAIN instances
    BY <2>1, Zenon DEF Issued
  <2> QED
    BY <1>3, <2>2
<1>7. Waiting(tasks, i) = {}
  BY <1>6 DEF Waiting
<1>8. Onward(defs, instances', tasks, l) /\ Place(l) = i
  BY <1>4, <1>5, <1>7 DEF Onward, Place
<1>9. proc'[p] = l /\ \A q \in Procs : q # p => proc'[q] = proc[q]
  BY <1>1, BecomesAt
<1>10. SameDefs(defs, defs')
  BY <1>1, SameTables
<1>11. /\ Onward(defs', instances', tasks', proc'[p])
       /\ Place(proc'[p]) = i /\ Place(proc[p]) \in {0, i}
  BY <1>1, <1>5, <1>8, <1>9
<1> QED
  BY <1>1, <1>3, <1>9, <1>10, <1>11, StepAt

-----------------------------------------------------------------------------
\* What a goroutine that advances knows.
LEMMA Advancing ==
    ASSUME IInv, OneInv, NEW p \in Procs, At(p, "advance")
    PROVE  /\ proc[p].id \in DOMAIN instances /\ Place(proc[p]) = proc[p].id
           /\ Waiting(tasks, proc[p].id) = {}
           /\ proc[p].goto \in DOMAIN WfOf(proc[p].row)
           /\ WfOf(proc[p].row) \in Payloads
           /\ ValidateDefinition(WfOf(proc[p].row))
           /\ Entered(p).def = proc[p].row.def /\ Entered(p).step = proc[p].goto
           /\ proc[p].row.vars \in Vars
<1>1. /\ proc[p].id \in DOMAIN instances /\ Place(proc[p]) = proc[p].id
      /\ Waiting(tasks, proc[p].id) = {}
      /\ proc[p].goto \in DOMAIN WfOf(proc[p].row)
  BY Places DEF OneInv, Onward, Place, At, WfOf
<1>2. proc[p].row \in InstanceRow
  BY <1>1, EnteredRow DEF Copy
<1>3. proc[p].row.vars \in Vars
  BY <1>2 DEF InstanceRow
<1> QED
  BY <1>1, <1>3, EnteredRow

\* A step of the recursion: the row is saved, and advance called again.
LEMMA RecursionOne ==
    ASSUME IInv, OneInv, Isolated', NEW p \in Procs, At(p, "advance"),
           Save(p, Entered(p)), UNCHANGED <<defs, tasks>>,
           NEW goto \in DOMAIN WfOf(proc[p].row),
           Becomes(p, OnInstance("advance", proc[p].id, Entered(p), goto))
    PROVE  OneInv'
<1> DEFINE i == proc[p].id
           l == OnInstance("advance", i, Entered(p), goto)
<1>1. /\ i \in DOMAIN instances /\ Place(proc[p]) = i /\ Waiting(tasks, i) = {}
      /\ Entered(p).def = proc[p].row.def
  BY Advancing
<1>2. l.pc = "advance" /\ l.id = i /\ l.goto = goto /\ l.row = Entered(p)
  BY NewLocal
<1>3. Becomes(p, l) /\ instances' = [instances EXCEPT ![i] = Entered(p)]
  BY DEF Save
<1> HIDE DEF l, i
<1>4. Onward(defs, instances', tasks, l) /\ Place(l) = i
  BY <1>1, <1>2 DEF Onward, Place, WfOf
<1>5. i # 0
  BY <1>1, Places
<1> QED
  BY <1>1, <1>3, <1>4, <1>5, WriteOne

LEMMA AdvanceStartOne ==
    ASSUME IInv, OneInv, Isolated', NEW p \in Procs, AdvanceStart(p)
    PROVE  OneInv'
<1>1. /\ At(p, "advance") /\ Target(p).type = "start"
      /\ Save(p, Entered(p)) /\ UNCHANGED <<defs, tasks>>
      /\ Becomes(p, OnInstance("advance", proc[p].id, Entered(p), Target(p).next))
  BY DEF AdvanceStart, Reaches
<1>2. Target(p).next \in DOMAIN WfOf(proc[p].row)
  BY <1>1, Advancing, StartLeads DEF Target
<1> QED
  BY <1>1, <1>2, RecursionOne

LEMMA AdvanceConditionOne ==
    ASSUME IInv, OneInv, Isolated', \A wf \in Payloads : Complete(wf),
           NEW p \in Procs, AdvanceCondition(p)
    PROVE  OneInv'
<1> DEFINE wf == WfOf(proc[p].row)
           goto == EvaluateConditions(Target(p), proc[p].row.vars)
<1>1. /\ At(p, "advance") /\ Target(p).type = "condition"
      /\ Save(p, Entered(p)) /\ UNCHANGED <<defs, tasks>>
      /\ Becomes(p, OnInstance("advance", proc[p].id, Entered(p), goto))
  BY DEF AdvanceCondition, Reaches
<1>2. /\ proc[p].goto \in DOMAIN wf /\ wf \in Payloads /\ ValidateDefinition(wf)
      /\ proc[p].row.vars \in Vars /\ Target(p) = wf[proc[p].goto]
  BY <1>1, Advancing DEF Target
<1>3. goto \in DOMAIN wf \cup {NoGoto}
  BY <1>2, ConditionRoutes
<1>4. goto # NoGoto
  BY <1>1, <1>2 DEF Complete
<1> HIDE DEF goto, wf
<1>5. goto \in DOMAIN wf
  BY <1>3, <1>4
<1> QED
  BY <1>1, <1>5, RecursionOne DEF wf

LEMMA AdvanceApprovalOne ==
    ASSUME IInv, OneInv, Isolated', NEW p \in Procs, AdvanceApproval(p)
    PROVE  OneInv'
<1> DEFINE i == proc[p].id
           l == OnInstance("assign", i, Entered(p), proc[p].goto)
<1>1. /\ At(p, "advance") /\ instances' = [instances EXCEPT ![i] = Entered(p)]
      /\ Becomes(p, l) /\ UNCHANGED <<defs, tasks>>
  BY DEF AdvanceApproval, Reaches, Save
<1>2. /\ i \in DOMAIN instances /\ Place(proc[p]) = i /\ Waiting(tasks, i) = {}
      /\ Entered(p).step = proc[p].goto
  BY <1>1, Advancing
<1>3. l.pc = "assign" /\ l.id = i /\ l.goto = proc[p].goto
  BY NewLocal
<1> HIDE DEF l, i
<1>4. instances'[i] = Entered(p)
  BY <1>1, <1>2 DEF IInv, TypeOK
<1>5. Onward(defs, instances', tasks, l) /\ Place(l) = i /\ i # 0
  BY <1>2, <1>3, <1>4, Places DEF Onward, Place
<1> QED
  BY <1>1, <1>2, <1>5, WriteOne

LEMMA AdvanceEndOne ==
    ASSUME IInv, OneInv, Isolated', NEW p \in Procs, AdvanceEnd(p)
    PROVE  OneInv'
<1> DEFINE i == proc[p].id
           result == Target(p).result
<1>1. /\ At(p, "advance") /\ Target(p).type = "end"
      /\ instances' = [instances EXCEPT ![i] = Finished(p)]
      /\ Becomes(p, Idle) /\ UNCHANGED <<defs, tasks>>
  BY DEF AdvanceEnd, Reaches, Save, Return
<1>2. /\ i \in DOMAIN instances /\ Place(proc[p]) = i
      /\ proc[p].goto \in DOMAIN WfOf(proc[p].row) /\ WfOf(proc[p].row) \in Payloads
  BY <1>1, Advancing
<1>3. result \in Statuses /\ result # "running"
  BY <1>1, <1>2, ResultAssumption DEF Target
<1>4. Entered(p) \in InstanceRow
  BY <1>1, <1>2, EnteredRow
<1>5. Finished(p).status = result
  <2>1. PICK row \in InstanceRow : row = Entered(p)
    BY <1>4
  <2> HIDE DEF result
  <2>2. Closed(row, result).status = result
    BY <1>3, ClosedRow, Zenon
  <2> QED
    BY <2>1, <2>2 DEF Finished, result
<1> HIDE DEF i, result
<1> QED
  BY <1>1, <1>2, <1>3, <1>5, IdleOnward, WriteOne

LEMMA CreateTaskOne ==
    ASSUME IInv, OneInv, Isolated', NEW p \in Procs, CreateTask(p)
    PROVE  OneInv'
<1> DEFINE i == proc[p].id
           n == Len(tasks) + 1
           new == [org |-> proc[p].row.org, inst |-> i, step |-> proc[p].goto,
                   assignee |-> Assignee(p).value, status |-> "pending"]
<1>1. /\ proc[p].pc = "assign" /\ tasks' = Append(tasks, new) /\ Becomes(p, Idle)
      /\ UNCHANGED <<defs, instances>>
  BY DEF CreateTask, At, Return
<1>2. /\ i \in DOMAIN instances /\ Place(proc[p]) = i /\ Waiting(tasks, i) = {}
      /\ instances[i].step = proc[p].goto
  BY <1>1, Places DEF OneInv, Onward, Place
<1>3. new.inst = i /\ new.step = proc[p].goto /\ new.status = "pending"
  OBVIOUS
<1> HIDE DEF new
<1>4. /\ DOMAIN tasks' = DOMAIN tasks \cup {n} /\ n \notin DOMAIN tasks
      /\ tasks'[n] = new
      /\ \A t \in DOMAIN tasks : tasks'[t] = tasks[t]
  BY <1>1 DEF IInv, TypeOK
<1> HIDE DEF n, i
<1>5. Waiting(tasks', i) = {n}
  BY <1>2, <1>3, <1>4 DEF Waiting
<1>6. Waits(instances', tasks', i)
  BY <1>1, <1>2, <1>3, <1>4, <1>5 DEF Waits
<1>7. proc'[p] = Idle /\ \A q \in Procs : q # p => proc'[q] = proc[q]
  BY <1>1, BecomesAt
<1>8. SameDefs(defs, defs')
  BY <1>1, SameTables
<1>9. /\ Onward(defs', instances', tasks', proc'[p]) /\ Place(proc'[p]) = 0
  BY <1>7, IdleOnward
<1> QED
  BY <1>1, <1>2, <1>3, <1>4, <1>6, <1>7, <1>8, <1>9, StepAt

-----------------------------------------------------------------------------
LEMMA ActLoadOne ==
    ASSUME IInv, OneInv, Isolated', NEW p \in Procs, NEW u \in Users,
           NEW t \in DOMAIN tasks, NEW decision \in Decisions,
           ActLoad(p, u, t, decision)
    PROVE  OneInv'
<1> DEFINE j == tasks[t].inst
           task == [tasks[t] EXCEPT !.status = decision]
           l == OnTask("saveTask", t, task)
<1>1. /\ At(p, "idle") /\ tasks[t].status = "pending"
      /\ Becomes(p, l) /\ UNCHANGED <<defs, instances, tasks>>
  BY DEF ActLoad
<1>2. task.inst = j
  <2>1. tasks[t] \in TaskRow
    BY Known
  <2>2. \A r \in TaskRow : [r EXCEPT !.status = decision].inst = r.inst
    BY DEF TaskRow
  <2> QED
    BY <2>1, <2>2
<1>3. j \in DOMAIN instances
  <2>1. Issued(defs, instances, tasks[t])
    BY DEF IInv, TasksIssued
  <2> QED
    BY <2>1, Zenon DEF Issued
<1> HIDE DEF task
<1>4. l.pc = "saveTask" /\ l.id = 0 /\ l.tid = t /\ l.task.inst = j
  BY <1>2, NewLocal
<1>5. Place(l) = j
  BY <1>4 DEF Place
<1> HIDE DEF l
<1>6. Waits(instances, tasks, j) /\ Place(proc[p]) = 0
  BY <1>1, <1>3, <1>5, NobodyThere
<1>7. t \in Waiting(tasks, j)
  BY <1>1 DEF Waiting
<1>8. instances[j].status = "running" => Waiting(tasks, j) = {t}
  BY <1>6, <1>7 DEF Waits
<1>9. Onward(defs, instances, tasks, l)
  BY <1>4, <1>8 DEF Onward
<1>10. j # 0
  BY <1>3, Places
<1> HIDE DEF j
<1> QED
  BY <1>1, <1>5, <1>6, <1>9, <1>10, MoveOne

LEMMA ActSaveOne ==
    ASSUME IInv, OneInv, Isolated', NEW p \in Procs, ActSave(p)
    PROVE  OneInv'
<1> DEFINE t == proc[p].tid
           task == proc[p].task
           l == OnTask("loadInstance", t, task)
<1>1. /\ proc[p].pc = "saveTask" /\ tasks' = [tasks EXCEPT ![t] = task]
      /\ Becomes(p, l) /\ UNCHANGED <<defs, instances>>
  BY DEF ActSave, At
<1>2. LocalOK(defs, instances, tasks, proc[p]) /\ tasks \in Seq(TaskRow)
  BY Known DEF IInv, TypeOK
<1>3. /\ t \in DOMAIN tasks /\ task \in TaskRow /\ task.status # "pending"
      /\ SameQuestion(task, tasks[t])
  BY <1>1, <1>2, Zenon DEF LocalOK
<1>4. PICK j : j = task.inst
  OBVIOUS
<1>5. Place(proc[p]) = j /\ tasks[t].inst = j
  BY <1>1, <1>3, <1>4 DEF Place, SameQuestion
<1>6. instances[j].status = "running" => Waiting(tasks, j) \subseteq {t}
  BY <1>1, <1>4 DEF OneInv, Onward
<1> HIDE DEF task
<1>7. l.pc = "loadInstance" /\ l.id = 0 /\ l.task = task
  BY NewLocal
<1> HIDE DEF l, t
<1>8. /\ DOMAIN tasks' = DOMAIN tasks /\ tasks'[t] = task
      /\ \A k \in DOMAIN tasks : k # t => tasks'[k] = tasks[k]
  BY <1>1, <1>2, <1>3, WriteRow
<1>9. instances[j].status = "running" => Waiting(tasks', j) = {}
  BY <1>3, <1>6, <1>8 DEF Waiting
<1>10. Onward(defs, instances, tasks', l) /\ Place(l) = j
  BY <1>4, <1>7, <1>9 DEF Onward, Place
<1>11. proc'[p] = l /\ \A q \in Procs : q # p => proc'[q] = proc[q]
  BY <1>1, BecomesAt
<1>12. SameDefs(defs, defs')
  BY <1>1, SameTables
<1>13. j \in DOMAIN instances /\ j # 0
  BY <1>1, <1>5, Places DEF Place
<1>14. /\ Onward(defs', instances', tasks', proc'[p])
       /\ Place(proc'[p]) = j
  BY <1>1, <1>10, <1>11
<1>15. \A k \in DOMAIN tasks : tasks[k].inst # j => k \in DOMAIN tasks' /\ tasks'[k] = tasks[k]
  BY <1>5, <1>8
<1>16. \A k \in DOMAIN tasks' : tasks'[k].inst # j => k \in DOMAIN tasks /\ tasks'[k] = tasks[k]
  BY <1>4, <1>8
<1> QED
  BY <1>1, <1>5, <1>11, <1>12, <1>13, <1>14, <1>15, <1>16, StepAt

-----------------------------------------------------------------------------
\* What a goroutine knows that has recorded its decision.
LEMMA Deciding ==
    ASSUME IInv, OneInv, \A wf \in Payloads : Complete(wf),
           NEW p \in Procs, At(p, "loadInstance")
    PROVE  LET j == proc[p].task.inst
           IN  /\ j \in DOMAIN instances /\ j # 0 /\ Place(proc[p]) = j
               /\ instances[j].status = "running" => Waiting(tasks, j) = {}
               /\ NextStep(p) \in DOMAIN WfOf(instances[j])
               /\ NextStep(p) # NoGoto
<1> DEFINE j == proc[p].task.inst
           n == proc[p].task.step
           wf == WfOf(instances[j])
<1>1. proc[p].pc = "loadInstance"
  BY DEF At
<1>2. j \in DOMAIN instances /\ j # 0 /\ Place(proc[p]) = j
  BY <1>1, Places DEF Place
<1>3. instances[j].status = "running" => Waiting(tasks, j) = {}
  BY <1>1 DEF OneInv, Onward
<1>4. Issued(defs, instances, proc[p].task)
  BY <1>1, Known, Zenon DEF LocalOK
<1>5. n \in DOMAIN wf /\ wf[n].type = "approval"
  BY <1>4, Zenon DEF Issued, WfOf
<1>6. instances[j].def \in DOMAIN defs
  BY <1>2 DEF IInv, RowsCoherent, Coherent
<1>7. wf \in Payloads /\ ValidateDefinition(wf)
  BY <1>6, Known DEF WfOf
<1>8. NextStep(p) = Branch(wf[n], proc[p].task.status)
  BY DEF NextStep, Loaded
<1> HIDE DEF wf, n
<1>9. wf[n].on_approve # NoGoto /\ wf[n].on_reject # NoGoto
  BY <1>5, <1>7, Zenon DEF Complete
<1>10. ValidStep(wf, wf[n])
  BY <1>5, <1>7, Zenon DEF ValidateDefinition
<1>11. wf[n].on_approve \in DOMAIN wf /\ wf[n].on_reject \in DOMAIN wf
  BY <1>9, <1>10, Zenon DEF ValidStep
<1>12. NextStep(p) \in DOMAIN wf /\ NextStep(p) # NoGoto
  BY <1>8, <1>9, <1>11, Zenon DEF Branch
<1> QED
  BY <1>2, <1>3, <1>12 DEF wf

LEMMA ActRouteOne ==
    ASSUME IInv, OneInv, Isolated', \A wf \in Payloads : Complete(wf),
           NEW p \in Procs, ActRoute(p)
    PROVE  OneInv'
<1> DEFINE j == proc[p].task.inst
           l == OnInstance("advance", j, Loaded(p), NextStep(p))
<1>1. /\ At(p, "loadInstance") /\ Loaded(p).status = "running"
      /\ Becomes(p, l) /\ UNCHANGED <<defs, instances, tasks>>
  BY DEF ActRoute
<1>2. /\ j \in DOMAIN instances /\ j # 0 /\ Place(proc[p]) = j
      /\ instances[j].status = "running" => Waiting(tasks, j) = {}
      /\ NextStep(p) \in DOMAIN WfOf(instances[j])
  BY <1>1, Deciding
<1>3. Loaded(p) = instances[j]
  BY DEF Loaded
<1>4. l.pc = "advance" /\ l.id = j /\ l.row = Loaded(p) /\ l.goto = NextStep(p)
  BY NewLocal
<1> HIDE DEF l, j
<1>5. Onward(defs, instances, tasks, l) /\ Place(l) = j
  BY <1>1, <1>2, <1>3, <1>4 DEF Onward, Place, WfOf
<1> QED
  BY <1>1, <1>2, <1>5, MoveOne

LEMMA ActStopOne ==
    ASSUME IInv, OneInv, Isolated', \A wf \in Payloads : Complete(wf),
           NEW p \in Procs, ActStop(p)
    PROVE  OneInv'
<1> DEFINE j == proc[p].task.inst
<1>1. /\ At(p, "loadInstance") /\ Becomes(p, Idle)
      /\ UNCHANGED <<defs, instances, tasks>>
  BY DEF ActStop, Return
<1>2. /\ j \in DOMAIN instances /\ Place(proc[p]) = j /\ NextStep(p) # NoGoto
  BY <1>1, Deciding
<1>3. instances[j].status # "running"
  BY <1>2 DEF ActStop, Loaded
<1> HIDE DEF j
<1>4. Waits(instances, tasks, j)
  BY <1>3 DEF Waits
<1>5. Onward(defs, instances, tasks, Idle) /\ Place(Idle) = 0
  BY IdleOnward
<1> QED
  BY <1>1, <1>2, <1>4, <1>5, MoveOne

-----------------------------------------------------------------------------
LEMMA CancelLoadOne ==
    ASSUME IInv, OneInv, Isolated', NEW p \in Procs, NEW u \in Users,
           NEW i \in DOMAIN instances, CancelLoad(p, u, i)
    PROVE  OneInv'
<1> DEFINE row == Cancelled(instances[i])
           l == OnInstance("saveCancel", i, row, NoGoto)
<1>1. At(p, "idle") /\ Becomes(p, l) /\ UNCHANGED <<defs, instances, tasks>>
  BY DEF CancelLoad
<1>2. row.status = "cancelled"
  BY Known, ClosedRow, Zenon DEF Cancelled, Statuses
<1> HIDE DEF row
<1>3. l.pc = "saveCancel" /\ l.id = i /\ l.row = row
  BY NewLocal
<1> HIDE DEF l
<1>4. Onward(defs, instances, tasks, l) /\ Place(l) = i
  BY <1>2, <1>3 DEF Onward, Place
<1>5. Place(proc[p]) = 0 /\ i # 0
  BY <1>1, <1>4, NobodyThere, Places
<1> QED
  BY <1>1, <1>4, <1>5, MoveOne

LEMMA CancelSaveOne ==
    ASSUME IInv, OneInv, Isolated', NEW p \in Procs, CancelSave(p)
    PROVE  OneInv'
<1> DEFINE i == proc[p].id
           row == proc[p].row
<1>1. /\ proc[p].pc = "saveCancel" /\ instances' = [instances EXCEPT ![i] = row]
      /\ Becomes(p, Idle) /\ UNCHANGED <<defs, tasks>>
  BY DEF CancelSave, At, Save, Return
<1>2. i \in DOMAIN instances /\ Place(proc[p]) = i /\ row.status = "cancelled"
  BY <1>1, Places DEF OneInv, Onward, Place
<1> HIDE DEF i, row
<1>3. Onward(defs, instances', tasks, Idle) /\ Place(Idle) = 0
  BY IdleOnward
<1>4. row.status # "running"
  BY <1>2
<1> QED
  BY <1>1, <1>2, <1>3, <1>4, WriteOne

-----------------------------------------------------------------------------
\* The two ways a goroutine gives up are not there.
LEMMA NeverStuck ==
    ASSUME IInv, OneInv, \A wf \in Payloads : Complete(wf), NEW p \in Procs
    PROVE  ~AdvanceError(p) /\ ~AssignError(p)
<1>1. ~AdvanceError(p)
  BY Advancing DEF AdvanceError
<1>2. ASSUME At(p, "assign")
      PROVE  Assignee(p).kind = "user"
  <2> DEFINE wf == WfOf(proc[p].row)
             n == proc[p].goto
  <2>1. LocalOK(defs, instances, tasks, proc[p]) /\ proc[p].pc = "assign"
    BY <1>2, Known DEF At
  <2>2. Copy(defs, instances, proc[p]) /\ n \in DOMAIN wf /\ wf[n].type = "approval"
    BY <2>1, Zenon DEF LocalOK, WfOf
  <2>3. proc[p].row.def \in DOMAIN defs
    BY <2>2 DEF Copy, Coherent
  <2>4. wf \in Payloads
    BY <2>3, Known DEF WfOf
  <2>5. Assignee(p) = wf[n].assignee
    BY DEF Assignee, Target
  <2> HIDE DEF wf, n
  <2> QED
    BY <2>2, <2>4, <2>5, Zenon DEF Complete
<1> QED
  BY <1>1, <1>2 DEF AssignError

LEMMA NextOne ==
    ASSUME ~Faults, \A wf \in Payloads : Complete(wf),
           IInv, OneInv, Next, Isolated'
    PROVE  OneInv'
<1>1. CASE Catalogue
  <2>1. UNCHANGED <<instances, tasks, proc>>
    BY <1>1 DEF Catalogue, Define, Archive
  <2> QED
    BY <2>1, NextIsCareful, CatalogueOne
<1>2. ASSUME NEW p \in Procs, Request(p)
      PROVE  OneInv'
  BY <1>2, StartLoadOne, ActLoadOne, CancelLoadOne DEF Request
<1>3. ASSUME NEW p \in Procs, Continue(p)
      PROVE  OneInv'
  <2>1. CASE StartCreate(p)
    BY <2>1, StartCreateOne
  <2>2. CASE AdvanceStart(p)
    BY <2>2, AdvanceStartOne
  <2>3. CASE AdvanceCondition(p)
    BY <2>3, AdvanceConditionOne
  <2>4. CASE AdvanceApproval(p)
    BY <2>4, AdvanceApprovalOne
  <2>5. CASE AdvanceEnd(p)
    BY <2>5, AdvanceEndOne
  <2>6. CASE CreateTask(p)
    BY <2>6, CreateTaskOne
  <2>7. CASE AdvanceError(p) \/ AssignError(p)
    BY <2>7, NeverStuck
  <2>8. CASE ActSave(p)
    BY <2>8, ActSaveOne
  <2>9. CASE ActRoute(p)
    BY <2>9, ActRouteOne
  <2>10. CASE ActStop(p)
    BY <2>10, ActStopOne
  <2>11. CASE CancelSave(p)
    BY <2>11, CancelSaveOne
  <2> QED
    BY <1>3, <2>1, <2>2, <2>3, <2>4, <2>5, <2>6, <2>7, <2>8, <2>9, <2>10,
       <2>11 DEF Continue
<1>4. \A p \in Procs : ~Fail(p)
  BY DEF Fail
<1> QED
  BY <1>1, <1>2, <1>3, <1>4 DEF Next

LEMMA InitOne == Init => OneInv
<1> SUFFICES ASSUME Init PROVE OneInv
  OBVIOUS
<1>1. \A p \in Procs : proc[p] = Idle
  BY DEF Init
<1>2. \A p \in Procs : Onward(defs, instances, tasks, proc[p]) /\ Place(proc[p]) = 0
  BY <1>1, IdleOnward
<1>3. \A p \in Procs : InstanceOf(p) = 0
  BY <1>2, PlaceOf
<1>4. Isolated
  BY <1>3 DEF Isolated
<1>5. DOMAIN instances = {}
  BY DEF Init
<1> QED
  BY <1>2, <1>4, <1>5 DEF OneInv

\* Where requests overlap freely except on one instance, definitions leave
\* nothing open, and no statement fails, a running instance nobody is working
\* on waits for exactly one decision, on the step it stands at
\* (WorkflowIsolated): actOnTask and advance never leave it stuck and never
\* ask twice.
THEOREM OneTaskIsOpen ==
    ASSUME ~Faults, \A wf \in Payloads : Complete(wf)
    PROVE  IsolatedSpec => []OneOpenTask
<1>1. Init => IInv /\ OneInv
  BY InitIInv, InitOne
<1>2. IInv /\ OneInv /\ [Next /\ Isolated']_vars => (IInv /\ OneInv)'
  <2> SUFFICES ASSUME IInv, OneInv, [Next /\ Isolated']_vars
               PROVE  IInv' /\ OneInv'
    OBVIOUS
  <2>1. IInv'
    BY NextPreservesIInv
  <2>2. CASE Next /\ Isolated'
    BY <2>1, <2>2, NextOne
  <2>3. CASE UNCHANGED vars
    BY <2>1, <2>3 DEF vars, OneInv, Isolated, InstanceOf, Workers
  <2> QED
    BY <2>1, <2>2, <2>3
<1>3. OneInv => OneOpenTask
  BY DEF OneInv, OneOpenTask, Waits, Waiting, Pending
<1> QED
  BY <1>1, <1>2, <1>3, PTL DEF IsolatedSpec

-----------------------------------------------------------------------------
(***************************************************************************)
(* What the recursive functions of the mapping compute.  TasksOf, over the *)
(* task table T:                                                           *)
(***************************************************************************)
\* Induction, for a property given by the set of numbers that have it.
LEMMA Upwards ==
    ASSUME NEW k \in Nat, NEW N \in Nat, NEW Good, k \in Good,
           \A n \in Nat : k < n /\ n <= N /\ n - 1 \in Good => n \in Good
    PROVE  \A n \in k .. N : n \in Good
<1>1. PICK bad : bad = {n \in k .. N : n \notin Good}
  OBVIOUS
<1>2. bad \in SUBSET Nat
  BY <1>1
<1>3. ASSUME bad # {} PROVE FALSE
  <2>1. PICK n \in bad : \A m \in bad : n <= m
    BY <1>2, <1>3, LeastBranch
  <2>2. n \in Nat /\ k <= n /\ n <= N /\ n \notin Good
    BY <1>1, <1>2, <2>1
  <2>3. k < n
    BY <2>2
  <2>4. n - 1 \in k .. N /\ ~(n <= n - 1)
    BY <2>2, <2>3
  <2>5. n - 1 \in Good
    BY <1>1, <2>1, <2>4
  <2> QED
    BY <2>2, <2>3, <2>5
<1> QED
  BY <1>1, <1>3

Among(T, i, f, n) ==
    IF n = 0 THEN <<>>
    ELSE IF T[n].inst = i THEN Append(f[n - 1], T[n]) ELSE f[n - 1]

Counts(T, i, f) == f = [n \in 0 .. Len(T) |-> Among(T, i, f, n)]

History(T, i) == (CHOOSE f : Counts(T, i, f))[Len(T)]

LEMMA HistoryOf ==
    /\ \A i : TasksOf(i) = History(tasks, i)
    /\ \A i : TasksOf(i)' = History(tasks', i)
BY Zenon DEF TasksOf, History, Counts, Among

Walks(S, T, i, f) ==
    /\ f[0] = <<>> /\ Len(T) \in Nat
    /\ \A n \in 1 .. Len(T) :
          f[n] = IF T[n].inst = i THEN Append(f[n - 1], T[n]) ELSE f[n - 1]
    /\ \A n \in 0 .. Len(T) : f[n] \in Seq(S)

LEMMA Counted ==
    ASSUME NEW S, NEW T \in Seq(S), NEW i, NEW f, Counts(T, i, f)
    PROVE  Walks(S, T, i, f)
<1>1. \A n \in 0 .. Len(T) : f[n] = Among(T, i, f, n)
  BY DEF Counts
<1>2. f[0] = <<>> /\ Len(T) \in Nat
  BY <1>1 DEF Among
<1>3. \A n \in 1 .. Len(T) :
         f[n] = IF T[n].inst = i THEN Append(f[n - 1], T[n]) ELSE f[n - 1]
  BY <1>1 DEF Among
<1>4. PICK Good : Good = {n \in 0 .. Len(T) : f[n] \in Seq(S)}
  OBVIOUS
<1>5. ASSUME NEW n \in Nat, 0 < n, n <= Len(T), n - 1 \in Good PROVE n \in Good
  <2>1. n \in 1 .. Len(T) /\ f[n - 1] \in Seq(S) /\ T[n] \in S
    BY <1>2, <1>4, <1>5
  <2>2. PICK s, e : s = f[n - 1] /\ e = T[n]
    OBVIOUS
  <2>3. f[n] = IF e.inst = i THEN Append(s, e) ELSE s
    BY <1>3, <2>1, <2>2
  <2>4. s \in Seq(S) /\ Append(s, e) \in Seq(S)
    BY <2>1, <2>2
  <2>5. f[n] \in Seq(S)
    BY <2>3, <2>4
  <2> QED
    BY <1>4, <2>1, <2>5
<1>6. 0 \in Good
  <2>1. <<>> \in Seq(S) /\ 0 \in 0 .. Len(T)
    BY <1>2
  <2> QED
    BY <1>2, <1>4, <2>1
<1>7. \A n \in 0 .. Len(T) : n \in Good
  BY <1>2, <1>5, <1>6, Upwards
<1> QED
  BY <1>2, <1>3, <1>4, <1>7 DEF Walks

LEMMA CountsExists ==
    ASSUME NEW S, NEW T \in Seq(S), NEW i
    PROVE  \E f : Counts(T, i, f)
<1> DEFINE Upto(f, k) == f = [n \in 0 .. k |-> Among(T, i, f, n)]
<1>1. PICK Good : Good = {k \in 0 .. Len(T) : \E f : Upto(f, k)}
  OBVIOUS
<1>2. Len(T) \in Nat
  OBVIOUS
<1>3. 0 \in Good
  <2>1. PICK f : f = [n \in 0 .. 0 |-> <<>>]
    OBVIOUS
  <2>2. \A n \in 0 .. 0 : n = 0
    OBVIOUS
  <2>3. Upto(f, 0)
    BY <2>1, <2>2 DEF Among
  <2> QED
    BY <1>1, <1>2, <2>3
<1>4. ASSUME NEW k \in Nat, 0 < k, k <= Len(T), k - 1 \in Good PROVE k \in Good
  <2>1. PICK f : Upto(f, k - 1)
    BY <1>1, <1>4
  <2>2. PICK g : g = [n \in 0 .. k |-> IF n = k THEN Among(T, i, f, k) ELSE f[n]]
    OBVIOUS
  <2>3. \A n \in 0 .. k : n # k => n \in 0 .. (k - 1) /\ g[n] = f[n]
    BY <1>4, <2>2
  <2>4. \A n \in 0 .. k : n # 0 => n - 1 \in 0 .. (k - 1) /\ g[n - 1] = f[n - 1]
    BY <1>4, <2>3
  <2>5. \A n \in 0 .. k : g[n] = Among(T, i, f, n)
    <3>1. g[k] = Among(T, i, f, k)
      BY <1>4, <2>2
    <3>2. \A n \in 0 .. (k - 1) : f[n] = Among(T, i, f, n)
      BY <2>1
    <3> HIDE DEF Upto
    <3> QED
      BY <2>3, <3>1, <3>2
  <2>6. \A n \in 0 .. k : Among(T, i, f, n) = Among(T, i, g, n)
    BY <2>4 DEF Among
  <2>7. \A n \in 0 .. k : g[n] = Among(T, i, g, n)
    BY <2>5, <2>6
  <2>8. Upto(g, k)
    BY <2>2, <2>7
  <2> QED
    BY <1>1, <1>2, <1>4, <2>8
<1>5. \A k \in 0 .. Len(T) : k \in Good
  BY <1>2, <1>3, <1>4, Upwards
<1>6. \E f : Upto(f, Len(T))
  BY <1>1, <1>2, <1>5
<1> QED
  BY <1>6 DEF Counts

LEMMA HistoryIs ==
    ASSUME NEW S, NEW T \in Seq(S), NEW i
    PROVE  \E f : Counts(T, i, f) /\ History(T, i) = f[Len(T)]
BY CountsExists, Zenon DEF History

\* Tables that agree on the tasks of an instance have the same history of it.
LEMMA CountedAlike ==
    ASSUME NEW S, NEW T \in Seq(S), NEW U \in Seq(S), NEW i, NEW f, NEW g,
           Counts(T, i, f), Counts(U, i, g),
           NEW N \in Nat, N <= Len(T), N <= Len(U),
           \A n \in 1 .. N : T[n].inst = i \/ U[n].inst = i => U[n] = T[n]
    PROVE  \A n \in 0 .. N : g[n] = f[n]
<1>1. /\ f[0] = <<>> /\ Len(T) \in Nat
      /\ \A n \in 1 .. Len(T) :
            f[n] = IF T[n].inst = i THEN Append(f[n - 1], T[n]) ELSE f[n - 1]
  <2>1. Walks(S, T, i, f)
    BY Counted
  <2> QED
    BY <2>1 DEF Walks
<1>2. /\ g[0] = <<>> /\ Len(U) \in Nat
      /\ \A n \in 1 .. Len(U) :
            g[n] = IF U[n].inst = i THEN Append(g[n - 1], U[n]) ELSE g[n - 1]
  <2>1. Walks(S, U, i, g)
    BY Counted
  <2> QED
    BY <2>1 DEF Walks
<1>3. PICK Good : Good = {n \in 0 .. N : g[n] = f[n]}
  OBVIOUS
<1>4. ASSUME NEW n \in Nat, 0 < n, n <= N, n - 1 \in Good PROVE n \in Good
  <2>1. n \in 1 .. N /\ n \in 1 .. Len(T) /\ n \in 1 .. Len(U) /\ g[n - 1] = f[n - 1]
    BY <1>1, <1>2, <1>3, <1>4
  <2>2. PICK s, x, y : s = f[n - 1] /\ x = T[n] /\ y = U[n]
    OBVIOUS
  <2>3. f[n] = IF x.inst = i THEN Append(s, x) ELSE s
    BY <1>1, <2>1, <2>2
  <2>4. g[n] = IF y.inst = i THEN Append(s, y) ELSE s
    BY <1>2, <2>1, <2>2
  <2>5. x.inst = i \/ y.inst = i => y = x
    BY <2>1, <2>2
  <2>6. g[n] = f[n]
    BY <2>3, <2>4, <2>5
  <2> QED
    BY <1>3, <2>1, <2>6
<1>5. 0 \in Good
  BY <1>1, <1>2, <1>3
<1>6. \A n \in 0 .. N : n \in Good
  BY <1>4, <1>5, Upwards
<1> QED
  BY <1>3, <1>6

LEMMA HistorySame ==
    ASSUME NEW S, NEW T \in Seq(S), NEW U \in Seq(S), NEW i, Len(U) = Len(T),
           \A n \in 1 .. Len(T) : T[n].inst = i \/ U[n].inst = i => U[n] = T[n]
    PROVE  History(U, i) = History(T, i)
<1>1. PICK f, g : /\ Counts(T, i, f) /\ History(T, i) = f[Len(T)]
                  /\ Counts(U, i, g) /\ History(U, i) = g[Len(U)]
  BY HistoryIs
<1>2. PICK N : N = Len(T)
  OBVIOUS
<1>3. N \in Nat /\ N <= Len(T) /\ N <= Len(U)
  BY <1>2
<1>4. \A n \in 0 .. N : g[n] = f[n]
  BY <1>1, <1>2, <1>3, CountedAlike
<1> QED
  BY <1>1, <1>2, <1>3, <1>4

LEMMA HistoryAppend ==
    ASSUME NEW S, NEW T \in Seq(S), NEW e \in S, NEW i
    PROVE  History(Append(T, e), i) =
              IF e.inst = i THEN Append(History(T, i), e) ELSE History(T, i)
<1>1. PICK U : U = Append(T, e)
  OBVIOUS
<1>2. PICK N : N = Len(T)
  OBVIOUS
<1>3. /\ U \in Seq(S) /\ N \in Nat /\ Len(U) = N + 1 /\ U[N + 1] = e
      /\ \A n \in 1 .. N : U[n] = T[n]
  BY <1>1, <1>2
<1>4. PICK f, g : /\ Counts(T, i, f) /\ History(T, i) = f[N]
                  /\ Counts(U, i, g) /\ History(U, i) = g[N + 1]
  BY <1>2, <1>3, HistoryIs
<1>5. N <= Len(T) /\ N <= Len(U) /\ N \in 0 .. N
  BY <1>2, <1>3
<1>6. g[N] = f[N]
  <2>1. \A n \in 0 .. N : g[n] = f[n]
    BY <1>3, <1>4, <1>5, CountedAlike
  <2> QED
    BY <1>5, <2>1
<1>7. \A n \in 1 .. Len(U) :
         g[n] = IF U[n].inst = i THEN Append(g[n - 1], U[n]) ELSE g[n - 1]
  <2>1. Walks(S, U, i, g)
    BY <1>3, <1>4, Counted
  <2> QED
    BY <2>1 DEF Walks
<1>8. N + 1 \in 1 .. Len(U) /\ (N + 1) - 1 = N
  BY <1>3
<1>9. g[N + 1] = IF e.inst = i THEN Append(f[N], e) ELSE f[N]
  BY <1>3, <1>6, <1>7, <1>8
<1> QED
  BY <1>1, <1>4, <1>9

LEMMA HistoryNone ==
    ASSUME NEW S, NEW T \in Seq(S), NEW i, \A n \in DOMAIN T : T[n].inst # i
    PROVE  History(T, i) = <<>>
<1>1. PICK f : Counts(T, i, f) /\ History(T, i) = f[Len(T)]
  BY HistoryIs
<1>2. /\ f[0] = <<>> /\ Len(T) \in Nat
      /\ \A n \in 1 .. Len(T) :
            f[n] = IF T[n].inst = i THEN Append(f[n - 1], T[n]) ELSE f[n - 1]
  <2>1. Walks(S, T, i, f)
    BY <1>1, Counted
  <2> QED
    BY <2>1 DEF Walks
<1>3. PICK Good : Good = {n \in 0 .. Len(T) : f[n] = <<>>}
  OBVIOUS
<1>4. ASSUME NEW n \in Nat, 0 < n, n <= Len(T), n - 1 \in Good PROVE n \in Good
  <2>1. n \in 1 .. Len(T) /\ f[n - 1] = <<>> /\ T[n].inst # i
    BY <1>2, <1>3, <1>4
  <2> QED
    BY <1>2, <1>3, <2>1
<1>5. 0 \in Good
  BY <1>2, <1>3
<1>6. \A n \in 0 .. Len(T) : n \in Good
  BY <1>2, <1>4, <1>5, Upwards
<1> QED
  BY <1>1, <1>2, <1>3, <1>6

\* v is the sequence u with e for its element x at k.
Rewrites(u, v, k, x, e) == k \in DOMAIN u /\ u[k] = x /\ v = [u EXCEPT ![k] = e]

\* Appending and rewriting commute.
LEMMA WriteLast ==
    ASSUME NEW S, NEW s \in Seq(S), NEW x \in S, NEW e \in S
    PROVE  Rewrites(Append(s, x), Append(s, e), Len(s) + 1, x, e)
<1>1. PICK k, u, v : k = Len(s) + 1 /\ u = Append(s, x) /\ v = Append(s, e)
  OBVIOUS
<1>2. /\ k \in Nat /\ DOMAIN u = 1 .. k /\ DOMAIN v = 1 .. k
      /\ u \in Seq(S) /\ v \in Seq(S) /\ k \in 1 .. k
      /\ u[k] = x /\ v[k] = e /\ \A j \in 1 .. k : j # k => u[j] = v[j]
  BY <1>1
<1>3. v = [j \in 1 .. k |-> v[j]] /\ u = [j \in 1 .. k |-> u[j]]
  BY <1>2
<1>4. v = [u EXCEPT ![k] = e]
  BY <1>2, <1>3
<1> QED
  BY <1>1, <1>2, <1>4 DEF Rewrites

LEMMA WriteBefore ==
    ASSUME NEW S, NEW a \in Seq(S), NEW k \in DOMAIN a, NEW y \in S, NEW e \in S,
           NEW b, NEW x, Rewrites(a, b, k, x, e)
    PROVE  Rewrites(Append(a, y), Append(b, y), k, x, e)
<1>1. PICK n, u, v : n = Len(a) + 1 /\ u = Append(a, y) /\ v = Append(b, y)
  OBVIOUS
<1>2. /\ b \in Seq(S) /\ DOMAIN b = DOMAIN a /\ b[k] = e /\ a[k] = x /\ Len(b) = Len(a)
      /\ \A j \in DOMAIN a : j # k => b[j] = a[j]
  BY DEF Rewrites
<1>3. /\ n \in Nat /\ DOMAIN u = 1 .. n /\ DOMAIN v = 1 .. n
      /\ DOMAIN a = 1 .. (n - 1) /\ u[n] = y /\ v[n] = y
      /\ \A j \in DOMAIN a : u[j] = a[j] /\ v[j] = b[j]
      /\ u \in Seq(S) /\ v \in Seq(S)
  <2>1. /\ n \in Nat /\ DOMAIN u = 1 .. n /\ DOMAIN a = 1 .. (n - 1)
        /\ u[n] = y /\ \A j \in DOMAIN a : u[j] = a[j]
        /\ u \in Seq(S)
    BY <1>1
  <2>2. n = Len(b) + 1
    BY <1>1, <1>2
  <2>3. /\ DOMAIN v = 1 .. n /\ v[n] = y /\ \A j \in DOMAIN b : v[j] = b[j]
        /\ v \in Seq(S)
    BY <1>1, <1>2, <2>2
  <2> QED
    BY <1>2, <2>1, <2>3
<1>4. v = [j \in 1 .. n |-> v[j]] /\ u = [j \in 1 .. n |-> u[j]]
  BY <1>3
<1>5. k \in 1 .. n /\ k # n
  BY <1>3
<1>6. v[k] = e
  BY <1>2, <1>3
<1>7. \A j \in 1 .. n : j # k => v[j] = u[j]
  <2>1. \A j \in 1 .. n : j # n => j \in DOMAIN a
    BY <1>3
  <2> QED
    BY <1>2, <1>3, <2>1
<1>8. v = [u EXCEPT ![k] = e]
  BY <1>4, <1>5, <1>6, <1>7
<1> QED
  BY <1>1, <1>2, <1>3, <1>5, <1>8 DEF Rewrites

\* A task that is rewritten is rewritten in the history of its instance.
LEMMA HistoryWritten ==
    ASSUME NEW S, NEW T \in Seq(S), NEW t \in DOMAIN T, NEW e \in S,
           NEW U \in Seq(S), Len(U) = Len(T), U[t] = e,
           \A n \in DOMAIN T : n # t => U[n] = T[n], e.inst = T[t].inst
    PROVE  \E k : Rewrites(History(T, e.inst), History(U, e.inst), k, T[t], e)
<1>1. PICK i, N, x : i = e.inst /\ N = Len(T) /\ x = T[t]
  OBVIOUS
<1>2. N \in Nat /\ t \in 1 .. N /\ t - 1 \in Nat /\ x \in S /\ x.inst = i /\ Len(U) = N
  BY <1>1
<1>3. PICK f, g : /\ Counts(T, i, f) /\ History(T, i) = f[N]
                  /\ Counts(U, i, g) /\ History(U, i) = g[N]
  BY <1>1, <1>2, HistoryIs
<1>4. /\ \A n \in 1 .. N :
            f[n] = IF T[n].inst = i THEN Append(f[n - 1], T[n]) ELSE f[n - 1]
      /\ \A n \in 0 .. N : f[n] \in Seq(S)
  <2>1. Walks(S, T, i, f)
    BY <1>3, Counted
  <2> QED
    BY <1>1, <2>1 DEF Walks
<1>5. \A n \in 1 .. N :
         g[n] = IF U[n].inst = i THEN Append(g[n - 1], U[n]) ELSE g[n - 1]
  <2>1. Walks(S, U, i, g)
    BY <1>3, Counted
  <2> QED
    BY <1>2, <2>1 DEF Walks
<1>6. \A n \in 0 .. (t - 1) : g[n] = f[n]
  <2>1. \A n \in 1 .. (t - 1) : U[n] = T[n]
    BY <1>1, <1>2
  <2>2. t - 1 <= Len(T) /\ t - 1 <= Len(U)
    BY <1>1, <1>2
  <2> QED
    BY <1>2, <1>3, <2>1, <2>2, CountedAlike
<1>7. PICK s : s = f[t - 1]
  OBVIOUS
<1>8. s \in Seq(S) /\ g[t - 1] = s
  BY <1>2, <1>4, <1>6, <1>7
<1>9. f[t] = Append(s, x) /\ g[t] = Append(s, e)
  BY <1>1, <1>2, <1>4, <1>5, <1>7, <1>8
<1>10. PICK k : k = Len(s) + 1
  OBVIOUS
<1>11. PICK Good : Good = {n \in t .. N : Rewrites(f[n], g[n], k, x, e)}
  OBVIOUS
<1>12. t \in Good
  <2>1. Rewrites(f[t], g[t], k, x, e)
    BY <1>2, <1>8, <1>9, <1>10, WriteLast
  <2>2. t \in t .. N
    BY <1>2
  <2> QED
    BY <1>11, <2>1, <2>2
<1>13. ASSUME NEW n \in Nat, t < n, n <= N, n - 1 \in Good PROVE n \in Good
  <2>1. PICK a, b, y : a = f[n - 1] /\ b = g[n - 1] /\ y = T[n]
    OBVIOUS
  <2>2. /\ n \in t .. N /\ n \in 1 .. N /\ n # t /\ n - 1 \in 0 .. N /\ y \in S
        /\ U[n] = y
    <3>1. n \in t .. N /\ n \in 1 .. N /\ n # t /\ n - 1 \in 0 .. N
      BY <1>2, <1>13
    <3>2. n \in DOMAIN T
      BY <1>1, <3>1
    <3> QED
      BY <2>1, <3>1, <3>2
  <2>3. a \in Seq(S) /\ Rewrites(a, b, k, x, e)
    BY <1>4, <1>11, <1>13, <2>1, <2>2
  <2>4. f[n] = IF y.inst = i THEN Append(a, y) ELSE a
    BY <1>4, <2>1, <2>2
  <2>5. g[n] = IF y.inst = i THEN Append(b, y) ELSE b
    BY <1>5, <2>1, <2>2
  <2>6. k \in DOMAIN a
    BY <2>3 DEF Rewrites
  <2>7. Rewrites(Append(a, y), Append(b, y), k, x, e)
    BY <2>2, <2>3, <2>6, WriteBefore
  <2>8. Rewrites(f[n], g[n], k, x, e)
    BY <2>3, <2>4, <2>5, <2>7
  <2> QED
    BY <1>11, <2>2, <2>8
<1>14. \A n \in t .. N : n \in Good
  BY <1>2, <1>12, <1>13, Upwards
<1>15. Rewrites(f[N], g[N], k, x, e)
  BY <1>2, <1>11, <1>14
<1> QED
  BY <1>1, <1>3, <1>15

-----------------------------------------------------------------------------
(***************************************************************************)
(* Rest, the step at which an instance comes to rest.  Its recursion has a *)
(* solution even where steps lead in a circle: all of them then rest at    *)
(* the same, arbitrary, place.                                             *)
(***************************************************************************)
Moves(wf, n) == wf[n].type \in {"start", "condition"}

Onto(wf, v, n) == IF wf[n].type = "start" THEN wf[n].next ELSE EvaluateConditions(wf[n], v)

RestAt(wf, v, f, n) == CASE wf[n].type = "start"     -> f[wf[n].next]
                         [] wf[n].type = "condition" -> f[EvaluateConditions(wf[n], v)]
                         [] OTHER                    -> n

Rests(wf, v, f) == f = [n \in DOMAIN wf |-> RestAt(wf, v, f, n)]

LEMMA RestAtIs ==
    ASSUME NEW wf, NEW v, NEW f, NEW n
    PROVE  RestAt(wf, v, f, n) = IF Moves(wf, n) THEN f[Onto(wf, v, n)] ELSE n
<1>1. CASE wf[n].type = "start"
  <2>1. RestAt(wf, v, f, n) = f[wf[n].next]
    BY <1>1 DEF RestAt
  <2> QED
    BY <1>1, <2>1 DEF Moves, Onto
<1>2. CASE wf[n].type = "condition"
  <2>1. RestAt(wf, v, f, n) = f[EvaluateConditions(wf[n], v)]
    BY <1>2 DEF RestAt
  <2> QED
    BY <1>2, <2>1 DEF Moves, Onto
<1>3. CASE wf[n].type # "start" /\ wf[n].type # "condition"
  BY <1>3 DEF RestAt, Moves
<1> QED
  BY <1>1, <1>2, <1>3

\* The sets of steps that are not left, and what is in all of those around n.
Keeps(wf, v, C) == /\ C \subseteq DOMAIN wf
                   /\ \A n \in C : Moves(wf, n) => Onto(wf, v, n) \in C

Ahead(wf, v, n) == {m \in DOMAIN wf : \A C : Keeps(wf, v, C) /\ n \in C => m \in C}

\* Where an instance sent to n can rest.
Halts(wf, v, n) == {m \in Ahead(wf, v, n) : ~Moves(wf, m)}

LEMMA HaltsOnward ==
    ASSUME NEW wf, NEW v, NEW n \in DOMAIN wf, Moves(wf, n),
           Onto(wf, v, n) \in DOMAIN wf
    PROVE  Halts(wf, v, n) = Halts(wf, v, Onto(wf, v, n))
<1>1. PICK next : next = Onto(wf, v, n)
  OBVIOUS
<1>2. ASSUME NEW m \in Halts(wf, v, n) PROVE m \in Halts(wf, v, next)
  <2>1. m \in DOMAIN wf /\ ~Moves(wf, m) /\ m # n
    BY <1>2 DEF Halts, Ahead
  <2>2. ASSUME NEW C, Keeps(wf, v, C), next \in C PROVE m \in C
    <3>1. Keeps(wf, v, C \cup {n})
      BY <1>1, <2>2 DEF Keeps
    <3>2. m \in C \cup {n}
      BY <1>2, <3>1 DEF Halts, Ahead
    <3> QED
      BY <2>1, <3>2
  <2> QED
    BY <2>1, <2>2 DEF Halts, Ahead
<1>3. ASSUME NEW m \in Halts(wf, v, next) PROVE m \in Halts(wf, v, n)
  <2>1. ASSUME NEW C, Keeps(wf, v, C), n \in C PROVE m \in C
    <3>1. next \in C
      BY <1>1, <2>1 DEF Keeps
    <3> QED
      BY <1>3, <2>1, <3>1 DEF Halts, Ahead
  <2> QED
    BY <1>3, <2>1 DEF Halts, Ahead
<1> QED
  BY <1>1, <1>2, <1>3

LEMMA HaltsHere ==
    ASSUME NEW wf, NEW v, NEW n \in DOMAIN wf, ~Moves(wf, n)
    PROVE  Halts(wf, v, n) = {n}
<1>1. Keeps(wf, v, {n})
  BY DEF Keeps
<1> QED
  BY <1>1 DEF Halts, Ahead

LEMMA RestsExists ==
    ASSUME NEW wf, NEW v,
           \A n \in DOMAIN wf : Moves(wf, n) => Onto(wf, v, n) \in DOMAIN wf
    PROVE  \E f : Rests(wf, v, f)
<1> DEFINE f == [n \in DOMAIN wf |-> CHOOSE m : m \in Halts(wf, v, n)]
<1>1. ASSUME NEW n \in DOMAIN wf PROVE f[n] = RestAt(wf, v, f, n)
  <2>1. CASE Moves(wf, n)
    <3>1. PICK next \in DOMAIN wf : next = Onto(wf, v, n)
      BY <2>1
    <3>2. Halts(wf, v, n) = Halts(wf, v, next)
      BY <2>1, <3>1, HaltsOnward
    <3>3. f[n] = f[next]
      BY <3>2
    <3> HIDE DEF f
    <3> QED
      BY <2>1, <3>1, <3>3, RestAtIs
  <2>2. CASE ~Moves(wf, n)
    <3>1. Halts(wf, v, n) = {n}
      BY <2>2, HaltsHere
    <3>2. f[n] = n
      BY <3>1
    <3> HIDE DEF f
    <3> QED
      BY <2>2, <3>2, RestAtIs
  <2> QED
    BY <2>1, <2>2
<1>2. Rests(wf, v, f)
  <2>1. PICK g : g = f
    OBVIOUS
  <2>2. g = [n \in DOMAIN wf |-> g[n]]
    BY <2>1
  <2> HIDE DEF f
  <2> QED
    BY <1>1, <2>1, <2>2 DEF Rests
<1> QED
  BY <1>2

\* One step of the recursion.
LEMMA RestIs ==
    ASSUME NEW wf, NEW v, NEW n \in DOMAIN wf,
           \A m \in DOMAIN wf : Moves(wf, m) => Onto(wf, v, m) \in DOMAIN wf
    PROVE  Rest(wf, v, n) = IF Moves(wf, n) THEN Rest(wf, v, Onto(wf, v, n)) ELSE n
<1> DEFINE f == CHOOSE g : Rests(wf, v, g)
<1>1. \A m : Rest(wf, v, m) = f[m]
  BY Zenon DEF Rest, Rests, RestAt
<1>2. Rests(wf, v, f)
  BY RestsExists, Zenon
<1> HIDE DEF f
<1>3. f[n] = RestAt(wf, v, f, n)
  BY <1>2 DEF Rests
<1> QED
  BY <1>1, <1>3, RestAtIs

-----------------------------------------------------------------------------
(***************************************************************************)
(* Faithful copies.  While requests on one instance are kept apart, what a *)
(* goroutine holds is what the tables say, or what it is about to make of  *)
(* it, and it still may.                                                   *)
(***************************************************************************)
Faithful(D, I, T, l) ==
    /\ l.pc = "create" =>
          /\ "start" \in DOMAIN D[l.row.def].wf
          /\ l.goto = D[l.row.def].wf["start"].next
          /\ l.row.org = OrgOf[l.row.createdBy]
    /\ l.pc \in {"advance", "assign"} => l.row = I[l.id]
    /\ l.pc = "saveTask" =>
          /\ T[l.tid].status = "pending"
          /\ T[l.tid].org = OrgOf[T[l.tid].assignee]
          /\ l.task.status \in Decisions
          /\ l.task = [T[l.tid] EXCEPT !.status = l.task.status]
    /\ l.pc = "saveCancel" =>
          /\ I[l.id].status = "running"
          /\ l.row = Cancelled(I[l.id])
          /\ \E u \in Users : I[l.id].org = OrgOf[u] /\ MayCancel(u, I[l.id])

FaithInv == \A p \in Procs : Faithful(defs, instances, tasks, proc[p])

\* Steps elsewhere leave it so.
LEMMA FaithfulStays ==
    ASSUME IInv, NEW q \in Procs, Faithful(defs, instances, tasks, proc[q]),
           NEW D, SameDefs(defs, D), NEW I, NEW T,
           Place(proc[q]) # 0 =>
              /\ I[Place(proc[q])] = instances[Place(proc[q])]
              /\ \A t \in DOMAIN tasks :
                    tasks[t].inst = Place(proc[q]) => T[t] = tasks[t]
    PROVE  Faithful(D, I, T, proc[q])
<1>1. PICK l, i : l = proc[q] /\ i = Place(l)
  OBVIOUS
<1>2. /\ l.pc \in {"advance", "assign", "saveCancel"} => i = l.id /\ i # 0
      /\ l.pc = "saveTask" => i = l.task.inst /\ i # 0
      /\ l.pc = "create" => l.row.def \in DOMAIN defs
  BY <1>1, Places DEF Place
<1>3. i # 0 => I[i] = instances[i] /\ \A t \in DOMAIN tasks : tasks[t].inst = i => T[t] = tasks[t]
  BY <1>1
<1>4. Faithful(defs, instances, tasks, l)
  BY <1>1
<1>5. l.pc = "saveTask" => T[l.tid] = tasks[l.tid]
  <2>1. LocalOK(defs, instances, tasks, l)
    BY <1>1, Known
  <2>2. l.pc = "saveTask" => l.tid \in DOMAIN tasks /\ tasks[l.tid].inst = l.task.inst
    BY <2>1, Zenon DEF LocalOK, SameQuestion
  <2> QED
    BY <1>2, <1>3, <2>2
<1>6. l.pc = "create" => D[l.row.def].wf = defs[l.row.def].wf
  BY <1>2 DEF SameDefs
<1>7. l.pc \in {"advance", "assign", "saveCancel"} => I[l.id] = instances[l.id]
  BY <1>2, <1>3
<1>8. l.pc = "create" =>
          /\ "start" \in DOMAIN D[l.row.def].wf
          /\ l.goto = D[l.row.def].wf["start"].next
          /\ l.row.org = OrgOf[l.row.createdBy]
  BY <1>4, <1>6, Zenon DEF Faithful
<1>9. l.pc \in {"advance", "assign"} => l.row = I[l.id]
  BY <1>4, <1>7 DEF Faithful
<1>10. l.pc = "saveTask" =>
          /\ T[l.tid].status = "pending"
          /\ T[l.tid].org = OrgOf[T[l.tid].assignee]
          /\ l.task.status \in Decisions
          /\ l.task = [T[l.tid] EXCEPT !.status = l.task.status]
  BY <1>4, <1>5, Zenon DEF Faithful
<1>11. l.pc = "saveCancel" =>
          /\ I[l.id].status = "running"
          /\ l.row = Cancelled(I[l.id])
          /\ \E u \in Users : I[l.id].org = OrgOf[u] /\ MayCancel(u, I[l.id])
  <2>1. l.pc = "saveCancel" => I[l.id] = instances[l.id]
    BY <1>7
  <2> QED
    BY <1>4, <2>1, Zenon DEF Faithful
<1> QED
  BY <1>1, <1>8, <1>9, <1>10, <1>11, Zenon DEF Faithful

\* A step of p on instance j, which leaves what p holds faithful.
LEMMA FaithStep ==
    ASSUME IInv, OneInv, FaithInv, SameDefs(defs, defs'), NEW p \in Procs,
           \A q \in Procs : q # p => proc'[q] = proc[q],
           NEW j, j = Place(proc[p]) \/ j = Place(proc'[p]), Isolated',
           \A i \in DOMAIN instances : i # j => instances'[i] = instances[i],
           \A t \in DOMAIN tasks : tasks[t].inst # j => tasks'[t] = tasks[t],
           Faithful(defs', instances', tasks', proc'[p])
    PROVE  FaithInv'
<1> SUFFICES ASSUME NEW q \in Procs, q # p
             PROVE  Faithful(defs', instances', tasks', proc'[q])
  BY DEF FaithInv
<1>1. proc'[q] = proc[q] /\ Faithful(defs, instances, tasks, proc[q])
  BY DEF FaithInv
<1>2. Place(proc[q]) # 0 => Place(proc[q]) # j
  BY <1>1, PlaceOf DEF OneInv, Isolated
<1>3. Place(proc[q]) # 0 => Place(proc[q]) \in DOMAIN instances
  BY <1>1, Places DEF OneInv, Labels, Place, Onward
<1>4. Place(proc[q]) # 0 =>
         /\ instances'[Place(proc[q])] = instances[Place(proc[q])]
         /\ \A t \in DOMAIN tasks :
               tasks[t].inst = Place(proc[q]) => tasks'[t] = tasks[t]
  BY <1>2, <1>3
<1> QED
  BY <1>1, <1>4, FaithfulStays

LEMMA FaithIdle ==
    ASSUME NEW D, NEW I, NEW T
    PROVE  Faithful(D, I, T, Idle)
BY NewLocal DEF Faithful

-----------------------------------------------------------------------------
\* A step of p that touches no table.
LEMMA FaithMove ==
    ASSUME IInv, OneInv, FaithInv, Isolated', NEW p \in Procs, NEW l, Becomes(p, l),
           UNCHANGED <<defs, instances, tasks>>,
           Faithful(defs, instances, tasks, l)
    PROVE  FaithInv'
<1>1. proc'[p] = l /\ \A q \in Procs : q # p => proc'[q] = proc[q]
  BY BecomesAt
<1>2. SameDefs(defs, defs')
  BY SameTables
<1>3. Faithful(defs', instances', tasks', proc'[p])
  BY <1>1
<1>4. PICK j : j = Place(proc[p])
  OBVIOUS
<1> QED
  BY <1>1, <1>2, <1>3, <1>4, FaithStep

\* A step of p that writes the row of its instance.
LEMMA FaithWrite ==
    ASSUME IInv, OneInv, FaithInv, Isolated', NEW p \in Procs, NEW l, Becomes(p, l),
           NEW i \in DOMAIN instances, i = Place(proc[p]),
           NEW row, instances' = [instances EXCEPT ![i] = row],
           UNCHANGED <<defs, tasks>>,
           Faithful(defs, instances', tasks, l)
    PROVE  FaithInv'
<1>1. proc'[p] = l /\ \A q \in Procs : q # p => proc'[q] = proc[q]
  BY BecomesAt
<1>2. SameDefs(defs, defs')
  BY SameTables
<1>3. Faithful(defs', instances', tasks', proc'[p])
  BY <1>1
<1>4. \A k \in DOMAIN instances : k # i => instances'[k] = instances[k]
  BY DEF IInv, TypeOK
<1> QED
  BY <1>1, <1>2, <1>3, <1>4, FaithStep

LEMMA CatalogueFaith ==
    ASSUME IInv, FaithInv, Careful, UNCHANGED <<instances, tasks, proc>>
    PROVE  FaithInv'
<1>1. SameDefs(defs, defs')
  BY DEF Careful
<1>2. \A p \in Procs : Faithful(defs', instances', tasks', proc[p])
  BY <1>1, FaithfulStays DEF FaithInv
<1> QED
  BY <1>2 DEF FaithInv

\* What a goroutine that is about to create an instance holds.
FirstRow(u, d, v) == [org |-> OrgOf[u], def |-> d, status |-> "running",
                      step |-> "start", vars |-> v, createdBy |-> u,
                      completed |-> FALSE]

LEMMA FirstRowIs ==
    ASSUME NEW u, NEW d, NEW v
    PROVE  LET row == FirstRow(u, d, v)
           IN  row.def = d /\ row.org = OrgOf[u] /\ row.createdBy = u
BY DEF FirstRow

LEMMA StartLoadFaith ==
    ASSUME IInv, OneInv, FaithInv, Isolated',
           NEW p \in Procs, NEW u \in Users, NEW d \in DOMAIN defs,
           NEW v \in Vars, StartLoad(p, u, d, v)
    PROVE  FaithInv'
<1> DEFINE wf == defs[d].wf
           row == FirstRow(u, d, v)
           l == OnInstance("create", 0, row, wf["start"].next)
<1>1. /\ "start" \in DOMAIN wf /\ Becomes(p, l)
      /\ UNCHANGED <<defs, instances, tasks>>
  BY DEF StartLoad, StartStep, FirstRow
<1>2. row.def = d /\ row.org = OrgOf[u] /\ row.createdBy = u
  BY FirstRowIs
<1> HIDE DEF row
<1>3. l.pc = "create" /\ l.goto = wf["start"].next /\ l.row = row
  BY NewLocal
<1> HIDE DEF l
<1>4. Faithful(defs, instances, tasks, l)
  BY <1>1, <1>2, <1>3 DEF Faithful
<1> QED
  BY <1>1, <1>4, FaithMove

LEMMA StartCreateFaith ==
    ASSUME IInv, OneInv, FaithInv, Isolated', NEW p \in Procs, StartCreate(p)
    PROVE  FaithInv'
<1> DEFINE i == Len(instances) + 1
           l == OnInstance("advance", i, proc[p].row, proc[p].goto)
<1>1. /\ proc[p].pc = "create" /\ instances' = Append(instances, proc[p].row)
      /\ Becomes(p, l) /\ UNCHANGED <<defs, tasks>>
  BY DEF StartCreate, At
<1>2. instances \in Seq(InstanceRow) /\ proc[p].row \in InstanceRow
  BY <1>1, Known DEF IInv, TypeOK, LocalOK
<1>3. /\ \A k \in DOMAIN instances : instances'[k] = instances[k]
      /\ instances'[i] = proc[p].row
  BY <1>1, <1>2, AppendRow
<1> HIDE DEF i
<1>4. l.pc = "advance" /\ l.id = i /\ l.row = proc[p].row
  BY NewLocal
<1> HIDE DEF l
<1>5. Faithful(defs, instances', tasks, l)
  BY <1>3, <1>4 DEF Faithful
<1>6. proc'[p] = l /\ \A q \in Procs : q # p => proc'[q] = proc[q]
  BY <1>1, BecomesAt
<1>7. SameDefs(defs, defs')
  BY <1>1, SameTables
<1>8. Faithful(defs', instances', tasks', proc'[p])
  BY <1>1, <1>5, <1>6
<1>9. PICK j : j = Place(proc[p])
  OBVIOUS
<1> QED
  BY <1>1, <1>3, <1>6, <1>7, <1>8, <1>9, FaithStep

\* A step of advance that goes on: the row it saves is the row it keeps.
LEMMA AdvanceFaith ==
    ASSUME IInv, OneInv, FaithInv, Isolated', NEW p \in Procs, At(p, "advance"),
           Save(p, Entered(p)), UNCHANGED <<defs, tasks>>,
           NEW label \in {"advance", "assign"}, NEW goto,
           Becomes(p, OnInstance(label, proc[p].id, Entered(p), goto))
    PROVE  FaithInv'
<1> DEFINE i == proc[p].id
           l == OnInstance(label, i, Entered(p), goto)
<1>1. i \in DOMAIN instances /\ Place(proc[p]) = i
  BY Advancing
<1>2. l.pc = label /\ l.id = i /\ l.row = Entered(p)
  BY NewLocal
<1>3. Becomes(p, l) /\ instances' = [instances EXCEPT ![i] = Entered(p)]
  BY DEF Save
<1> HIDE DEF l, i
<1>4. instances'[i] = Entered(p)
  BY <1>1, <1>3 DEF IInv, TypeOK
<1>5. Faithful(defs, instances', tasks, l)
  BY <1>2, <1>4 DEF Faithful
<1> QED
  BY <1>1, <1>3, <1>5, FaithWrite

\* A goroutine that writes the row of its instance and returns.
LEMMA CloseFaith ==
    ASSUME IInv, OneInv, FaithInv, Isolated', NEW p \in Procs, NEW row, Save(p, row),
           Return(p), UNCHANGED <<defs, tasks>>,
           proc[p].id \in DOMAIN instances, Place(proc[p]) = proc[p].id
    PROVE  FaithInv'
<1>1. Faithful(defs, instances', tasks, Idle)
  BY FaithIdle
<1>2. PICK i \in DOMAIN instances : i = proc[p].id
  OBVIOUS
<1>3. Becomes(p, Idle) /\ instances' = [instances EXCEPT ![i] = row] /\ i = Place(proc[p])
  BY <1>2 DEF Return, Save
<1> QED
  BY <1>1, <1>2, <1>3, FaithWrite

LEMMA ReturnFaith ==
    ASSUME IInv, OneInv, FaithInv, Isolated', NEW p \in Procs, Return(p),
           UNCHANGED <<defs, instances, tasks>>
    PROVE  FaithInv'
<1>1. Becomes(p, Idle) /\ Faithful(defs, instances, tasks, Idle)
  BY FaithIdle DEF Return
<1> QED
  BY <1>1, FaithMove

LEMMA CreateTaskFaith ==
    ASSUME IInv, OneInv, FaithInv, Isolated', NEW p \in Procs, CreateTask(p)
    PROVE  FaithInv'
<1> DEFINE new == [org |-> proc[p].row.org, inst |-> proc[p].id, step |-> proc[p].goto,
                   assignee |-> Assignee(p).value, status |-> "pending"]
<1>1. /\ proc[p].pc = "assign" /\ tasks' = Append(tasks, new) /\ Becomes(p, Idle)
      /\ UNCHANGED <<defs, instances>>
  BY DEF CreateTask, At, Return
<1> HIDE DEF new
<1>2. \A t \in DOMAIN tasks : tasks'[t] = tasks[t]
  BY <1>1 DEF IInv, TypeOK
<1>3. proc'[p] = Idle /\ \A q \in Procs : q # p => proc'[q] = proc[q]
  BY <1>1, BecomesAt
<1>4. SameDefs(defs, defs')
  BY <1>1, SameTables
<1>5. Faithful(defs', instances', tasks', proc'[p])
  BY <1>3, FaithIdle
<1>6. PICK j : j = Place(proc[p])
  OBVIOUS
<1> QED
  BY <1>1, <1>2, <1>3, <1>4, <1>5, <1>6, FaithStep

LEMMA ActLoadFaith ==
    ASSUME IInv, OneInv, FaithInv, Isolated', NEW p \in Procs, NEW u \in Users,
           NEW t \in DOMAIN tasks, NEW decision \in Decisions,
           ActLoad(p, u, t, decision)
    PROVE  FaithInv'
<1> DEFINE task == [tasks[t] EXCEPT !.status = decision]
           l == OnTask("saveTask", t, task)
<1>1. /\ tasks[t].status = "pending" /\ tasks[t].org = OrgOf[u] /\ tasks[t].assignee = u
      /\ Becomes(p, l) /\ UNCHANGED <<defs, instances, tasks>>
  BY DEF ActLoad
<1>2. task.status = decision
  <2>1. tasks[t] \in TaskRow
    BY Known
  <2>2. \A r \in TaskRow : [r EXCEPT !.status = decision].status = decision
    BY DEF TaskRow
  <2> QED
    BY <2>1, <2>2
<1>3. task = [tasks[t] EXCEPT !.status = task.status]
  BY <1>2
<1> HIDE DEF task
<1>4. l.pc = "saveTask" /\ l.tid = t /\ l.task = task
  BY NewLocal
<1> HIDE DEF l
<1>5. l.pc \notin {"create", "advance", "assign", "saveCancel"}
  BY <1>4
<1>6. /\ tasks[l.tid].status = "pending"
      /\ tasks[l.tid].org = OrgOf[tasks[l.tid].assignee]
      /\ l.task.status \in Decisions
  BY <1>1, <1>2, <1>4
<1>7. l.task = [tasks[l.tid] EXCEPT !.status = l.task.status]
  BY <1>3, <1>4, Zenon
<1>8. Faithful(defs, instances, tasks, l)
  BY <1>5, <1>6, <1>7, Zenon DEF Faithful
<1> QED
  BY <1>1, <1>8, FaithMove

\* The task a decision is written to, and what is written.
LEMMA Deciders ==
    ASSUME IInv, NEW p \in Procs, At(p, "saveTask")
    PROVE  /\ proc[p].tid \in DOMAIN tasks /\ proc[p].task \in TaskRow
           /\ SameQuestion(proc[p].task, tasks[proc[p].tid])
           /\ proc[p].task.inst = Place(proc[p])
           /\ tasks[proc[p].tid].inst = Place(proc[p])
           /\ Place(proc[p]) \in DOMAIN instances
<1>1. LocalOK(defs, instances, tasks, proc[p]) /\ proc[p].pc = "saveTask"
  BY Known DEF At
<1>2. /\ proc[p].tid \in DOMAIN tasks /\ proc[p].task \in TaskRow
      /\ SameQuestion(proc[p].task, tasks[proc[p].tid])
  BY <1>1, Zenon DEF LocalOK
<1>3. proc[p].task.inst = Place(proc[p]) /\ tasks[proc[p].tid].inst = Place(proc[p])
  BY <1>1, <1>2 DEF Place, SameQuestion
<1>4. Place(proc[p]) \in DOMAIN instances
  BY <1>1, <1>3, Places
<1> QED
  BY <1>2, <1>3, <1>4

LEMMA ActSaveFaith ==
    ASSUME IInv, OneInv, FaithInv, Isolated', NEW p \in Procs, ActSave(p)
    PROVE  FaithInv'
<1> DEFINE l == OnTask("loadInstance", proc[p].tid, proc[p].task)
<1>1. /\ At(p, "saveTask") /\ tasks' = [tasks EXCEPT ![proc[p].tid] = proc[p].task]
      /\ Becomes(p, l) /\ UNCHANGED <<defs, instances>>
  BY DEF ActSave
<1>2. PICK t, j : t = proc[p].tid /\ j = Place(proc[p])
  OBVIOUS
<1>3. t \in DOMAIN tasks /\ tasks[t].inst = j
  BY <1>1, <1>2, Deciders
<1>4. \A k \in DOMAIN tasks : k # t => tasks'[k] = tasks[k]
  BY <1>1, <1>2 DEF IInv, TypeOK
<1>5. \A k \in DOMAIN tasks : tasks[k].inst # j => tasks'[k] = tasks[k]
  BY <1>3, <1>4
<1>6. l.pc = "loadInstance"
  BY NewLocal
<1> HIDE DEF l
<1>7. proc'[p] = l /\ \A q \in Procs : q # p => proc'[q] = proc[q]
  BY <1>1, BecomesAt
<1>8. Faithful(defs', instances', tasks', proc'[p])
  BY <1>6, <1>7 DEF Faithful
<1>9. SameDefs(defs, defs')
  BY <1>1, SameTables
<1> QED
  BY <1>1, <1>2, <1>5, <1>7, <1>8, <1>9, FaithStep

LEMMA ActRouteFaith ==
    ASSUME IInv, OneInv, FaithInv, Isolated', NEW p \in Procs, ActRoute(p)
    PROVE  FaithInv'
<1> DEFINE j == proc[p].task.inst
           l == OnInstance("advance", j, instances[j], NextStep(p))
<1>1. Becomes(p, l) /\ UNCHANGED <<defs, instances, tasks>>
  BY DEF ActRoute, Loaded
<1>2. l.pc = "advance" /\ l.id = j /\ l.row = instances[j]
  BY NewLocal
<1> HIDE DEF l, j
<1>3. Faithful(defs, instances, tasks, l)
  BY <1>2 DEF Faithful
<1> QED
  BY <1>1, <1>3, FaithMove

LEMMA CancelLoadFaith ==
    ASSUME IInv, OneInv, FaithInv, Isolated', NEW p \in Procs, NEW u \in Users,
           NEW i \in DOMAIN instances, CancelLoad(p, u, i)
    PROVE  FaithInv'
<1> DEFINE l == OnInstance("saveCancel", i, Cancelled(instances[i]), NoGoto)
<1>1. /\ Becomes(p, l) /\ UNCHANGED <<defs, instances, tasks>>
      /\ instances[i].status = "running"
      /\ instances[i].org = OrgOf[u] /\ MayCancel(u, instances[i])
  BY DEF CancelLoad
<1>2. l.pc = "saveCancel" /\ l.id = i /\ l.row = Cancelled(instances[i])
  BY NewLocal
<1> HIDE DEF l
<1>3. Faithful(defs, instances, tasks, l)
  BY <1>1, <1>2 DEF Faithful
<1> QED
  BY <1>1, <1>3, FaithMove

LEMMA NextFaith ==
    ASSUME ~Faults, IInv, OneInv, FaithInv, Next, Isolated'
    PROVE  FaithInv'
<1>1. CASE Catalogue
  <2>1. UNCHANGED <<instances, tasks, proc>>
    BY <1>1 DEF Catalogue, Define, Archive
  <2> QED
    BY <2>1, NextIsCareful, CatalogueFaith
<1>2. ASSUME NEW p \in Procs, Request(p)
      PROVE  FaithInv'
  BY <1>2, StartLoadFaith, ActLoadFaith, CancelLoadFaith DEF Request
<1>3. ASSUME NEW p \in Procs, Continue(p)
      PROVE  FaithInv'
  <2>1. CASE StartCreate(p)
    BY <2>1, StartCreateFaith
  <2>2. CASE AdvanceStart(p)
    BY <2>2, AdvanceFaith DEF AdvanceStart, Reaches
  <2>3. CASE AdvanceCondition(p)
    BY <2>3, AdvanceFaith DEF AdvanceCondition, Reaches
  <2>4. CASE AdvanceApproval(p)
    BY <2>4, AdvanceFaith DEF AdvanceApproval, Reaches
  <2>5. CASE AdvanceEnd(p)
    BY <2>5, CloseFaith, Advancing DEF AdvanceEnd, Reaches
  <2>6. CASE CreateTask(p)
    BY <2>6, CreateTaskFaith
  <2>7. CASE AdvanceError(p) \/ AssignError(p) \/ ActStop(p)
    BY <2>7, ReturnFaith DEF AdvanceError, AssignError, ActStop
  <2>8. CASE ActSave(p)
    BY <2>8, ActSaveFaith
  <2>9. CASE ActRoute(p)
    BY <2>9, ActRouteFaith
  <2>10. CASE CancelSave(p)
    <3>1. proc[p].pc = "saveCancel"
      BY <2>10 DEF CancelSave, At
    <3>2. proc[p].id \in DOMAIN instances /\ Place(proc[p]) = proc[p].id
      BY <3>1, Places DEF Place
    <3> QED
      BY <2>10, <3>2, CloseFaith DEF CancelSave
  <2> QED
    BY <1>3, <2>1, <2>2, <2>3, <2>4, <2>5, <2>6, <2>7, <2>8, <2>9, <2>10 DEF Continue
<1>4. \A p \in Procs : ~Fail(p)
  BY DEF Fail
<1> QED
  BY <1>1, <1>2, <1>3, <1>4 DEF Next

LEMMA InitFaith == Init => FaithInv
BY FaithIdle DEF Init, FaithInv

-----------------------------------------------------------------------------
(***************************************************************************)
(* The mapping, over any tables D, I, T and locals P of the goroutines:    *)
(* what is kept of instance i, and what it is seen as while a goroutine    *)
(* with locals l is at work on it.                                         *)
(***************************************************************************)
Kept(I, T, i) == [row |-> I[i], tasks |-> History(T, i)]

Answer(D, I, l) == Branch(D[I[l.task.inst].def].wf[l.task.step], l.task.status)

Seen(D, I, T, l, i) ==
    CASE l.pc = "advance" -> Settle(D[l.row.def].wf, i, Kept(I, T, i), l.goto)
      [] l.pc = "assign" ->
           [Kept(I, T, i) EXCEPT !.tasks = Append(@, Ask(
               l.row, i, l.goto, D[l.row.def].wf[l.goto].assignee.value))]
      [] l.pc = "loadInstance" /\ I[i].status = "running" ->
           Settle(D[I[i].def].wf, i, Kept(I, T, i), Answer(D, I, l))
      [] OTHER -> Kept(I, T, i)

Those(P, i) == {p \in Procs : Place(P[p]) = i}

ViewsOf(D, I, T, P) ==
    [i \in DOMAIN I |-> IF Those(P, i) = {} THEN Kept(I, T, i)
                        ELSE Seen(D, I, T, P[CHOOSE p \in Those(P, i) : TRUE], i)]

LEMMA MappingIs ==
    /\ Views = ViewsOf(defs, instances, tasks, proc)
    /\ Views' = ViewsOf(defs', instances', tasks', proc')
BY Zenon DEF Views, ViewsOf, Stored, Kept, TasksOf, History, Counts, Among, Workers,
             InstanceOf, Those, Place, InFlight, Seen, At, WfOf, NextStep, Loaded,
             Assignee, Target, Answer

\* The forms of a view.
Asked(D, I, T, l, i) ==
    [Kept(I, T, i) EXCEPT !.tasks = Append(@, Ask(
        l.row, i, l.goto, D[l.row.def].wf[l.goto].assignee.value))]

LEMMA SeenAdvance ==
    ASSUME NEW D, NEW I, NEW T, NEW l, NEW i, l.pc = "advance"
    PROVE  Seen(D, I, T, l, i) = Settle(D[l.row.def].wf, i, Kept(I, T, i), l.goto)
BY DEF Seen

LEMMA SeenAssign ==
    ASSUME NEW D, NEW I, NEW T, NEW l, NEW i, l.pc = "assign"
    PROVE  Seen(D, I, T, l, i) = Asked(D, I, T, l, i)
BY DEF Seen, Asked

LEMMA SeenRoute ==
    ASSUME NEW D, NEW I, NEW T, NEW l, NEW i,
           l.pc = "loadInstance", I[i].status = "running"
    PROVE  Seen(D, I, T, l, i) =
              Settle(D[I[i].def].wf, i, Kept(I, T, i), Answer(D, I, l))
BY DEF Seen

LEMMA SeenKept ==
    ASSUME NEW D, NEW I, NEW T, NEW l, NEW i, l.pc \notin {"advance", "assign"},
           l.pc = "loadInstance" => I[i].status # "running"
    PROVE  Seen(D, I, T, l, i) = Kept(I, T, i)
BY DEF Seen

\* With at most one goroutine at work on i, its locals tell.
LEMMA ViewKept ==
    ASSUME NEW D, NEW I, NEW T, NEW P, NEW i \in DOMAIN I,
           \A q \in Procs : Place(P[q]) # i
    PROVE  ViewsOf(D, I, T, P)[i] = Kept(I, T, i)
<1>1. Those(P, i) = {}
  BY Zenon DEF Those
<1> QED
  BY <1>1, Zenon DEF ViewsOf

LEMMA ViewSeen ==
    ASSUME NEW D, NEW I, NEW T, NEW P, NEW i \in DOMAIN I, NEW p \in Procs,
           Place(P[p]) = i, \A q \in Procs : Place(P[q]) = i => q = p
    PROVE  ViewsOf(D, I, T, P)[i] = Seen(D, I, T, P[p], i)
<1>1. Those(P, i) = {p}
  BY DEF Those
<1>2. Those(P, i) # {} /\ (CHOOSE q \in Those(P, i) : TRUE) = p
  BY <1>1
<1>3. ViewsOf(D, I, T, P)[i] =
         IF Those(P, i) = {} THEN Kept(I, T, i)
         ELSE Seen(D, I, T, P[CHOOSE q \in Those(P, i) : TRUE], i)
  BY Zenon DEF ViewsOf
<1> QED
  BY <1>2, <1>3, Zenon

\* What a goroutine is doing when it works on no instance.
LEMMA AtWork ==
    ASSUME IInv, OneInv, NEW p \in Procs, Place(proc[p]) = 0
    PROVE  proc[p].pc \in {"idle", "create"}
BY Places DEF Place, Labels

\* An instance is seen by what the goroutine at work on it holds, or one that
\* works on none.
LEMMA ViewAt ==
    ASSUME NEW D, NEW I, NEW T, NEW P, NEW i \in DOMAIN I, NEW p \in Procs,
           \A q \in Procs : q # p => Place(P[q]) # i,
           Place(P[p]) = i \/ P[p].pc \notin {"advance", "assign", "loadInstance"}
    PROVE  ViewsOf(D, I, T, P)[i] = Seen(D, I, T, P[p], i)
<1>1. CASE Place(P[p]) = i
  <2>1. \A q \in Procs : Place(P[q]) = i => q = p
    OBVIOUS
  <2> QED
    BY <1>1, <2>1, ViewSeen
<1>2. CASE Place(P[p]) # i
  <2>1. \A q \in Procs : Place(P[q]) # i
    BY <1>2
  <2>2. ViewsOf(D, I, T, P)[i] = Kept(I, T, i)
    BY <2>1, ViewKept
  <2>3. PICK l : l = P[p]
    OBVIOUS
  <2>4. Seen(D, I, T, l, i) = Kept(I, T, i)
    BY <1>2, <2>3, SeenKept
  <2> QED
    BY <2>2, <2>3, <2>4
<1> QED
  BY <1>1, <1>2

\* A step elsewhere does not change how an instance is seen.
LEMMA SeenSame ==
    ASSUME IInv, NEW q \in Procs, NEW i \in DOMAIN instances, Place(proc[q]) = i,
           NEW D, SameDefs(defs, D), NEW I, I[i] = instances[i],
           NEW T, History(T, i) = History(tasks, i)
    PROVE  Seen(D, I, T, proc[q], i) = Seen(defs, instances, tasks, proc[q], i)
<1>1. PICK l : l = proc[q]
  OBVIOUS
<1>2. /\ l.pc \in Labels
      /\ l.pc = "advance" \/ l.pc = "assign" => l.row.def \in DOMAIN defs
      /\ l.pc = "loadInstance" => l.task.inst = i
      /\ i # 0
  <2>1. LocalOK(defs, instances, tasks, l)
    BY <1>1, Known
  <2>2. l.pc = "advance" \/ l.pc = "assign" => Copy(defs, instances, l)
    BY <2>1, Zenon DEF LocalOK
  <2>3. l.pc = "loadInstance" => l.task.inst = i
    BY <1>1 DEF Place
  <2> QED
    BY <1>1, <2>2, <2>3, Places DEF Copy, Coherent
<1>3. instances[i].def \in DOMAIN defs
  BY DEF IInv, RowsCoherent, Coherent
<1>4. \A d \in DOMAIN defs : D[d].wf = defs[d].wf
  BY DEF SameDefs
<1>5. Kept(I, T, i) = Kept(instances, tasks, i)
  BY Zenon DEF Kept
<1>6. CASE l.pc = "advance"
  <2>1. D[l.row.def].wf = defs[l.row.def].wf
    BY <1>2, <1>4, <1>6
  <2> QED
    BY <1>1, <1>5, <1>6, <2>1, SeenAdvance
<1>7. CASE l.pc = "assign"
  <2>1. D[l.row.def].wf = defs[l.row.def].wf
    BY <1>2, <1>4, <1>7
  <2>2. Asked(D, I, T, l, i) = Asked(defs, instances, tasks, l, i)
    BY <1>5, <2>1, Zenon DEF Asked
  <2> QED
    BY <1>1, <1>7, <2>2, SeenAssign
<1>8. CASE l.pc = "loadInstance"
  <2>1. D[I[i].def].wf = defs[instances[i].def].wf
    BY <1>3, <1>4
  <2>2. Answer(D, I, l) = Answer(defs, instances, l)
    BY <1>2, <1>8, <2>1, Zenon DEF Answer
  <2>3. CASE instances[i].status = "running"
    BY <1>1, <1>5, <1>8, <2>1, <2>2, <2>3, SeenRoute
  <2>4. CASE instances[i].status # "running"
    BY <1>1, <1>5, <1>8, <2>4, SeenKept
  <2> QED
    BY <2>3, <2>4
<1>9. CASE l.pc \notin {"advance", "assign", "loadInstance"}
  BY <1>1, <1>5, <1>9, SeenKept
<1> QED
  BY <1>6, <1>7, <1>8, <1>9

\* Nor what it is mapped to.
LEMMA ViewSame ==
    ASSUME IInv, OneInv, NEW i \in DOMAIN instances,
           NEW D, SameDefs(defs, D), NEW I, i \in DOMAIN I, I[i] = instances[i],
           NEW T, History(T, i) = History(tasks, i), NEW P,
           \A q \in Procs : Place(proc[q]) = i \/ Place(P[q]) = i => P[q] = proc[q]
    PROVE  ViewsOf(D, I, T, P)[i] = Views[i]
<1>1. \A p, q \in Procs : Place(proc[p]) = i /\ Place(proc[q]) = i => p = q
  <2>1. i # 0
    BY Places DEF IInv, TypeOK
  <2> QED
    BY <2>1, PlaceOf DEF OneInv, Isolated
<1>2. CASE \A q \in Procs : Place(proc[q]) # i
  <2>1. \A q \in Procs : Place(P[q]) # i
    BY <1>2
  <2>2. Kept(I, T, i) = Kept(instances, tasks, i)
    BY Zenon DEF Kept
  <2>3. ViewsOf(D, I, T, P)[i] = Kept(I, T, i)
    BY <2>1, ViewKept
  <2>4. ViewsOf(defs, instances, tasks, proc)[i] = Kept(instances, tasks, i)
    BY <1>2, ViewKept
  <2> QED
    BY <2>2, <2>3, <2>4, MappingIs, Zenon
<1>3. ASSUME NEW p \in Procs, Place(proc[p]) = i
      PROVE  ViewsOf(D, I, T, P)[i] = Views[i]
  <2>1. P[p] = proc[p]
    BY <1>3
  <2>2. \A q \in Procs : Place(P[q]) = i => q = p
    BY <1>1, <1>3
  <2>3. ViewsOf(D, I, T, P)[i] = Seen(D, I, T, proc[p], i)
    <3>1. Place(P[p]) = i
      BY <1>3, <2>1
    <3> QED
      BY <2>1, <2>2, <3>1, ViewSeen
  <2>4. ViewsOf(defs, instances, tasks, proc)[i] = Seen(defs, instances, tasks, proc[p], i)
    BY <1>1, <1>3, ViewSeen
  <2>5. Seen(D, I, T, proc[p], i) = Seen(defs, instances, tasks, proc[p], i)
    BY <1>3, SeenSame
  <2> QED
    BY <2>3, <2>4, <2>5, MappingIs, Zenon
<1> QED
  BY <1>2, <1>3

-----------------------------------------------------------------------------
\* A step of p at instance j changes how j is seen, and nothing else.
LEMMA StepSeen ==
    ASSUME IInv, OneInv, SameDefs(defs, defs'), Isolated', NEW p \in Procs,
           NEW l, proc'[p] = l, \A q \in Procs : q # p => proc'[q] = proc[q],
           NEW j \in DOMAIN instances, j = Place(proc[p]) \/ j = Place(l),
           Place(proc[p]) \in {0, j}, Place(l) \in {0, j},
           Place(l) = j \/ l.pc = "idle",
           DOMAIN instances' = DOMAIN instances,
           \A i \in DOMAIN instances : i # j => instances'[i] = instances[i],
           \A i \in DOMAIN instances : i # j => History(tasks', i) = History(tasks, i)
    PROVE  /\ Views[j] = Seen(defs, instances, tasks, proc[p], j)
           /\ Views'[j] = Seen(defs', instances', tasks', l, j)
           /\ \A i \in DOMAIN instances : i # j => Views'[i] = Views[i]
<1>1. j # 0 /\ 0 \notin DOMAIN instances
  BY Places
<1>2. \A q \in Procs : q # p => Place(proc[q]) # j
  BY <1>1, PlaceOf DEF OneInv, Isolated
<1>3. \A q \in Procs : q # p => Place(proc'[q]) # j
  BY <1>2
<1>4. Views[j] = Seen(defs, instances, tasks, proc[p], j)
  <2>1. Place(proc[p]) = j \/ proc[p].pc \notin {"advance", "assign", "loadInstance"}
    BY AtWork
  <2>2. ViewsOf(defs, instances, tasks, proc)[j] = Seen(defs, instances, tasks, proc[p], j)
    BY <1>2, <2>1, ViewAt
  <2> QED
    BY <2>2, MappingIs, Zenon
<1>5. Views'[j] = Seen(defs', instances', tasks', l, j)
  <2>1. PICK P, I : P = proc' /\ I = instances'
    OBVIOUS
  <2>2. /\ \A q \in Procs : q # p => Place(P[q]) # j
        /\ Place(P[p]) = j \/ P[p].pc \notin {"advance", "assign", "loadInstance"}
        /\ j \in DOMAIN I
    BY <1>3, <2>1
  <2>3. ViewsOf(defs', I, tasks', P)[j] = Seen(defs', I, tasks', P[p], j)
    BY <2>2, ViewAt
  <2> QED
    BY <2>1, <2>3, MappingIs, Zenon
<1>6. ASSUME NEW i \in DOMAIN instances, i # j
      PROVE  Views'[i] = Views[i]
  <2>1. PICK P, I, T, D : P = proc' /\ I = instances' /\ T = tasks' /\ D = defs'
    OBVIOUS
  <2>2. /\ i \in DOMAIN I /\ I[i] = instances[i] /\ History(T, i) = History(tasks, i)
        /\ SameDefs(defs, D)
    BY <1>6, <2>1
  <2>3. \A q \in Procs : Place(proc[q]) = i \/ Place(P[q]) = i => P[q] = proc[q]
    BY <1>1, <1>6, <2>1
  <2>4. ViewsOf(D, I, T, P)[i] = Views[i]
    BY <2>2, <2>3, ViewSame
  <2> QED
    BY <2>1, <2>4, MappingIs, Zenon
<1> QED
  BY <1>4, <1>5, <1>6

\* Views is a function on the instances.
LEMMA ViewsDomain ==
    /\ Views = [i \in DOMAIN instances |-> Views[i]]
    /\ Views' = [i \in DOMAIN instances' |-> Views'[i]]
<1>1. PICK V, W, J : V = Views /\ W = Views' /\ J = instances'
  OBVIOUS
<1>2. V = [i \in DOMAIN instances |-> V[i]]
  <2>1. V = ViewsOf(defs, instances, tasks, proc)
    BY <1>1, MappingIs, Zenon
  <2> QED
    BY <2>1 DEF ViewsOf
<1>3. W = [i \in DOMAIN J |-> W[i]]
  <2>1. PICK D, T, P : D = defs' /\ T = tasks' /\ P = proc'
    OBVIOUS
  <2>2. W = ViewsOf(D, J, T, P)
    BY <1>1, <2>1, MappingIs, Zenon
  <2> QED
    BY <2>2 DEF ViewsOf
<1> QED
  BY <1>1, <1>2, <1>3, Zenon

\* A step that leaves how j is seen is a stutter; one that does not changes the
\* view of j only.
LEMMA StutterAt ==
    ASSUME NEW j \in DOMAIN instances, DOMAIN instances' = DOMAIN instances,
           Views'[j] = Views[j],
           \A i \in DOMAIN instances : i # j => Views'[i] = Views[i]
    PROVE  Views' = Views
<1>1. PICK V, W : V = Views /\ W = Views'
  OBVIOUS
<1>2. PICK S : S = DOMAIN instances
  OBVIOUS
<1>3. V = [i \in S |-> V[i]] /\ W = [i \in S |-> W[i]]
  BY <1>1, <1>2, ViewsDomain, Zenon
<1>4. \A i \in S : W[i] = V[i]
  BY <1>1, <1>2
<1>5. W = V
  BY <1>3, <1>4
<1> QED
  BY <1>1, <1>5

LEMMA ChangeAt ==
    ASSUME NEW j \in DOMAIN instances, DOMAIN instances' = DOMAIN instances,
           \A i \in DOMAIN instances : i # j => Views'[i] = Views[i]
    PROVE  Views' = [Views EXCEPT ![j] = Views'[j]]
<1>1. PICK V, W : V = Views /\ W = Views'
  OBVIOUS
<1>2. PICK S : S = DOMAIN instances
  OBVIOUS
<1>3. V = [i \in S |-> V[i]] /\ W = [i \in S |-> W[i]]
  BY <1>1, <1>2, ViewsDomain, Zenon
<1>4. \A i \in S : i # j => W[i] = V[i]
  BY <1>1, <1>2
<1>5. W = [V EXCEPT ![j] = W[j]]
  BY <1>2, <1>3, <1>4
<1> QED
  BY <1>1, <1>5, Zenon

\* A step of p that touches no instance.
LEMMA StepNowhere ==
    ASSUME IInv, OneInv, Isolated', NEW p \in Procs, NEW l, Becomes(p, l),
           UNCHANGED <<defs, instances, tasks>>,
           Place(proc[p]) = 0, Place(l) = 0
    PROVE  Views' = Views
<1>1. proc'[p] = l /\ \A q \in Procs : q # p => proc'[q] = proc[q]
  BY BecomesAt
<1>2. SameDefs(defs, defs')
  BY SameTables
<1>3. 0 \notin DOMAIN instances
  BY Places
<1>4. ASSUME NEW i \in DOMAIN instances
      PROVE  Views'[i] = Views[i]
  <2>1. PICK P : P = proc'
    OBVIOUS
  <2>2. \A q \in Procs : Place(proc[q]) = i \/ Place(P[q]) = i => P[q] = proc[q]
    BY <1>1, <1>3, <2>1
  <2>3. SameDefs(defs, defs)
    BY DEF SameDefs
  <2>4. ViewsOf(defs, instances, tasks, P)[i] = Views[i]
    BY <2>2, <2>3, ViewSame
  <2> QED
    BY <2>1, <2>4, MappingIs, Zenon
<1>5. PICK V, W, S : V = Views /\ W = Views' /\ S = DOMAIN instances
  OBVIOUS
<1>6. V = [i \in S |-> V[i]] /\ W = [i \in S |-> W[i]]
  BY <1>5, ViewsDomain, Zenon
<1>7. \A i \in S : W[i] = V[i]
  BY <1>4, <1>5
<1>8. W = V
  BY <1>6, <1>7
<1> QED
  BY <1>5, <1>8

-----------------------------------------------------------------------------
(***************************************************************************)
(* Settle, and the steps of a call after its first write: none changes how *)
(* its instance is seen.                                                   *)
(***************************************************************************)
Moved(row, n) == [row EXCEPT !.step = n]

LEMMA MovedIs ==
    ASSUME NEW row \in InstanceRow, NEW g, NEW n
    PROVE  /\ Moved(Moved(row, g), n) = Moved(row, n)
           /\ Moved(row, g).org = row.org /\ Moved(row, g).vars = row.vars
           /\ Moved(row, g).def = row.def
BY DEF Moved, InstanceRow

Rested(wf, i, row, H, n) ==
    IF wf[n].type = "end"
    THEN [row |-> Closed(Moved(row, n), wf[n].result), tasks |-> H]
    ELSE [row |-> Moved(row, n),
          tasks |-> Append(H, Ask(row, i, n, wf[n].assignee.value))]

\* Where the row stands before it settles makes no difference.
LEMMA SettleIs ==
    ASSUME NEW wf, NEW i, NEW row, NEW H, NEW g,
           NEW base \in InstanceRow, row = base \/ \E m : row = Moved(base, m)
    PROVE  Settle(wf, i, [row |-> row, tasks |-> H], g) =
              Rested(wf, i, base, H, Rest(wf, base.vars, g))
<1>1. PICK view : view = [row |-> row, tasks |-> H]
  OBVIOUS
<1>2. view.row = row /\ view.tasks = H
  BY <1>1
<1>3. PICK n : n = Rest(wf, base.vars, g)
  OBVIOUS
<1>4. \A m : row = Moved(base, m) =>
         Moved(row, n) = Moved(base, n) /\ row.vars = base.vars
  BY MovedIs
<1>5. Moved(row, n) = Moved(base, n) /\ row.vars = base.vars
  BY <1>4
<1>6. PICK next : next = Moved(base, n)
  OBVIOUS
<1>7. Settle(wf, i, view, g) =
         IF wf[n].type = "end"
         THEN [view EXCEPT !.row = Closed(next, wf[n].result)]
         ELSE [row |-> next,
               tasks |-> Append(view.tasks, Ask(next, i, n, wf[n].assignee.value))]
  <2>1. Rest(wf, view.row.vars, g) = n /\ Moved(view.row, n) = next
    BY <1>2, <1>3, <1>5, <1>6
  <2> QED
    BY <2>1, Zenon DEF Settle, Moved, Closed
<1>8. \A x : [view EXCEPT !.row = x] = [row |-> x, tasks |-> H]
  BY <1>1
<1>9. Ask(next, i, n, wf[n].assignee.value) = Ask(base, i, n, wf[n].assignee.value)
  <2>1. next.org = base.org
    BY <1>6, MovedIs
  <2> QED
    BY <2>1 DEF Ask
<1>10. CASE wf[n].type = "end"
  <2>1. Settle(wf, i, view, g) = [row |-> Closed(next, wf[n].result), tasks |-> H]
    BY <1>7, <1>8, <1>10, Zenon
  <2> QED
    BY <1>1, <1>3, <1>6, <1>10, <2>1, Zenon DEF Rested
<1>11. CASE wf[n].type # "end"
  <2>1. Settle(wf, i, view, g) =
           [row |-> next, tasks |-> Append(H, Ask(base, i, n, wf[n].assignee.value))]
    BY <1>2, <1>7, <1>9, <1>11, Zenon
  <2> QED
    BY <1>1, <1>3, <1>6, <1>11, <2>1, Zenon DEF Rested
<1> QED
  BY <1>10, <1>11

\* The steps an instance moves on from lead to steps.
LEMMA OntoSteps ==
    ASSUME NEW wf \in Payloads, ValidateDefinition(wf), Complete(wf), NEW v \in Vars
    PROVE  \A n \in DOMAIN wf : Moves(wf, n) => Onto(wf, v, n) \in DOMAIN wf
<1> SUFFICES ASSUME NEW n \in DOMAIN wf, Moves(wf, n) PROVE Onto(wf, v, n) \in DOMAIN wf
  OBVIOUS
<1>1. CASE wf[n].type = "start"
  <2>1. wf[n].next \in DOMAIN wf
    BY <1>1, StartLeads
  <2> QED
    BY <1>1, <2>1 DEF Onto
<1>2. CASE wf[n].type = "condition"
  <2>1. EvaluateConditions(wf[n], v) \in DOMAIN wf \cup {NoGoto}
    BY ConditionRoutes
  <2>2. EvaluateConditions(wf[n], v) # NoGoto
    BY <1>2, Zenon DEF Complete
  <2>3. Onto(wf, v, n) = EvaluateConditions(wf[n], v)
    BY <1>2 DEF Onto
  <2> HIDE DEF NoGoto
  <2> QED
    BY <2>1, <2>2, <2>3
<1> QED
  BY <1>1, <1>2 DEF Moves

\* A goroutine that advances: what its instance is seen as.
LEMMA AdvancingSeen ==
    ASSUME NEW D, NEW I, NEW T, NEW l, NEW i, NEW wf, NEW base \in InstanceRow,
           l.pc = "advance", D[l.row.def].wf = wf,
           I[i] = base \/ I[i] = Moved(base, l.row.step)
    PROVE  Seen(D, I, T, l, i) =
              Rested(wf, i, base, History(T, i), Rest(wf, base.vars, l.goto))
<1>1. PICK row : row = I[i]
  OBVIOUS
<1>2. row = base \/ \E m : row = Moved(base, m)
  BY <1>1
<1>3. Kept(I, T, i) = [row |-> row, tasks |-> History(T, i)]
  BY <1>1, Zenon DEF Kept
<1>4. PICK H : H = History(T, i)
  OBVIOUS
<1>5. Settle(wf, i, [row |-> row, tasks |-> H], l.goto) =
         Rested(wf, i, base, H, Rest(wf, base.vars, l.goto))
  BY <1>2, SettleIs
<1>6. Seen(D, I, T, l, i) = Settle(wf, i, Kept(I, T, i), l.goto)
  BY SeenAdvance
<1> QED
  BY <1>3, <1>4, <1>5, <1>6, Zenon

\* What p knows that advances, and how its instance is seen.
LEMMA AdvanceFrom ==
    ASSUME IInv, OneInv, FaithInv, Isolated', \A wf \in Payloads : Complete(wf),
           NEW p \in Procs, At(p, "advance"), Save(p, Entered(p)),
           UNCHANGED <<defs, tasks>>
    PROVE  LET wf == WfOf(proc[p].row)
               j  == proc[p].id
               g  == proc[p].goto
           IN  /\ j \in DOMAIN instances /\ Place(proc[p]) = j
               /\ instances[j] = proc[p].row /\ proc[p].row \in InstanceRow
               /\ g \in DOMAIN wf
               /\ Entered(p) = Moved(proc[p].row, g)
               /\ instances'[j] = Entered(p) /\ DOMAIN instances' = DOMAIN instances
               /\ \A i \in DOMAIN instances : i # j => instances'[i] = instances[i]
               /\ Seen(defs, instances, tasks, proc[p], j) =
                     Rested(wf, j, proc[p].row, History(tasks, j),
                            Rest(wf, proc[p].row.vars, g))
               /\ Rest(wf, proc[p].row.vars, g) =
                     IF Moves(wf, g)
                     THEN Rest(wf, proc[p].row.vars, Onto(wf, proc[p].row.vars, g)) ELSE g
<1>1. PICK wf, j, g, row : /\ wf = WfOf(proc[p].row) /\ j = proc[p].id
                           /\ g = proc[p].goto /\ row = proc[p].row
  OBVIOUS
<1>2. /\ j \in DOMAIN instances /\ Place(proc[p]) = j /\ g \in DOMAIN wf
      /\ wf \in Payloads /\ ValidateDefinition(wf) /\ row.vars \in Vars
  BY <1>1, Advancing
<1>3. row \in InstanceRow
  <2>1. Copy(defs, instances, proc[p])
    BY <1>1, <1>2, EnteredRow
  <2> QED
    BY <1>1, <2>1 DEF Copy
<1>4. instances[j] = row
  BY <1>1 DEF FaithInv, Faithful, At
<1>5. Entered(p) = Moved(row, g)
  BY <1>1, Zenon DEF Entered, Moved
<1>6. /\ instances'[j] = Entered(p) /\ DOMAIN instances' = DOMAIN instances
      /\ \A i \in DOMAIN instances : i # j => instances'[i] = instances[i]
  <2>1. instances' = [instances EXCEPT ![j] = Entered(p)]
    BY <1>1 DEF Save
  <2> QED
    BY <1>2, <2>1 DEF IInv, TypeOK
<1>7. Seen(defs, instances, tasks, proc[p], j) =
         Rested(wf, j, row, History(tasks, j), Rest(wf, row.vars, g))
  <2>1. proc[p].pc = "advance" /\ defs[proc[p].row.def].wf = wf
    BY <1>1 DEF At, WfOf
  <2>2. PICK l : l = proc[p]
    OBVIOUS
  <2>3. l.pc = "advance" /\ defs[l.row.def].wf = wf /\ l.goto = g
    BY <1>1, <2>1, <2>2
  <2>4. Seen(defs, instances, tasks, l, j) =
           Rested(wf, j, row, History(tasks, j), Rest(wf, row.vars, l.goto))
    BY <1>3, <1>4, <2>3, AdvancingSeen
  <2> QED
    BY <2>2, <2>3, <2>4, Zenon
<1>8. Rest(wf, row.vars, g) = IF Moves(wf, g) THEN Rest(wf, row.vars, Onto(wf, row.vars, g)) ELSE g
  <2>1. PICK v \in Vars : v = row.vars
    BY <1>2
  <2>2. Complete(wf)
    BY <1>2
  <2>3. \A m \in DOMAIN wf : Moves(wf, m) => Onto(wf, v, m) \in DOMAIN wf
    BY <1>2, <2>2, OntoSteps
  <2> QED
    BY <1>2, <2>1, <2>3, RestIs
<1> QED
  BY <1>1, <1>2, <1>3, <1>4, <1>5, <1>6, <1>7, <1>8, Zenon

-----------------------------------------------------------------------------
\* A step after which j is seen as before.
LEMMA Stutter ==
    ASSUME IInv, OneInv, Isolated', NEW p \in Procs, NEW l, Becomes(p, l),
           NEW j \in DOMAIN instances, j = Place(proc[p]) \/ j = Place(l),
           Place(proc[p]) \in {0, j}, Place(l) \in {0, j},
           Place(l) = j \/ l.pc = "idle",
           defs' = defs, DOMAIN instances' = DOMAIN instances,
           \A i \in DOMAIN instances : i # j => instances'[i] = instances[i],
           \A i \in DOMAIN instances : i # j => History(tasks', i) = History(tasks, i),
           Seen(defs, instances', tasks', l, j) = Seen(defs, instances, tasks, proc[p], j)
    PROVE  Views' = Views
<1>1. proc'[p] = l /\ \A q \in Procs : q # p => proc'[q] = proc[q]
  BY BecomesAt
<1>2. SameDefs(defs, defs')
  BY DEF SameDefs
<1>3. /\ Views[j] = Seen(defs, instances, tasks, proc[p], j)
      /\ Views'[j] = Seen(defs', instances', tasks', l, j)
      /\ \A i \in DOMAIN instances : i # j => Views'[i] = Views[i]
  BY <1>1, <1>2, StepSeen
<1>4. Views'[j] = Views[j]
  BY <1>3, Zenon
<1> QED
  BY <1>3, <1>4, StutterAt

\* A step of the recursion: the step it goes on to leads to the same rest.
LEMMA RecursionSeen ==
    ASSUME IInv, OneInv, FaithInv, Isolated', \A wf \in Payloads : Complete(wf),
           NEW p \in Procs, At(p, "advance"),
           Save(p, Entered(p)), UNCHANGED <<defs, tasks>>,
           Moves(WfOf(proc[p].row), proc[p].goto), NEW goto,
           goto = Onto(WfOf(proc[p].row), proc[p].row.vars, proc[p].goto),
           Becomes(p, OnInstance("advance", proc[p].id, Entered(p), goto))
    PROVE  Views' = Views
<1>1. PICK wf, j, g, row, l : /\ wf = WfOf(proc[p].row) /\ j = proc[p].id
                              /\ g = proc[p].goto /\ row = proc[p].row
                              /\ l = OnInstance("advance", j, Entered(p), goto)
  OBVIOUS
<1>2. /\ j \in DOMAIN instances /\ Place(proc[p]) = j
      /\ row \in InstanceRow
      /\ Entered(p) = Moved(row, g)
      /\ instances'[j] = Entered(p) /\ DOMAIN instances' = DOMAIN instances
      /\ \A i \in DOMAIN instances : i # j => instances'[i] = instances[i]
      /\ Seen(defs, instances, tasks, proc[p], j) =
            Rested(wf, j, row, History(tasks, j), Rest(wf, row.vars, goto))
  BY <1>1, AdvanceFrom
<1>3. l.pc = "advance" /\ l.id = j /\ l.row = Entered(p) /\ l.goto = goto
  BY <1>1, NewLocal
<1>4. Place(l) = j
  BY <1>3 DEF Place
<1>5. defs[l.row.def].wf = wf /\ l.row.step = g
  <2>1. Entered(p).def = row.def
    BY <1>2, MovedIs
  <2>2. Moved(row, g).step = g
    BY <1>2 DEF Moved, InstanceRow
  <2>3. wf = defs[row.def].wf
    BY <1>1, Zenon DEF WfOf
  <2>4. l.row.def = row.def /\ l.row.step = g
    BY <1>2, <1>3, <2>1, <2>2, Zenon
  <2> QED
    BY <2>3, <2>4, Zenon
<1>6. PICK I : I = instances'
  OBVIOUS
<1>7. I[j] = Moved(row, l.row.step)
  BY <1>2, <1>5, <1>6
<1>8. Seen(defs, I, tasks, l, j) =
         Rested(wf, j, row, History(tasks, j), Rest(wf, row.vars, l.goto))
  BY <1>2, <1>3, <1>5, <1>7, AdvancingSeen
<1>9. Seen(defs, instances', tasks', l, j) = Seen(defs, instances, tasks, proc[p], j)
  BY <1>2, <1>3, <1>6, <1>8, Zenon
<1>10. Becomes(p, l)
  BY <1>1
<1> QED
  BY <1>2, <1>4, <1>9, <1>10, Stutter

LEMMA AdvanceStartSeen ==
    ASSUME IInv, OneInv, FaithInv, Isolated', \A wf \in Payloads : Complete(wf),
           NEW p \in Procs, AdvanceStart(p)
    PROVE  Views' = Views
<1>1. /\ At(p, "advance") /\ Target(p).type = "start"
      /\ Save(p, Entered(p)) /\ UNCHANGED <<defs, tasks>>
      /\ Becomes(p, OnInstance("advance", proc[p].id, Entered(p), Target(p).next))
  BY DEF AdvanceStart, Reaches
<1>2. Moves(WfOf(proc[p].row), proc[p].goto)
  BY <1>1 DEF Moves, Target
<1>3. Target(p).next = Onto(WfOf(proc[p].row), proc[p].row.vars, proc[p].goto)
  BY <1>1 DEF Onto, Target
<1> QED
  BY <1>1, <1>2, <1>3, RecursionSeen

LEMMA AdvanceConditionSeen ==
    ASSUME IInv, OneInv, FaithInv, Isolated', \A wf \in Payloads : Complete(wf),
           NEW p \in Procs, AdvanceCondition(p)
    PROVE  Views' = Views
<1> DEFINE goto == EvaluateConditions(Target(p), proc[p].row.vars)
<1>1. /\ At(p, "advance") /\ Target(p).type = "condition"
      /\ Save(p, Entered(p)) /\ UNCHANGED <<defs, tasks>>
      /\ Becomes(p, OnInstance("advance", proc[p].id, Entered(p), goto))
  BY DEF AdvanceCondition, Reaches
<1>2. Moves(WfOf(proc[p].row), proc[p].goto)
  BY <1>1 DEF Moves, Target
<1>3. goto = Onto(WfOf(proc[p].row), proc[p].row.vars, proc[p].goto)
  BY <1>1 DEF Onto, Target
<1> HIDE DEF goto
<1> QED
  BY <1>1, <1>2, <1>3, RecursionSeen

\* At an approval step the task is still to be created, and is seen already.
LEMMA AdvanceApprovalSeen ==
    ASSUME IInv, OneInv, FaithInv, Isolated', \A wf \in Payloads : Complete(wf),
           NEW p \in Procs, AdvanceApproval(p)
    PROVE  Views' = Views
<1>1. PICK wf, j, g, row, l : /\ wf = WfOf(proc[p].row) /\ j = proc[p].id
                              /\ g = proc[p].goto /\ row = proc[p].row
                              /\ l = OnInstance("assign", j, Entered(p), g)
  OBVIOUS
<1>2. /\ At(p, "advance") /\ wf[g].type = "approval" /\ Save(p, Entered(p))
      /\ Becomes(p, l) /\ UNCHANGED <<defs, tasks>>
  BY <1>1 DEF AdvanceApproval, Reaches, Target
<1>3. ~Moves(wf, g)
  BY <1>2 DEF Moves
<1>4. /\ j \in DOMAIN instances /\ Place(proc[p]) = j
      /\ row \in InstanceRow
      /\ Entered(p) = Moved(row, g)
      /\ instances'[j] = Entered(p) /\ DOMAIN instances' = DOMAIN instances
      /\ \A i \in DOMAIN instances : i # j => instances'[i] = instances[i]
      /\ Seen(defs, instances, tasks, proc[p], j) =
            Rested(wf, j, row, History(tasks, j), g)
  BY <1>1, <1>2, <1>3, AdvanceFrom
<1>5. l.pc = "assign" /\ l.id = j /\ l.row = Entered(p) /\ l.goto = g
  BY <1>1, NewLocal
<1>6. Place(l) = j
  BY <1>5 DEF Place
<1>7. l.row.org = row.org /\ l.row.def = row.def
  BY <1>4, <1>5, MovedIs
<1>8. PICK H, I : H = History(tasks, j) /\ I = instances'
  OBVIOUS
<1>9. Rested(wf, j, row, H, g) =
         [row |-> Moved(row, g), tasks |-> Append(H, Ask(row, j, g, wf[g].assignee.value))]
  BY <1>2 DEF Rested
<1>10. Asked(defs, I, tasks, l, j) =
          [row |-> Moved(row, g), tasks |-> Append(H, Ask(row, j, g, wf[g].assignee.value))]
  <2>1. Kept(I, tasks, j) = [row |-> Moved(row, g), tasks |-> H]
    BY <1>4, <1>8, Zenon DEF Kept
  <2>2. Ask(l.row, j, g, wf[g].assignee.value) = Ask(row, j, g, wf[g].assignee.value)
    BY <1>7 DEF Ask
  <2>3. defs[l.row.def].wf = wf
    BY <1>1, <1>7 DEF WfOf
  <2>4. PICK r, a : r = Moved(row, g) /\ a = Ask(row, j, g, wf[g].assignee.value)
    OBVIOUS
  <2>5. Asked(defs, I, tasks, l, j) = [[row |-> r, tasks |-> H] EXCEPT !.tasks = Append(@, a)]
    BY <1>5, <2>1, <2>2, <2>3, <2>4, Zenon DEF Asked
  <2>6. Asked(defs, I, tasks, l, j) = [row |-> r, tasks |-> Append(H, a)]
    BY <2>5
  <2> QED
    BY <2>4, <2>6, Zenon
<1>11. Seen(defs, I, tasks, l, j) = Asked(defs, I, tasks, l, j)
  BY <1>5, SeenAssign
<1>12. Seen(defs, instances', tasks', l, j) = Seen(defs, instances, tasks, proc[p], j)
  BY <1>2, <1>4, <1>8, <1>9, <1>10, <1>11, Zenon
<1> QED
  BY <1>2, <1>4, <1>6, <1>12, Stutter

LEMMA AdvanceEndSeen ==
    ASSUME IInv, OneInv, FaithInv, Isolated', \A wf \in Payloads : Complete(wf),
           NEW p \in Procs, AdvanceEnd(p)
    PROVE  Views' = Views
<1>1. PICK wf, j, g, row : /\ wf = WfOf(proc[p].row) /\ j = proc[p].id
                           /\ g = proc[p].goto /\ row = proc[p].row
  OBVIOUS
<1>2. /\ At(p, "advance") /\ wf[g].type = "end" /\ Save(p, Finished(p))
      /\ Becomes(p, Idle) /\ UNCHANGED <<defs, tasks>>
  BY <1>1 DEF AdvanceEnd, Reaches, Target, Return
<1>3. /\ j \in DOMAIN instances /\ Place(proc[p]) = j /\ g \in DOMAIN wf
      /\ wf \in Payloads /\ ValidateDefinition(wf) /\ row.vars \in Vars
  BY <1>1, <1>2, Advancing
<1>4. row \in InstanceRow /\ instances[j] = row
  <2>1. Copy(defs, instances, proc[p])
    BY <1>1, <1>2, <1>3, EnteredRow
  <2> QED
    BY <1>1, <1>2, <2>1 DEF Copy, FaithInv, Faithful, At
<1>5. Finished(p) = Closed(Moved(row, g), wf[g].result)
  BY <1>1, Zenon DEF Finished, Entered, Moved, Target
<1>6. /\ instances'[j] = Finished(p) /\ DOMAIN instances' = DOMAIN instances
      /\ \A i \in DOMAIN instances : i # j => instances'[i] = instances[i]
  <2>1. instances' = [instances EXCEPT ![j] = Finished(p)]
    BY <1>1, <1>2 DEF Save
  <2> QED
    BY <1>3, <2>1 DEF IInv, TypeOK
<1>7. Rest(wf, row.vars, g) = g
  <2>1. PICK v \in Vars : v = row.vars
    BY <1>3
  <2>2. Complete(wf) /\ ~Moves(wf, g)
    BY <1>2, <1>3 DEF Moves
  <2>3. \A m \in DOMAIN wf : Moves(wf, m) => Onto(wf, v, m) \in DOMAIN wf
    BY <1>3, <2>2, OntoSteps
  <2> QED
    BY <1>3, <2>1, <2>2, <2>3, RestIs
<1>8. PICK H, I, l : H = History(tasks, j) /\ I = instances' /\ l = proc[p]
  OBVIOUS
<1>9. Seen(defs, instances, tasks, l, j) = Rested(wf, j, row, H, g)
  <2>1. l.pc = "advance" /\ defs[l.row.def].wf = wf /\ l.goto = g
    BY <1>1, <1>2, <1>8 DEF At, WfOf
  <2>2. Seen(defs, instances, tasks, l, j) =
           Rested(wf, j, row, History(tasks, j), Rest(wf, row.vars, l.goto))
    BY <1>4, <2>1, AdvancingSeen
  <2> QED
    BY <1>7, <1>8, <2>1, <2>2, Zenon
<1>10. Rested(wf, j, row, H, g) = [row |-> Closed(Moved(row, g), wf[g].result), tasks |-> H]
  BY <1>2, Zenon DEF Rested
<1>11. Seen(defs, I, tasks, Idle, j) = Kept(I, tasks, j)
  BY NewLocal, SeenKept
<1>12. Kept(I, tasks, j) = [row |-> Closed(Moved(row, g), wf[g].result), tasks |-> H]
  BY <1>5, <1>6, <1>8, Zenon DEF Kept
<1>13. Seen(defs, instances', tasks', Idle, j) = Seen(defs, instances, tasks, proc[p], j)
  BY <1>2, <1>8, <1>9, <1>10, <1>11, <1>12, Zenon
<1>14. Place(Idle) = 0 /\ Idle.pc = "idle"
  BY IdleOnward, NewLocal
<1> QED
  BY <1>2, <1>3, <1>6, <1>13, <1>14, Stutter

LEMMA CreateTaskSeen ==
    ASSUME IInv, OneInv, FaithInv, Isolated', NEW p \in Procs, CreateTask(p)
    PROVE  Views' = Views
<1>1. PICK l, j, new : /\ l = proc[p] /\ j = l.id
                       /\ new = Ask(l.row, j, l.goto, Assignee(p).value)
  OBVIOUS
<1>2. /\ l.pc = "assign" /\ tasks' = Append(tasks, new) /\ Becomes(p, Idle)
      /\ UNCHANGED <<defs, instances>>
  BY <1>1 DEF CreateTask, At, Return, Ask
<1>3. j \in DOMAIN instances /\ Place(l) = j
  BY <1>1, <1>2, Places DEF Place
<1>4. tasks \in Seq(TaskRow) /\ new \in TaskRow
  <2>1. Careful
    BY CreateTaskStep
  <2>2. tasks \in Seq(TaskRow) /\ tasks' \in Seq(TaskRow)
    BY <2>1 DEF Careful, IInv, TypeOK
  <2>3. Len(tasks) \in Nat
    BY <2>2
  <2>4. tasks'[Len(tasks) + 1] = new /\ Len(tasks') = Len(tasks) + 1
    BY <1>2, <2>2
  <2> QED
    BY <2>2, <2>3, <2>4
<1>5. new.inst = j
  BY <1>1 DEF Ask
<1>6. PICK T : T = tasks'
  OBVIOUS
<1>7. \A i : History(T, i) = IF new.inst = i THEN Append(History(tasks, i), new)
                                             ELSE History(tasks, i)
  BY <1>2, <1>4, <1>6, HistoryAppend
<1>8. Seen(defs, instances, tasks, l, j) = Asked(defs, instances, tasks, l, j)
  BY <1>2, SeenAssign
<1>9. Seen(defs, instances, T, Idle, j) = Kept(instances, T, j)
  BY NewLocal, SeenKept
<1>10. Kept(instances, T, j) = Asked(defs, instances, tasks, l, j)
  <2>1. PICK H, row : H = History(tasks, j) /\ row = instances[j]
    OBVIOUS
  <2>2. History(T, j) = Append(H, new)
    BY <1>5, <1>7, <2>1
  <2>3. Kept(instances, T, j) = [row |-> row, tasks |-> Append(H, new)]
    BY <2>1, <2>2, Zenon DEF Kept
  <2>4. new = Ask(l.row, j, l.goto, defs[l.row.def].wf[l.goto].assignee.value)
    BY <1>1, Zenon DEF Assignee, Target, WfOf
  <2>5. Asked(defs, instances, tasks, l, j) =
           [[row |-> row, tasks |-> H] EXCEPT !.tasks = Append(@, new)]
    BY <2>1, <2>4, Zenon DEF Asked, Kept
  <2>6. Asked(defs, instances, tasks, l, j) = [row |-> row, tasks |-> Append(H, new)]
    BY <2>5
  <2> QED
    BY <2>3, <2>6
<1>11. Seen(defs, instances', tasks', Idle, j) = Seen(defs, instances, tasks, proc[p], j)
  BY <1>1, <1>2, <1>6, <1>8, <1>9, <1>10, Zenon
<1>12. Place(Idle) = 0 /\ Idle.pc = "idle"
  BY IdleOnward, NewLocal
<1>13. \A i \in DOMAIN instances : i # j => History(tasks', i) = History(tasks, i)
  BY <1>5, <1>6, <1>7
<1> QED
  BY <1>1, <1>2, <1>3, <1>11, <1>12, <1>13, Stutter

\* A request on j that has only read.
LEMMA ReadSeen ==
    ASSUME IInv, OneInv, Isolated', NEW p \in Procs, NEW l, Becomes(p, l),
           UNCHANGED <<defs, instances, tasks>>, At(p, "idle"),
           NEW j \in DOMAIN instances, Place(l) = j,
           l.pc \notin {"advance", "assign", "loadInstance"}
    PROVE  Views' = Views
<1>1. Place(proc[p]) = 0 /\ proc[p].pc = "idle"
  BY NobodyThere DEF At
<1>2. PICK m : m = proc[p]
  OBVIOUS
<1>3. Seen(defs, instances, tasks, m, j) = Kept(instances, tasks, j)
  BY <1>1, <1>2, SeenKept
<1>4. Seen(defs, instances, tasks, l, j) = Kept(instances, tasks, j)
  BY SeenKept
<1>5. Seen(defs, instances', tasks', l, j) = Seen(defs, instances, tasks, proc[p], j)
  BY <1>2, <1>3, <1>4, Zenon
<1> QED
  BY <1>1, <1>5, Stutter

LEMMA ActLoadSeen ==
    ASSUME IInv, OneInv, Isolated', NEW p \in Procs, NEW u \in Users,
           NEW t \in DOMAIN tasks, NEW decision \in Decisions,
           ActLoad(p, u, t, decision)
    PROVE  Views' = Views
<1> DEFINE task == [tasks[t] EXCEPT !.status = decision]
           l == OnTask("saveTask", t, task)
<1>1. At(p, "idle") /\ Becomes(p, l) /\ UNCHANGED <<defs, instances, tasks>>
  BY DEF ActLoad
<1>2. task.inst = tasks[t].inst
  <2>1. tasks[t] \in TaskRow
    BY Known
  <2>2. \A r \in TaskRow : [r EXCEPT !.status = decision].inst = r.inst
    BY DEF TaskRow
  <2> QED
    BY <2>1, <2>2
<1>3. tasks[t].inst \in DOMAIN instances
  <2>1. Issued(defs, instances, tasks[t])
    BY DEF IInv, TasksIssued
  <2> QED
    BY <2>1, Zenon DEF Issued
<1> HIDE DEF task
<1>4. l.pc = "saveTask" /\ l.task = task
  BY NewLocal
<1> HIDE DEF l
<1>5. Place(l) = tasks[t].inst
  BY <1>2, <1>4 DEF Place
<1> QED
  BY <1>1, <1>3, <1>4, <1>5, ReadSeen

LEMMA CancelLoadSeen ==
    ASSUME IInv, OneInv, Isolated', NEW p \in Procs, NEW u \in Users,
           NEW i \in DOMAIN instances, CancelLoad(p, u, i)
    PROVE  Views' = Views
<1> DEFINE l == OnInstance("saveCancel", i, Cancelled(instances[i]), NoGoto)
<1>1. At(p, "idle") /\ Becomes(p, l) /\ UNCHANGED <<defs, instances, tasks>>
  BY DEF CancelLoad
<1>2. l.pc = "saveCancel" /\ l.id = i
  BY NewLocal
<1> HIDE DEF l
<1>3. Place(l) = i
  BY <1>2 DEF Place
<1> QED
  BY <1>1, <1>2, <1>3, ReadSeen

LEMMA StartLoadSeen ==
    ASSUME IInv, OneInv, Isolated',
           NEW p \in Procs, NEW u \in Users, NEW d \in DOMAIN defs,
           NEW v \in Vars, StartLoad(p, u, d, v)
    PROVE  Views' = Views
<1> DEFINE l == OnInstance("create", 0, FirstRow(u, d, v), defs[d].wf["start"].next)
<1>1. At(p, "idle") /\ Becomes(p, l) /\ UNCHANGED <<defs, instances, tasks>>
  BY DEF StartLoad, StartStep, FirstRow
<1>2. l.pc = "create" /\ l.id = 0
  BY NewLocal
<1> HIDE DEF l
<1>3. Place(l) = 0 /\ Place(proc[p]) = 0
  BY <1>1, <1>2 DEF Place, At, OneInv, Onward
<1> QED
  BY <1>1, <1>3, StepNowhere

\* What the routed goroutine is to do is what it was seen to have to do.
LEMMA ActRouteSeen ==
    ASSUME IInv, OneInv, Isolated', \A wf \in Payloads : Complete(wf),
           NEW p \in Procs, ActRoute(p)
    PROVE  Views' = Views
<1>1. PICK m, j, l : /\ m = proc[p] /\ j = m.task.inst
                     /\ l = OnInstance("advance", j, instances[j], NextStep(p))
  OBVIOUS
<1>2. /\ At(p, "loadInstance") /\ m.pc = "loadInstance" /\ instances[j].status = "running"
      /\ Becomes(p, l) /\ UNCHANGED <<defs, instances, tasks>>
  BY <1>1 DEF ActRoute, At, Loaded
<1>3. j \in DOMAIN instances /\ j # 0 /\ Place(m) = j
  BY <1>1, <1>2, Deciding
<1>4. l.pc = "advance" /\ l.id = j /\ l.row = instances[j] /\ l.goto = NextStep(p)
  BY <1>1, NewLocal
<1>5. Place(l) = j
  BY <1>4 DEF Place
<1>6. NextStep(p) = Answer(defs, instances, m)
  BY <1>1, Zenon DEF NextStep, Answer, Loaded, WfOf
<1>7. Seen(defs, instances, tasks, m, j) =
         Settle(defs[instances[j].def].wf, j, Kept(instances, tasks, j),
                Answer(defs, instances, m))
  BY <1>2, SeenRoute
<1>8. Seen(defs, instances, tasks, l, j) =
         Settle(defs[l.row.def].wf, j, Kept(instances, tasks, j), l.goto)
  BY <1>4, SeenAdvance
<1>9. Seen(defs, instances', tasks', l, j) = Seen(defs, instances, tasks, proc[p], j)
  BY <1>1, <1>2, <1>4, <1>6, <1>7, <1>8, Zenon
<1> QED
  BY <1>1, <1>2, <1>3, <1>5, <1>9, Stutter

LEMMA ActStopSeen ==
    ASSUME IInv, OneInv, Isolated', \A wf \in Payloads : Complete(wf),
           NEW p \in Procs, ActStop(p)
    PROVE  Views' = Views
<1>1. PICK m, j : m = proc[p] /\ j = m.task.inst
  OBVIOUS
<1>2. /\ At(p, "loadInstance") /\ m.pc = "loadInstance" /\ Becomes(p, Idle)
      /\ UNCHANGED <<defs, instances, tasks>>
  BY <1>1 DEF ActStop, At, Return
<1>3. j \in DOMAIN instances /\ j # 0 /\ Place(m) = j /\ NextStep(p) # NoGoto
  BY <1>1, <1>2, Deciding
<1>4. instances[j].status # "running"
  BY <1>1, <1>3 DEF ActStop, Loaded
<1>5. Seen(defs, instances, tasks, m, j) = Kept(instances, tasks, j)
  BY <1>2, <1>4, SeenKept
<1>6. Seen(defs, instances, tasks, Idle, j) = Kept(instances, tasks, j)
  BY NewLocal, SeenKept
<1>7. Place(Idle) = 0 /\ Idle.pc = "idle"
  BY IdleOnward, NewLocal
<1>8. Seen(defs, instances', tasks', Idle, j) = Seen(defs, instances, tasks, proc[p], j)
  BY <1>1, <1>2, <1>5, <1>6, Zenon
<1> QED
  BY <1>1, <1>2, <1>3, <1>7, <1>8, Stutter

-----------------------------------------------------------------------------
(***************************************************************************)
(* The steps that change a view are those of WorkflowAtomic.               *)
(***************************************************************************)
LEMMA SameMeaning ==
    /\ \A wf, i, view, g : Abstract!Settle(wf, i, view, g) = Settle(wf, i, view, g)
    /\ \A step, decision : Abstract!Branch(step, decision) = Branch(step, decision)
    /\ \A wf : Abstract!ValidateDefinition(wf) = ValidateDefinition(wf)
<1>1. ASSUME NEW wf, NEW v, NEW g
      PROVE  Abstract!Rest(wf, v, g) = Rest(wf, v, g)
  BY Zenon DEF Abstract!Rest, Rest,
               Abstract!EvaluateConditions, EvaluateConditions, Abstract!Stops, Stops,
               Abstract!NoGoto, NoGoto
<1>2. ASSUME NEW wf, NEW i, NEW view, NEW g
      PROVE  Abstract!Settle(wf, i, view, g) = Settle(wf, i, view, g)
  <2>1. PICK n : n = Rest(wf, view.row.vars, g)
    OBVIOUS
  <2>2. n = Abstract!Rest(wf, view.row.vars, g)
    BY <1>1, <2>1, Zenon
  <2>3. PICK row : row = [view.row EXCEPT !.step = n]
    OBVIOUS
  <2>4. Settle(wf, i, view, g) =
           IF wf[n].type = "end"
           THEN [view EXCEPT !.row = [row EXCEPT !.status = wf[n].result, !.completed = TRUE]]
           ELSE [row |-> row,
                 tasks |-> Append(view.tasks, Ask(row, i, n, wf[n].assignee.value))]
    BY <2>1, <2>3, Zenon DEF Settle
  <2>5. Abstract!Settle(wf, i, view, g) =
           IF wf[n].type = "end"
           THEN [view EXCEPT !.row = [row EXCEPT !.status = wf[n].result, !.completed = TRUE]]
           ELSE [row |-> row,
                 tasks |-> Append(view.tasks, Ask(row, i, n, wf[n].assignee.value))]
    BY <2>2, <2>3, Zenon DEF Abstract!Settle, Abstract!Ask, Ask
  <2> QED
    BY <2>4, <2>5, Zenon
<1>3. \A step, decision : Abstract!Branch(step, decision) = Branch(step, decision)
  BY Zenon DEF Abstract!Branch, Branch
<1>4. \A wf : Abstract!ValidateDefinition(wf) = ValidateDefinition(wf)
  BY Zenon DEF Abstract!ValidateDefinition, ValidateDefinition, Abstract!ValidStep, ValidStep,
               Abstract!ValidCondition, ValidCondition, Abstract!NoGoto, NoGoto,
               Abstract!StepTypes, StepTypes
<1> QED
  BY <1>2, <1>3, <1>4

\* The catalogue does not touch the views.
LEMMA CatalogueSeen ==
    ASSUME IInv, OneInv, Careful, UNCHANGED <<instances, tasks, proc>>
    PROVE  Views' = Views
<1>1. SameDefs(defs, defs')
  BY DEF Careful
<1>2. PICK D : D = defs'
  OBVIOUS
<1>3. ASSUME NEW i \in DOMAIN instances
      PROVE  Views'[i] = Views[i]
  <2>1. ViewsOf(D, instances, tasks, proc)[i] = Views[i]
    BY <1>1, <1>2, ViewSame
  <2> QED
    BY <1>2, <2>1, MappingIs, Zenon
<1>4. PICK V, W, S : V = Views /\ W = Views' /\ S = DOMAIN instances
  OBVIOUS
<1>5. V = [i \in S |-> V[i]] /\ W = [i \in S |-> W[i]]
  BY <1>4, ViewsDomain, Zenon
<1>6. \A i \in S : W[i] = V[i]
  BY <1>3, <1>4
<1>7. W = V
  BY <1>5, <1>6
<1> QED
  BY <1>4, <1>7

LEMMA CatalogueAtomic ==
    ASSUME IInv, OneInv, Catalogue
    PROVE  Abstract!Next
<1>1. Views' = Views
  <2>1. UNCHANGED <<instances, tasks, proc>>
    BY DEF Catalogue, Define, Archive
  <2>2. Careful
    BY NextIsCareful DEF Next
  <2> QED
    BY <2>1, <2>2, CatalogueSeen
<1>2. ASSUME NEW u \in Users, NEW wf \in Payloads, Define(u, wf)
      PROVE  Abstract!Define(u, wf)
  BY <1>1, <1>2, SameMeaning DEF Define, Abstract!Define
<1>3. ASSUME NEW u \in Users, NEW d \in DOMAIN defs, Archive(u, d)
      PROVE  Abstract!Archive(u, d)
  BY <1>1, <1>3 DEF Archive, Abstract!Archive
<1>4. PICK u \in Users : (\E wf \in Payloads : Define(u, wf))
                         \/ (\E d \in DOMAIN defs : Archive(u, d))
  BY DEF Catalogue
<1>5. (\E wf \in Payloads : Abstract!Define(u, wf))
      \/ (\E d \in DOMAIN defs : Abstract!Archive(u, d))
  BY <1>2, <1>3, <1>4
<1> QED
  BY <1>5, Zenon DEF Abstract!Next

\* CancelInstance takes effect when the row is saved.
Withdrawn(V, j) == [V EXCEPT ![j].row.status = "cancelled", ![j].row.completed = TRUE]

LEMMA CancelView ==
    ASSUME NEW S, NEW V, NEW j \in S, NEW r, NEW H,
           V = [i \in S |-> V[i]], V[j] = [row |-> r, tasks |-> H]
    PROVE  Withdrawn(V, j) = [V EXCEPT ![j] = [row |-> Cancelled(r), tasks |-> H]]
<1>1. PICK r1 : r1 = [r EXCEPT !.status = "cancelled"]
  OBVIOUS
<1>2. PICK r2 : r2 = [r1 EXCEPT !.completed = TRUE]
  OBVIOUS
<1>3. PICK w1, w2 : w1 = [row |-> r1, tasks |-> H] /\ w2 = [row |-> r2, tasks |-> H]
  OBVIOUS
<1>4. PICK V1 : V1 = [V EXCEPT ![j] = w1]
  OBVIOUS
<1>5. V1[j] = w1 /\ [V1 EXCEPT ![j] = w2] = [V EXCEPT ![j] = w2]
  BY <1>4
<1>6. V[j].row = r /\ [V[j] EXCEPT !.row = r1] = w1
  BY <1>3
<1>7. w1.row = r1 /\ [w1 EXCEPT !.row = r2] = w2
  BY <1>3
<1>8. Cancelled(r) = r2
  BY <1>1, <1>2, Zenon DEF Cancelled, Closed
<1>9. [V EXCEPT ![j].row.status = "cancelled"] = V1
  BY <1>1, <1>4, <1>6, Zenon
<1>10. [V1 EXCEPT ![j].row.completed = TRUE] = [V1 EXCEPT ![j] = w2]
  BY <1>2, <1>5, <1>7, Zenon
<1> QED
  BY <1>3, <1>5, <1>8, <1>9, <1>10, Zenon DEF Withdrawn

LEMMA CancelSaveAtomic ==
    ASSUME IInv, OneInv, FaithInv, Isolated', NEW p \in Procs, CancelSave(p)
    PROVE  Abstract!Next
<1>1. PICK l, j : l = proc[p] /\ j = l.id
  OBVIOUS
<1>2. /\ l.pc = "saveCancel" /\ instances' = [instances EXCEPT ![j] = l.row]
      /\ Becomes(p, Idle) /\ UNCHANGED <<defs, tasks>>
  BY <1>1 DEF CancelSave, At, Save, Return
<1>3. j \in DOMAIN instances /\ Place(l) = j
  BY <1>1, <1>2, Places DEF Place
<1>4. PICK r, H : r = instances[j] /\ H = History(tasks, j)
  OBVIOUS
<1>5. /\ r.status = "running" /\ l.row = Cancelled(r)
      /\ \E u \in Users : r.org = OrgOf[u] /\ MayCancel(u, r)
  BY <1>1, <1>2, <1>4, Zenon DEF FaithInv, Faithful
<1>6. PICK I : I = instances'
  OBVIOUS
<1>7. /\ I[j] = Cancelled(r) /\ DOMAIN I = DOMAIN instances
      /\ \A i \in DOMAIN instances : i # j => I[i] = instances[i]
  BY <1>2, <1>3, <1>5, <1>6 DEF IInv, TypeOK
<1>8. /\ Views[j] = Seen(defs, instances, tasks, proc[p], j)
      /\ Views'[j] = Seen(defs', instances', tasks', Idle, j)
      /\ \A i \in DOMAIN instances : i # j => Views'[i] = Views[i]
  <2>1. proc'[p] = Idle /\ \A q \in Procs : q # p => proc'[q] = proc[q]
    BY <1>2, BecomesAt
  <2>2. SameDefs(defs, defs')
    BY <1>2, SameTables
  <2>3. Place(Idle) = 0 /\ Idle.pc = "idle"
    BY IdleOnward, NewLocal
  <2>4. \A i \in DOMAIN instances : i # j => History(tasks', i) = History(tasks, i)
    BY <1>2
  <2> QED
    BY <1>1, <1>3, <1>6, <1>7, <2>1, <2>2, <2>3, <2>4, StepSeen
<1>9. Views[j] = [row |-> r, tasks |-> H]
  <2>1. Seen(defs, instances, tasks, l, j) = Kept(instances, tasks, j)
    BY <1>2, SeenKept
  <2> QED
    BY <1>1, <1>4, <1>8, <2>1, Zenon DEF Kept
<1>10. Views'[j] = [row |-> Cancelled(r), tasks |-> H]
  <2>1. Seen(defs, I, tasks, Idle, j) = Kept(I, tasks, j)
    BY NewLocal, SeenKept
  <2> QED
    BY <1>2, <1>4, <1>6, <1>7, <1>8, <2>1, Zenon DEF Kept
<1>11. PICK V, W, S : V = Views /\ W = Views' /\ S = DOMAIN instances
  OBVIOUS
<1>12. V = [i \in S |-> V[i]]
  BY <1>11, ViewsDomain, Zenon
<1>13. W = [V EXCEPT ![j] = [row |-> Cancelled(r), tasks |-> H]]
  <2>1. Views' = [Views EXCEPT ![j] = Views'[j]]
    BY <1>3, <1>6, <1>7, <1>8, ChangeAt
  <2> QED
    BY <1>10, <1>11, <2>1, Zenon
<1>14. W = Withdrawn(V, j)
  BY <1>3, <1>9, <1>11, <1>12, <1>13, CancelView
<1>15. PICK u \in Users : r.org = OrgOf[u] /\ MayCancel(u, r)
  BY <1>5
<1>16. V[j].row = r
  BY <1>9, <1>11
<1>17. Abstract!Cancel(u, j)
  <2>1. V[j].row.status = "running" /\ V[j].row.org = OrgOf[u]
        /\ (u \in Providers \/ V[j].row.createdBy = u)
    BY <1>5, <1>15, <1>16 DEF MayCancel
  <2> QED
    BY <1>2, <1>11, <1>14, <2>1, Zenon DEF Abstract!Cancel, Withdrawn
<1>18. j \in DOMAIN Views
  BY <1>3, <1>11, <1>12
<1> QED
  BY <1>17, <1>18, Zenon DEF Abstract!Next

\* ApproveTask and RejectTask take effect when the task is saved.
Decided(view, k, decision) == [view EXCEPT !.tasks[k].status = decision]

LEMMA DecidedView ==
    ASSUME NEW r, NEW H, NEW G, NEW k, NEW x, NEW e, NEW decision,
           Rewrites(H, G, k, x, e), e = [x EXCEPT !.status = decision]
    PROVE  Decided([row |-> r, tasks |-> H], k, decision) = [row |-> r, tasks |-> G]
<1>1. PICK view : view = [row |-> r, tasks |-> H]
  OBVIOUS
<1>2. view.tasks = H /\ [view EXCEPT !.tasks = G] = [row |-> r, tasks |-> G]
  BY <1>1
<1>3. H[k] = x /\ [H EXCEPT ![k] = e] = G
  BY DEF Rewrites
<1>4. Decided(view, k, decision) = [view EXCEPT !.tasks = G]
  BY <1>2, <1>3, Zenon DEF Decided
<1> QED
  BY <1>1, <1>2, <1>4, Zenon

LEMMA ActSaveAtomic ==
    ASSUME IInv, OneInv, FaithInv, Isolated', NEW p \in Procs, ActSave(p)
    PROVE  Abstract!Next
<1>1. PICK m, t, j, e, l : /\ m = proc[p] /\ t = m.tid /\ j = Place(m) /\ e = m.task
                           /\ l = OnTask("loadInstance", t, e)
  OBVIOUS
<1>2. /\ At(p, "saveTask") /\ m.pc = "saveTask"
      /\ tasks' = [tasks EXCEPT ![t] = e]
      /\ Becomes(p, l) /\ UNCHANGED <<defs, instances>>
  BY <1>1 DEF ActSave, At
<1>3. /\ t \in DOMAIN tasks /\ e \in TaskRow /\ SameQuestion(e, tasks[t])
      /\ e.inst = j /\ tasks[t].inst = j /\ j \in DOMAIN instances
  BY <1>1, <1>2, Deciders
<1>4. PICK x, d : x = tasks[t] /\ d = e.status
  OBVIOUS
<1>5. /\ x.status = "pending" /\ x.org = OrgOf[x.assignee] /\ d \in Decisions
      /\ e = [x EXCEPT !.status = d]
  BY <1>1, <1>2, <1>4, Zenon DEF FaithInv, Faithful
<1>6. x.assignee \in Users
  BY <1>3, <1>4, Known DEF TaskRow
<1>7. PICK T : T = tasks'
  OBVIOUS
<1>8. /\ tasks \in Seq(TaskRow) /\ T \in Seq(TaskRow) /\ Len(T) = Len(tasks)
      /\ DOMAIN T = DOMAIN tasks /\ T[t] = e
      /\ \A n \in DOMAIN tasks : n # t => T[n] = tasks[n]
  BY <1>2, <1>3, <1>7 DEF IInv, TypeOK
<1>9. PICK H, G, r : H = History(tasks, j) /\ G = History(T, j) /\ r = instances[j]
  OBVIOUS
<1>10. PICK k : Rewrites(H, G, k, x, e)
  BY <1>3, <1>4, <1>8, <1>9, HistoryWritten
<1>11. \A i \in DOMAIN instances : i # j => History(tasks', i) = History(tasks, i)
  <2> SUFFICES ASSUME NEW i, i # j PROVE History(T, i) = History(tasks, i)
    BY <1>7
  <2>1. \A n \in 1 .. Len(tasks) : tasks[n].inst = i \/ T[n].inst = i => T[n] = tasks[n]
    BY <1>3, <1>8
  <2> QED
    BY <1>8, <2>1, HistorySame
<1>12. l.pc = "loadInstance" /\ l.task = e
  BY <1>1, NewLocal
<1>13. Place(l) = j
  BY <1>3, <1>12 DEF Place
<1>14. /\ Views[j] = Seen(defs, instances, tasks, m, j)
       /\ Views'[j] = Seen(defs, instances, T, l, j)
       /\ \A i \in DOMAIN instances : i # j => Views'[i] = Views[i]
  <2>1. proc'[p] = l /\ \A q \in Procs : q # p => proc'[q] = proc[q]
    BY <1>2, BecomesAt
  <2>2. SameDefs(defs, defs')
    BY <1>2, SameTables
  <2>3. /\ Views[j] = Seen(defs, instances, tasks, proc[p], j)
        /\ Views'[j] = Seen(defs', instances', tasks', l, j)
        /\ \A i \in DOMAIN instances : i # j => Views'[i] = Views[i]
    <3>1. /\ DOMAIN instances' = DOMAIN instances
          /\ \A i \in DOMAIN instances : i # j => instances'[i] = instances[i]
      BY <1>2
    <3>2. Place(proc[p]) = j
      BY <1>1
    <3> QED
      BY <1>3, <1>11, <1>13, <2>1, <2>2, <3>1, <3>2, StepSeen
  <2> QED
    BY <1>1, <1>2, <1>7, <2>3, Zenon
<1>15. PICK V, W, S, v : /\ V = Views /\ W = Views' /\ S = DOMAIN instances
                         /\ v = [row |-> r, tasks |-> H]
  OBVIOUS
<1>16. V[j] = v
  <2>1. Seen(defs, instances, tasks, m, j) = Kept(instances, tasks, j)
    BY <1>2, SeenKept
  <2> QED
    BY <1>9, <1>14, <1>15, <2>1, Zenon DEF Kept
<1>17. PICK wf : wf = defs[r.def].wf
  OBVIOUS
<1>18. W[j] = IF r.status = "running"
              THEN Settle(wf, j, Decided(v, k, d), Branch(wf[x.step], d))
              ELSE Decided(v, k, d)
  <2>1. Decided(v, k, d) = [row |-> r, tasks |-> G]
    BY <1>5, <1>10, <1>15, DecidedView
  <2>2. Kept(instances, T, j) = Decided(v, k, d)
    BY <1>9, <2>1, Zenon DEF Kept
  <2>3. e.step = x.step
    BY <1>3, <1>4 DEF SameQuestion
  <2>4. Answer(defs, instances, l) = Branch(wf[x.step], d)
    BY <1>3, <1>4, <1>9, <1>12, <1>17, <2>3, Zenon DEF Answer
  <2>5. CASE r.status = "running"
    <3>1. Seen(defs, instances, T, l, j) =
             Settle(defs[instances[j].def].wf, j, Kept(instances, T, j),
                    Answer(defs, instances, l))
      BY <1>9, <1>12, <2>5, SeenRoute
    <3> QED
      BY <1>9, <1>14, <1>15, <1>17, <2>2, <2>4, <2>5, <3>1, Zenon
  <2>6. CASE r.status # "running"
    <3>1. Seen(defs, instances, T, l, j) = Kept(instances, T, j)
      BY <1>9, <1>12, <2>6, SeenKept
    <3> QED
      BY <1>14, <1>15, <2>2, <2>6, <3>1, Zenon
  <2> QED
    BY <2>5, <2>6
<1>19. W = [V EXCEPT ![j] = IF r.status = "running"
                            THEN Settle(wf, j, Decided(v, k, d), Branch(wf[x.step], d))
                            ELSE Decided(v, k, d)]
  <2>1. Views' = [Views EXCEPT ![j] = Views'[j]]
    BY <1>2, <1>3, <1>14, ChangeAt
  <2> QED
    BY <1>15, <1>18, <2>1, Zenon
<1>20. v.row = r /\ v.tasks = H /\ H[k] = x /\ k \in DOMAIN H
  BY <1>10, <1>15 DEF Rewrites
<1>21. Abstract!Decide(x.assignee, j, k, d)
  <2>1. V[j].row = r /\ V[j].tasks[k] = x
    BY <1>16, <1>20
  <2>2. W = [V EXCEPT ![j] = IF r.status = "running"
                             THEN Abstract!Settle(wf, j, Decided(v, k, d),
                                                  Abstract!Branch(wf[x.step], d))
                             ELSE Decided(v, k, d)]
    BY <1>19, SameMeaning, Zenon
  <2>3. Decided(v, k, d) = [V[j] EXCEPT !.tasks[k].status = d]
    BY <1>16, Zenon DEF Decided
  <2>4. UNCHANGED defs
    BY <1>2
  <2> QED
    BY <1>5, <1>15, <1>17, <2>1, <2>2, <2>3, <2>4, Zenon DEF Abstract!Decide
<1>22. j \in DOMAIN Views /\ k \in DOMAIN Views[j].tasks
  <2>1. V = [i \in S |-> V[i]]
    BY <1>15, ViewsDomain, Zenon
  <2> QED
    BY <1>3, <1>15, <1>16, <1>20, <2>1
<1>23. d \in {"approved", "rejected"}
  BY <1>5 DEF Decisions
<1> QED
  BY <1>6, <1>21, <1>22, <1>23, Zenon DEF Abstract!Next

\* V is a list of n entries; a list of one more entry is an Append.
Lists(V, n) == V = [i \in 1 .. n |-> V[i]]

Extends(V, W, n) == \A i \in 1 .. n : W[i] = V[i]

LEMMA ListLen ==
    ASSUME NEW n \in Nat, NEW V, NEW S, V \in [1 .. n -> S]
    PROVE  V \in Seq(S) /\ Len(V) = n
<1>1. V \in Seq(S)
  BY SeqDef
<1>2. Len(V) \in Nat /\ 1 .. Len(V) = 1 .. n
  BY <1>1, LenProperties
<1> QED
  BY <1>1, <1>2

LEMMA OneMore ==
    ASSUME NEW n \in Nat, NEW V, NEW W, NEW x,
           Lists(V, n), Lists(W, n + 1), Extends(V, W, n), W[n + 1] = x
    PROVE  Len(V) = n /\ W = Append(V, x)
<1>1. PICK S : S = {V[i] : i \in 1 .. n} \cup {x}
  OBVIOUS
<1>2. V \in [1 .. n -> S] /\ x \in S
  BY <1>1 DEF Lists
<1>3. V \in Seq(S) /\ Len(V) = n
  BY <1>2, ListLen
<1>4. PICK U : U = Append(V, x)
  OBVIOUS
<1>5. /\ U \in Seq(S) /\ Len(U) = n + 1 /\ U[n + 1] = x
      /\ \A i \in 1 .. n : U[i] = V[i]
  BY <1>2, <1>3, <1>4
<1>6. U = [i \in 1 .. (n + 1) |-> U[i]]
  BY <1>5
<1>7. \A i \in 1 .. (n + 1) : i \in 1 .. n \/ i = n + 1
  OBVIOUS
<1>8. \A i \in 1 .. (n + 1) : U[i] = W[i]
  BY <1>5, <1>7 DEF Extends
<1>9. U = W
  BY <1>6, <1>8 DEF Lists
<1> QED
  BY <1>3, <1>4, <1>9

\* StartInstance takes effect when the row is created.
LEMMA StartCreateAtomic ==
    ASSUME IInv, OneInv, FaithInv, Isolated', NEW p \in Procs, StartCreate(p)
    PROVE  Abstract!Next
<1>1. PICK m, n, l : /\ m = proc[p] /\ n = Len(instances)
                     /\ l = OnInstance("advance", n + 1, m.row, m.goto)
  OBVIOUS
<1>2. /\ m.pc = "create" /\ instances' = Append(instances, m.row)
      /\ Becomes(p, l) /\ UNCHANGED <<defs, tasks>>
  BY <1>1 DEF StartCreate, At
<1>3. PICK row, d, u, v : row = m.row /\ d = row.def /\ u = row.createdBy /\ v = row.vars
  OBVIOUS
<1>4. /\ row \in InstanceRow /\ Coherent(defs, row)
      /\ row.status = "running" /\ row.step = "start"
  BY <1>1, <1>2, <1>3, Known DEF LocalOK
<1>5. PICK wf : wf = defs[d].wf
  OBVIOUS
<1>6. /\ m.goto = wf["start"].next /\ row.org = OrgOf[u]
  BY <1>1, <1>2, <1>3, <1>5, Zenon DEF FaithInv, Faithful
<1>7. d \in DOMAIN defs /\ defs[d].org = OrgOf[u]
  BY <1>3, <1>4, <1>6 DEF Coherent
<1>8. row = FirstRow(u, d, v) /\ u \in Users /\ v \in Vars
  <2>1. row.completed = FALSE
    <3>1. row.completed \in BOOLEAN
      BY <1>4 DEF InstanceRow
    <3> QED
      BY <1>4, <3>1 DEF Coherent
  <2> QED
    BY <1>3, <1>4, <1>6, <2>1 DEF InstanceRow, FirstRow
<1>9. PICK I, P : I = instances' /\ P = proc'
  OBVIOUS
<1>10. /\ n \in Nat /\ DOMAIN instances = 1 .. n /\ DOMAIN I = 1 .. (n + 1)
       /\ \A k \in DOMAIN instances : I[k] = instances[k]
       /\ I[n + 1] = row
  <2>1. instances \in Seq(InstanceRow)
    BY DEF IInv, TypeOK
  <2> QED
    BY <1>1, <1>2, <1>3, <1>4, <1>9, <2>1
<1>11. l.pc = "advance" /\ l.id = n + 1 /\ l.goto = m.goto /\ l.row = row
  BY <1>1, <1>3, NewLocal
<1>12. Place(l) = n + 1 /\ Place(m) = 0
  BY <1>1, <1>2, <1>11 DEF Place, OneInv, Onward
<1>13. P[p] = l /\ \A q \in Procs : q # p => P[q] = proc[q]
  BY <1>2, <1>9, BecomesAt
<1>14. ASSUME NEW k \in DOMAIN instances
       PROVE  Views'[k] = Views[k]
  <2>1. k # 0 /\ k # n + 1
    BY <1>10
  <2>2. \A q \in Procs : Place(proc[q]) = k \/ Place(P[q]) = k => P[q] = proc[q]
    BY <1>1, <1>12, <1>13, <2>1
  <2>3. SameDefs(defs, defs) /\ k \in DOMAIN I /\ I[k] = instances[k]
    BY <1>10 DEF SameDefs
  <2>4. ViewsOf(defs, I, tasks, P)[k] = Views[k]
    BY <2>2, <2>3, ViewSame
  <2> QED
    BY <1>2, <1>9, <2>4, MappingIs, Zenon
<1>15. Views'[n + 1] = Settle(wf, n + 1, [row |-> row, tasks |-> <<>>], wf["start"].next)
  <2>1. \A q \in Procs : q # p => Place(P[q]) # n + 1
    <3>1. n + 1 # 0
      BY <1>10
    <3> QED
      BY <1>9, <1>12, <1>13, <3>1, PlaceOf DEF Isolated
  <2>2. PICK i : i = n + 1
    OBVIOUS
  <2>3. i \in DOMAIN I
    BY <1>10, <2>2
  <2>4. ViewsOf(defs, I, tasks, P)[i] = Seen(defs, I, tasks, P[p], i)
    BY <1>12, <1>13, <2>1, <2>2, <2>3, ViewAt
  <2>5. Seen(defs, I, tasks, l, i) =
           Settle(defs[l.row.def].wf, i, Kept(I, tasks, i), l.goto)
    BY <1>11, SeenAdvance
  <2>6. History(tasks, i) = <<>>
    <3>1. \A t \in DOMAIN tasks : Issued(defs, instances, tasks[t])
      BY DEF IInv, TasksIssued
    <3>2. \A t \in DOMAIN tasks : tasks[t].inst \in DOMAIN instances
      BY <3>1, Zenon DEF Issued
    <3>3. \A t \in DOMAIN tasks : tasks[t].inst # i
      BY <1>10, <2>2, <3>2
    <3>4. tasks \in Seq(TaskRow)
      BY DEF IInv, TypeOK
    <3> QED
      BY <3>3, <3>4, HistoryNone
  <2>7. Kept(I, tasks, i) = [row |-> row, tasks |-> <<>>]
    BY <1>10, <2>2, <2>6, Zenon DEF Kept
  <2>8. defs[l.row.def].wf = wf /\ l.goto = wf["start"].next
    BY <1>3, <1>5, <1>6, <1>11
  <2>9. Views'[i] = Seen(defs, I, tasks, l, i)
    BY <1>2, <1>9, <1>13, <2>4, MappingIs, Zenon
  <2> QED
    BY <2>2, <2>5, <2>7, <2>8, <2>9, Zenon
<1>16. PICK V, W, x : /\ V = Views /\ W = Views'
                      /\ x = Settle(wf, n + 1, [row |-> row, tasks |-> <<>>],
                                    wf["start"].next)
  OBVIOUS
<1>17. Lists(V, n) /\ Lists(W, n + 1)
  <2>1. V = [i \in 1 .. n |-> V[i]] /\ W = [i \in 1 .. (n + 1) |-> W[i]]
    BY <1>9, <1>10, <1>16, ViewsDomain, Zenon
  <2> QED
    BY <2>1, Zenon DEF Lists
<1>18. Len(V) = n /\ W = Append(V, x)
  <2>1. Extends(V, W, n)
    BY <1>10, <1>14, <1>16 DEF Extends
  <2>2. W[n + 1] = x
    BY <1>15, <1>16, Zenon
  <2> QED
    BY <1>10, <1>17, <2>1, <2>2, OneMore
<1>19. Abstract!Start(u, d, v)
  <2>1. x = Abstract!Settle(wf, Len(V) + 1,
                            [row |-> [org |-> OrgOf[u], def |-> d, status |-> "running",
                                      step |-> "start", vars |-> v, createdBy |-> u,
                                      completed |-> FALSE], tasks |-> <<>>],
                            wf["start"].next)
    BY <1>8, <1>16, <1>18, SameMeaning, Zenon DEF FirstRow
  <2>2. UNCHANGED defs
    BY <1>2
  <2> QED
    BY <1>5, <1>7, <1>16, <1>18, <2>1, <2>2, Zenon DEF Abstract!Start
<1> QED
  BY <1>7, <1>8, <1>19, Zenon DEF Abstract!Next

-----------------------------------------------------------------------------
\* Every step of the engine is a step of the abstract specification or none.
LEMMA NextAtomic ==
    ASSUME ~Faults, \A wf \in Payloads : Complete(wf),
           IInv, OneInv, FaithInv, Next, Isolated'
    PROVE  Abstract!Next \/ (defs' = defs /\ Views' = Views)
<1>1. CASE Catalogue
  BY <1>1, CatalogueAtomic
<1>2. ASSUME NEW p \in Procs, Request(p)
      PROVE  defs' = defs /\ Views' = Views
  <2>1. Views' = Views
    BY <1>2, StartLoadSeen, ActLoadSeen, CancelLoadSeen DEF Request
  <2>2. defs' = defs
    BY <1>2 DEF Request, StartLoad, ActLoad, CancelLoad
  <2> QED
    BY <2>1, <2>2
<1>3. ASSUME NEW p \in Procs, Continue(p)
      PROVE  Abstract!Next \/ (defs' = defs /\ Views' = Views)
  <2>1. CASE StartCreate(p)
    BY <2>1, StartCreateAtomic
  <2>2. CASE AdvanceStart(p)
    BY <2>2, AdvanceStartSeen DEF AdvanceStart
  <2>3. CASE AdvanceCondition(p)
    BY <2>3, AdvanceConditionSeen DEF AdvanceCondition
  <2>4. CASE AdvanceApproval(p)
    BY <2>4, AdvanceApprovalSeen DEF AdvanceApproval
  <2>5. CASE AdvanceEnd(p)
    BY <2>5, AdvanceEndSeen DEF AdvanceEnd
  <2>6. CASE CreateTask(p)
    BY <2>6, CreateTaskSeen DEF CreateTask
  <2>7. CASE AdvanceError(p) \/ AssignError(p)
    BY <2>7, NeverStuck
  <2>8. CASE ActSave(p)
    BY <2>8, ActSaveAtomic
  <2>9. CASE ActRoute(p)
    BY <2>9, ActRouteSeen DEF ActRoute
  <2>10. CASE ActStop(p)
    BY <2>10, ActStopSeen DEF ActStop
  <2>11. CASE CancelSave(p)
    BY <2>11, CancelSaveAtomic
  <2> QED
    BY <1>3, <2>1, <2>2, <2>3, <2>4, <2>5, <2>6, <2>7, <2>8, <2>9, <2>10,
       <2>11 DEF Continue
<1>4. \A p \in Procs : ~Fail(p)
  BY DEF Fail
<1> QED
  BY <1>1, <1>2, <1>3, <1>4 DEF Next

LEMMA InitAtomic == Init => Abstract!Init
<1> SUFFICES ASSUME Init PROVE Abstract!Init
  OBVIOUS
<1>1. instances = <<>> /\ defs = <<>>
  BY DEF Init
<1>2. PICK V : V = Views
  OBVIOUS
<1>3. V = [i \in DOMAIN instances |-> V[i]]
  BY <1>2, ViewsDomain, Zenon
<1>4. V = <<>>
  BY <1>1, <1>3
<1> QED
  BY <1>1, <1>2, <1>4 DEF Abstract!Init

\* Where requests overlap freely except on one instance, definitions leave
\* nothing open, and no statement fails, every call of the engine takes effect
\* atomically (WorkflowIsolated): StartInstance, ApproveTask, RejectTask and
\* CancelInstance, which write statement by statement, implement their one-step
\* specifications (WorkflowAtomic).
THEOREM CallsSeemAtomic ==
    ASSUME ~Faults, \A wf \in Payloads : Complete(wf)
    PROVE  IsolatedSpec => CallsAreAtomic
<1> DEFINE Inv == IInv /\ OneInv /\ FaithInv
<1>1. Init => Inv /\ Abstract!Init
  BY InitIInv, InitOne, InitFaith, InitAtomic
<1>2. Inv /\ [Next /\ Isolated']_vars => Inv' /\ [Abstract!Next]_Abstract!vars
  <2> SUFFICES ASSUME IInv, OneInv, FaithInv, [Next /\ Isolated']_vars
               PROVE  /\ IInv' /\ OneInv' /\ FaithInv'
                      /\ [Abstract!Next]_Abstract!vars
    OBVIOUS
  <2>1. IInv'
    BY NextPreservesIInv
  <2>2. CASE Next /\ Isolated'
    <3>1. OneInv' /\ FaithInv'
      BY <2>2, NextOne, NextFaith
    <3>2. Abstract!Next \/ (defs' = defs /\ Views' = Views)
      BY <2>2, NextAtomic
    <3> QED
      BY <2>1, <3>1, <3>2 DEF Abstract!vars
  <2>3. CASE UNCHANGED vars
    <3>1. OneInv' /\ FaithInv'
      BY <2>3 DEF vars, OneInv, FaithInv, Isolated, InstanceOf, Workers
    <3>2. UNCHANGED <<defs, instances, tasks, proc>>
      BY <2>3 DEF vars
    <3>3. Views' = Views
      BY <3>2, MappingIs, Zenon
    <3> QED
      BY <2>1, <3>1, <3>2, <3>3 DEF Abstract!vars
  <2> QED
    BY <2>2, <2>3
<1> QED
  BY <1>1, <1>2, PTL DEF IsolatedSpec, CallsAreAtomic, Abstract!Spec
=============================================================================
