------------------------- MODULE SharingInvariants -------------------------
(***************************************************************************)
(* What holds of shared applications and of their tables.                  *)
(***************************************************************************)
EXTENDS AppData

\* Rows are what their tables say; with foreign keys they refer to
\* organizations and applications that there are; the provider is given
\* nothing; ids of rows are unique.
TypeOK ==
    /\ orgs \in [Orgs -> {"new", "live", "gone"}] /\ apps \subseteq Apps
    /\ members \subseteq LiveOrgs \X Users
    /\ dists \subseteq Apps \X (Orgs \ {Provider})
    /\ admins \subseteq Apps \X Orgs \X Users
    /\ keyed => \A d \in dists \cup admins : d[1] \in apps /\ d[2] \in LiveOrgs
    /\ DOMAIN described \subseteq Apps \X Orgs \X Tables
    /\ DOMAIN stored \subseteq PhysicalNames
    /\ \A n \in DOMAIN stored : \A r, s \in stored[n].rows : r.id = s.id => r = s

\* Whoever administers an application for an organization finds it among the
\* organization's, unless it is deleted, a withdrawal is under way, or an
\* appointment or a withdrawal overlapped another request or stopped half-way
\* (UndistributeApp removes the administrators too).
AdminsWhereDistributed ==
    \A d \in admins :
       \/ d[1] \in apps => d[1] \in ListApps("tenant", d[2])
       \/ <<d[1], d[2]>> \in untidy
       \/ \E p \in Procs : proc[p].pc \in {"listAdmins", "dismiss"} /\ Pair(p) = <<d[1], d[2]>>

\* What is described of a table is there, and what is there is described, when
\* no creation or removal of it is under way and none failed, overlapped
\* another request or found the table there (made for another organization, or
\* under another name with the same beginning), and no statement of an
\* application's own has defined it otherwise.
TablesDescribed ==
    \A n \in PhysicalNames \ marred :
       LET entries == {e \in DOMAIN described : Physical(e[1], e[3]) = n} IN
       \/ \E p \in Procs : proc[p].pc \in {"describe", "undo", "forget"} /\ Name(p) = n
       \/ /\ n \in DOMAIN stored <=> entries # {}
          /\ \A e \in entries : described[e] \subseteq stored[n].cols

\* While a table stays, a row of it comes, changes and goes only by a request
\* for the organization whose row it is, but for an application's own SQL
\* (row-level data isolation, model/application_distribution.go).
RowsAreTheirs ==
    [][left' = left =>
       \A n \in DOMAIN stored \cap DOMAIN stored' :
          \A r \in (stored[n].rows \ stored'[n].rows) \cup (stored'[n].rows \ stored[n].rows) :
             \E p \in Procs : proc'[p] # proc[p] /\ Name(p) = n /\ proc[p].org = r.org]_vars
=============================================================================
