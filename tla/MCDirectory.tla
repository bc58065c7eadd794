---------------------------- MODULE MCDirectory ----------------------------
(***************************************************************************)
(* The instance of Directory for TLC.                                      *)
(***************************************************************************)
EXTENDS DirectoryInvariants

CONSTANTS d1, ph1

Entry(id, parent, staff) == [id |-> id, parent |-> parent, staff |-> staff]

MCPhoneOf == (d1 :> ph1)

Person(phone) == [who |-> d1, phone |-> phone]

\* Parents first; children first, and the person has a phone and another
\* department.
MCDirectories ==
    {<<Entry(1, 0, {}), Entry(2, 1, {Person(NoPhone)})>>,
     <<Entry(2, 1, {Person(ph1)}), Entry(1, 0, {Person(ph1)})>>}
=============================================================================
