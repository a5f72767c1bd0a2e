---------------------------- MODULE MCOrgHierarchy ----------------------------
(* Small organisations for OrgHierarchy: every choice of nodes from a pool *)
(* with two versions, a desk that moves, a Volcker desk, a cycle and an    *)
(* entity that ends; rows on several grains, mapped rightly and wrongly.   *)
EXTENDS OrgHierarchy

CONSTANTS top, bank, branch, desk, book

Place(version, id, parent, level, from, to) ==
    [version |-> version, id |-> id, parent |-> parent, level |-> level, from |-> from, to |-> to]

Pool == {
    Place("v1", bank, top, "LEGAL_ENTITY", 1, 2),
    Place("v1", branch, top, "LEGAL_ENTITY", 1, 1),
    Place("v1", desk, bank, "DESK", 1, 1),
    Place("v1", desk, branch, "VOLCKER_DESK", 2, 2),
    Place("v1", bank, book, "DESK", 2, 2),
    Place("v1", book, desk, "BOOK", 1, 2),
    Place("v2", book, top, "BOOK", 1, 2)}

Top(from, to) == Place("v1", top, NoNode, "TOH", from, to)
NextTop == Place("v2", top, NoNode, "TOH", 2, 2)

SomeOrganisations ==
    {tops \cup others : tops \in {{Top(1, 2)}, {Top(1, 1), NextTop}, {Top(1, 2), NextTop}},
                       others \in SUBSET Pool}

Row(row, version, keys, component, currency) ==
    [row |-> row, version |-> version, keys |-> keys, component |-> component,
     currency |-> currency]

SomeRows == {
    Row(1, "v1", [TOH |-> top, DESK |-> desk], "CVA", "USD"),
    Row(2, "v1", [TOH |-> top, LEGAL_ENTITY |-> bank, BOOK |-> book], "IMA", "USD"),
    Row(3, "v1", [TOH |-> top, BOOK |-> book], "CVA", "EUR"),
    Row(4, "v1", [TOH |-> top, LEGAL_ENTITY |-> bank], "CVA", "USD"),
    Row(5, "v2", [TOH |-> top, BOOK |-> book], "CVA", "USD")}

SomeRowSets == {some \cup {r} : some \in SUBSET {s \in SomeRows : s.row <= 3},
                                r \in {s \in SomeRows : s.row > 3}}
SomeGroupings == {{"TOH", "DESK"}, {"LEGAL_ENTITY", "DESK", "BOOK"}}
=============================================================================
