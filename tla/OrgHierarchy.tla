----------------------------- MODULE OrgHierarchy -----------------------------
(***************************************************************************)
(* The organisational hierarchy of the result store: effective-dated nodes *)
(* in versions, capital rows mapped to them, and the read models on top:   *)
(* aggregates by level, the rows behind an aggregate, and the pages of the *)
(* rows under one node.  A behaviour is a session of a dashboard: a view   *)
(* of the rows of one run, then a request for the rows behind part of it.  *)
(*                                                                         *)
(* An amount is abstracted to the set of rows it sums over; rows are       *)
(* numbered in the order of source_row_id.                                 *)
(***************************************************************************)
EXTENDS Integers, FiniteSets, SequencesExt

CONSTANTS
    Ids,                \* node_id
    Versions,           \* version_id
    NoNode,             \* the parent_id of a root: None
    Dates,              \* days
    Components,         \* FrtbComponent
    AllComponents,      \* no framework filter
    Organisations,      \* the sets of nodes a caller may pass
    RowSets,            \* the sets of rows a caller may pass
    Groupings,          \* the sets of levels a caller may ask for
    Limits              \* page sizes

(* From the top of the house down, as the keys of a row are read.          *)
LevelOrder == <<"TOH", "LEGAL_ENTITY", "BUSINESS_DIVISION", "BUSINESS_LINE",
                "DESK", "VOLCKER_DESK", "BOOK">>
Levels == Range(LevelOrder)

Node == [version : Versions, id : Ids, parent : Ids \cup {NoNode},
         level : Levels, from : Dates, to : Dates]
KeySets == UNION {[levels \cup {"TOH"} -> Ids] : levels \in SUBSET Levels}

ASSUME NoNodeAssumption == NoNode \notin Ids /\ AllComponents \notin Components
ASSUME OrganisationsAssumption ==
    \A org \in Organisations : org # {} /\ IsFiniteSet(org) /\ \A n \in org : n \in Node
ASSUME RowsAssumption ==
    \A rows \in RowSets : \A r, q \in rows :
        /\ r.row \in Nat /\ r.version \in Versions /\ r.component \in Components
        /\ r.keys \in KeySets
        /\ r.row = q.row => r = q
ASSUME PagesAssumption == Limits \subseteq Nat \ {0} /\ \A rows \in RowSets : IsFiniteSet(rows)

VARIABLES
    org,        \* the nodes of all versions
    rows,       \* the rows of the run
    date,       \* as_of_date
    view,       \* what aggregate_by_org_hierarchy answered
    trace,      \* what source_rows_for_org_aggregate answered
    detail      \* the pages of source_rows_for_org_node so far

vars == <<org, rows, date, view, trace, detail>>
-----------------------------------------------------------------------------
(* ancestor_chain: a node and all that the walk along parent_id reaches,   *)
(* which is the least set of ids that has the node and the parents of its  *)
(* nodes.                                                                  *)
ClosedUnder(tree, ids) ==
    \A n \in tree : n.id \in ids /\ n.parent # NoNode => n.parent \in ids

Chain(tree, id) ==
    {a \in Ids : \A ids \in SUBSET Ids : id \in ids /\ ClosedUnder(tree, ids) => a \in ids}

IsRoot(n) == n.level = "TOH" /\ n.parent = NoNode

(* _validate_version_nodes: ids once, one root, every parent there and no  *)
(* cycle.  Nothing compares the level of a node with that of its parent.   *)
ValidVersion(tree) ==
    /\ \A m, n \in tree : m.id = n.id => m = n
    /\ Cardinality({n \in tree : IsRoot(n)}) = 1
    /\ \A n \in tree :
        /\ IF n.level = "TOH" THEN n.parent = NoNode ELSE \E p \in tree : p.id = n.parent
        /\ n.parent # NoNode => n.id \notin Chain(tree, n.parent)

(* deepest_node_id: the last key that is there, in the order of the levels.*)
Deepest(r) ==
    r.keys[LevelOrder[CHOOSE i \in DOMAIN LevelOrder :
        /\ LevelOrder[i] \in DOMAIN r.keys
        /\ \A j \in DOMAIN LevelOrder : LevelOrder[j] \in DOMAIN r.keys => j <= i]]

(* _validate_row_mapping: each key is a node of its level, above the       *)
(* deepest one.                                                            *)
Mapped(r, tree) ==
    /\ \A l \in DOMAIN r.keys : \E n \in tree : n.id = r.keys[l] /\ n.level = l
    /\ \A l \in DOMAIN r.keys : r.keys[l] \in Chain(tree, Deepest(r))

ActiveOn(n, day) == n.from <= day /\ day <= n.to

(* resolve_org_hierarchy_version: it raises unless there is one.           *)
VersionsOn(day) == {n.version : n \in {m \in org : IsRoot(m) /\ ActiveOn(m, day)}}
Version(day) == CHOOSE v \in VersionsOn(day) : TRUE

(* The nodes of the version that are active, and the rows mapped to it.    *)
ActiveTree == {n \in org : n.version = Version(date) /\ ActiveOn(n, date)}
RowsOf(v) == {r \in rows : r.version = v}

TreeResolves == Cardinality(VersionsOn(date)) = 1 /\ ValidVersion(ActiveTree)

RowsUnder(scope, tree, id) == {r \in scope : id \in Chain(tree, Deepest(r))}

OneCurrency(scope) == Cardinality({r.currency : r \in scope}) = 1

(* A Volcker desk is a desk.                                               *)
Matches(n, grouping) ==
    n.level \in grouping \/ (n.level = "VOLCKER_DESK" /\ "DESK" \in grouping)

(* _nearest_selected_parent.                                               *)
SelectedParent(n, tree, grouping) ==
    LET above == {p \in tree : Matches(p, grouping) /\ p.id \in Chain(tree, n.parent)}
    IN  IF n.parent = NoNode \/ above = {} THEN NoNode
        ELSE (CHOOSE p \in above : \A q \in above : q.id \in Chain(tree, p.id)).id

(* One OrgAggregateRow: row_id stands for hierarchy, version, node, level. *)
AggregateRow(n, tree, grouping, scope) ==
    [row_id |-> [version |-> n.version, id |-> n.id, level |-> n.level],
     parent |-> SelectedParent(n, tree, grouping),
     sources |-> RowsUnder(scope, tree, n.id)]
-----------------------------------------------------------------------------
NoView == [status |-> "none", grouping |-> {}, groups |-> {}]
NoTrace == [status |-> "none", row_id |-> NoNode, sources |-> {}]
NoDetail == [status |-> "none", node |-> NoNode, framework |-> AllComponents,
             listed |-> <<>>, offset |-> 0]

Init ==
    /\ org \in Organisations /\ rows \in RowSets /\ date \in Dates
    /\ view = NoView /\ trace = NoTrace /\ detail = NoDetail

(* Mutant of Aggregate: a row is counted at its own node only.             *)
AggregateOwnRows(grouping) ==
    LET tree == ActiveTree
        scope == RowsOf(Version(date))
        own(n) == {r \in scope : Deepest(r) = n.id}
        shown == {n \in tree : Matches(n, grouping) /\ own(n) # {}}
    IN  /\ view = NoView
        /\ IF \/ ~ TreeResolves
              \/ \E r \in scope : ~ Mapped(r, tree)
              \/ \E n \in shown : ~ OneCurrency(own(n))
           THEN view' = [NoView EXCEPT !.status = "raised"]
           ELSE view' = [status |-> "OK", grouping |-> grouping,
                         groups |-> {[AggregateRow(n, tree, grouping, scope)
                                        EXCEPT !.sources = own(n)] : n \in shown}]
        /\ UNCHANGED <<org, rows, date, trace, detail>>

(* aggregate_by_org_hierarchy: a row counts in every selected node above   *)
(* it; a node without rows is left out.                                    *)
Aggregate(grouping) ==
    LET tree == ActiveTree
        scope == RowsOf(Version(date))
        shown == {n \in tree : Matches(n, grouping) /\ RowsUnder(scope, tree, n.id) # {}}
    IN  /\ view = NoView
        /\ IF \/ ~ TreeResolves
              \/ \E r \in scope : ~ Mapped(r, tree)
              \/ \E n \in shown : ~ OneCurrency(RowsUnder(scope, tree, n.id))
           THEN view' = [NoView EXCEPT !.status = "raised"]
           ELSE view' = [status |-> "OK", grouping |-> grouping,
                         groups |-> {AggregateRow(n, tree, grouping, scope) : n \in shown}]
        /\ UNCHANGED <<org, rows, date, trace, detail>>

(* Mutant of Trace: the rows of all versions.                              *)
TraceAnyVersion(row_id) ==
    LET tree == {n \in org : n.version = row_id.version} IN
    /\ trace = NoTrace /\ detail = NoDetail /\ \E g \in view.groups : g.row_id = row_id
    /\ trace' =
        IF \/ \E v \in Versions : LET nodes == {n \in org : n.version = v}
                                  IN  nodes # {} /\ ~ ValidVersion(nodes)
           \/ \E r \in RowsOf(row_id.version) : ~ Mapped(r, tree)
        THEN [NoTrace EXCEPT !.status = "raised", !.row_id = row_id]
        ELSE [status |-> "OK", row_id |-> row_id, sources |-> RowsUnder(rows, tree, row_id.id)]
    /\ UNCHANGED <<org, rows, date, view, detail>>

(* source_rows_for_org_aggregate: no date, so all nodes of all versions    *)
(* must be valid, and the rows are those under the node of the row id.     *)
Trace(row_id) ==
    LET tree == {n \in org : n.version = row_id.version}
        scope == RowsOf(row_id.version)
    IN  /\ trace = NoTrace /\ detail = NoDetail /\ \E g \in view.groups : g.row_id = row_id
        /\ trace' =
            IF \/ \E v \in Versions : LET nodes == {n \in org : n.version = v}
                                      IN  nodes # {} /\ ~ ValidVersion(nodes)
               \/ \E r \in scope : ~ Mapped(r, tree)
            THEN [NoTrace EXCEPT !.status = "raised", !.row_id = row_id]
            ELSE [status |-> "OK", row_id |-> row_id, sources |-> RowsUnder(scope, tree, row_id.id)]
        /\ UNCHANGED <<org, rows, date, view, detail>>

(* Mutant of NodeRows: filtered by component after the rows were chosen    *)
(* from the version, but not by node.                                      *)
RowsOfFramework(id, framework) ==
    {r \in RowsOf(Version(date)) : framework \in {AllComponents, r.component}}

(* _source_rows_for_node, when it does not raise.                          *)
NodeRows(id, framework) ==
    RowsUnder({r \in RowsOf(Version(date)) : framework \in {AllComponents, r.component}},
              ActiveTree, id)

(* Only the rows of the framework must be mapped.                          *)
NodeRaises(id, framework) ==
    \/ ~ TreeResolves
    \/ id \notin {n.id : n \in ActiveTree}
    \/ \E r \in RowsOf(Version(date)) :
        framework \in {AllComponents, r.component} /\ ~ Mapped(r, ActiveTree)

(* Rows in the order of source_row_id.                                     *)
Sorted(set) ==
    [i \in 1 .. Cardinality(set) |->
        CHOOSE r \in set : Cardinality({q \in set : q.row <= r.row}) = i]

(* Mutant of Page: the next offset is given on the last page too.          *)
PagePastEnd(id, framework, listed, offset, limit) ==
    LET all == Sorted(NodeRows(id, framework))
        end == offset + limit
    IN  [status |-> IF end < Len(all) THEN "more" ELSE IF all = <<>> THEN "NO_DATA" ELSE "OK",
         node |-> id, framework |-> framework,
         listed |-> listed \o SubSeq(all, offset + 1, IF end < Len(all) THEN end ELSE Len(all)),
         offset |-> end]

(* One page of sorted rows, and where the next one starts.                 *)
Page(id, framework, listed, offset, limit) ==
    LET all == Sorted(NodeRows(id, framework))
        end == offset + limit
    IN  [status |-> IF end < Len(all) THEN "more" ELSE IF all = <<>> THEN "NO_DATA" ELSE "OK",
         node |-> id, framework |-> framework,
         listed |-> listed \o SubSeq(all, offset + 1, IF end < Len(all) THEN end ELSE Len(all)),
         offset |-> IF end < Len(all) THEN end ELSE offset]

(* source_rows_for_org_node: the first page.                               *)
OpenNode(id, framework, limit) ==
    /\ view # NoView /\ trace = NoTrace /\ detail = NoDetail
    /\ detail' = IF NodeRaises(id, framework)
                 THEN [NoDetail EXCEPT !.status = "raised"]
                 ELSE Page(id, framework, <<>>, 0, limit)
    /\ UNCHANGED <<org, rows, date, view, trace>>

(* The next page, from next_offset, of any size.                           *)
NextPage(limit) ==
    /\ detail.status = "more"
    /\ detail' = Page(detail.node, detail.framework, detail.listed, detail.offset, limit)
    /\ UNCHANGED <<org, rows, date, view, trace>>

Answered ==
    /\ trace # NoTrace \/ detail.status \notin {"none", "more"}
    /\ UNCHANGED vars

Next ==
    \/ \E grouping \in Groupings : Aggregate(grouping)
    \/ \E g \in view.groups : Trace(g.row_id)
    \/ \E id \in Ids, f \in Components \cup {AllComponents}, limit \in Limits :
        OpenNode(id, f, limit)
    \/ \E limit \in Limits : NextPage(limit)
    \/ Answered

Spec == Init /\ [][Next]_vars
-----------------------------------------------------------------------------
(* Properties.                                                             *)

(* The answers are made of the nodes and rows that were passed.            *)
TypeOK ==
    /\ org \in Organisations /\ rows \in RowSets /\ date \in Dates
    /\ view.status \in {"none", "OK", "raised"} /\ view.grouping \in Groupings \cup {{}}
    /\ \A g \in view.groups : g.parent \in Ids \cup {NoNode} /\ g.sources \subseteq rows
    /\ trace.status \in {"none", "OK", "raised"} /\ trace.sources \subseteq rows
    /\ detail.status \in {"none", "more", "NO_DATA", "OK", "raised"}
    /\ Range(detail.listed) \subseteq rows /\ detail.offset \in 0 .. Cardinality(rows)

(* Every amount is counted once: the rows of an aggregate are rows of the  *)
(* one it is placed under, which is shown too; aggregates that are not     *)
(* placed under each other share none; and when the top is asked for all   *)
(* rows of the version are in it.                                          *)
Under(g) == {h \in view.groups : h.parent = g.row_id.id}
RollUpAddsUp ==
    /\ \A g \in view.groups :
        /\ g.parent # NoNode => \E h \in view.groups : h.row_id.id = g.parent
        /\ \A h \in Under(g) : h.sources \subseteq g.sources
        /\ \A h \in view.groups \ {g} : h.parent = g.parent => h.sources \cap g.sources = {}
    /\ view.status = "OK" /\ "TOH" \in view.grouping =>
        \A r \in RowsOf(Version(date)) : \E g \in view.groups : g.parent = NoNode /\ r \in g.sources

(* "Traces an aggregate row back to the source rows under that branch":    *)
(* though one request goes by date and the other does not, the rows behind *)
(* an aggregate are those it counted, or the request raises.               *)
TraceAgrees ==
    trace.status = "OK" => \E g \in view.groups : g.row_id = trace.row_id /\ g.sources = trace.sources

(* Aggregate and detail reconcile: the pages under a node, of any sizes,   *)
(* list each row of its aggregate that is of the framework, once.          *)
DetailReconciles ==
    detail.status \in {"OK", "NO_DATA"} =>
        /\ IsInjective(detail.listed)
        /\ \A g \in view.groups : g.row_id.id = detail.node =>
            Range(detail.listed) =
                {r \in g.sources : detail.framework \in {AllComponents, r.component}}
        /\ view.status = "OK" /\ detail.status = "NO_DATA" =>
            \A g \in view.groups : g.row_id.id # detail.node \/ detail.framework # AllComponents
=============================================================================
