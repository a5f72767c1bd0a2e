-------------------------- MODULE OrgHierarchyProofs --------------------------
(***************************************************************************)
(* Theorems about OrgHierarchy, for any organisations, rows and pages.     *)
(***************************************************************************)
EXTENDS OrgHierarchy, InductionLemmas, SequenceTheorems

-----------------------------------------------------------------------------
(* Ancestors.  A chain is the least closed set, so what is to hold of all  *)
(* of it is shown to hold of a closed set that has its first id.           *)

(* Nodes with ids of their own, and parents that are ids.                  *)
Wired(tree) ==
    /\ \A n \in tree : n.id \in Ids /\ n.parent \in Ids \cup {NoNode}
    /\ \A m, n \in tree : m.id = n.id => m = n

Acyclic(tree) == \A n \in tree : n.parent # NoNode => n.id \notin Chain(tree, n.parent)

(* The chain of a node has its parent with every node it has.              *)
LEMMA ChainIsClosed ==
    ASSUME NEW tree, Wired(tree), NEW id
    PROVE  /\ Chain(tree, id) \in SUBSET Ids /\ ClosedUnder(tree, Chain(tree, id))
           /\ id \in Ids => id \in Chain(tree, id)
  BY DEF Chain, ClosedUnder, Wired

(* Nothing else is in it.                                                  *)
LEMMA ChainIsLeast ==
    ASSUME NEW tree, NEW id, NEW ids \in SUBSET Ids, id \in ids, ClosedUnder(tree, ids)
    PROVE  Chain(tree, id) \subseteq ids
  BY DEF Chain

(* The ancestors of an ancestor are ancestors.                             *)
LEMMA ChainGoesOn ==
    ASSUME NEW tree, Wired(tree), NEW id, NEW a \in Chain(tree, id)
    PROVE  Chain(tree, a) \subseteq Chain(tree, id)
  BY ChainIsClosed, ChainIsLeast

(* A chain is its first id and the chain of the parent, if there is one.   *)
LEMMA ChainOfParent ==
    ASSUME NEW tree, Wired(tree), NEW a \in Ids, NEW b \in Chain(tree, a), b # a
    PROVE  \E n \in tree : /\ n.id = a /\ n.parent # NoNode /\ n.parent \in Ids
                           /\ b \in Chain(tree, n.parent)
<1>1. CASE \E n \in tree : n.id = a /\ n.parent # NoNode
  <2>1. PICK n \in tree : n.id = a /\ n.parent # NoNode
    BY <1>1
  <2> DEFINE ids == {a} \cup Chain(tree, n.parent)
  <2>2. n.parent \in Ids
    BY <2>1 DEF Wired
  <2>3. /\ Chain(tree, n.parent) \in SUBSET Ids /\ n.parent \in Chain(tree, n.parent)
        /\ ClosedUnder(tree, Chain(tree, n.parent))
    BY <2>2, ChainIsClosed
  <2>4. ClosedUnder(tree, ids)
    <3> SUFFICES ASSUME NEW m \in tree, m.id \in ids, m.parent # NoNode PROVE m.parent \in ids
      BY DEF ClosedUnder
    <3>1. CASE m.id = a
      <4>1. m = n
        BY <2>1, <3>1 DEF Wired
      <4> QED
        BY <2>3, <4>1
    <3>2. CASE m.id \in Chain(tree, n.parent)
      BY <2>3, <3>2 DEF ClosedUnder
    <3> QED
      BY <3>1, <3>2
  <2>5. ids \in SUBSET Ids /\ a \in ids
    BY <2>3
  <2> HIDE DEF ids
  <2>6. b \in ids
    BY <2>4, <2>5, ChainIsLeast
  <2> QED
    BY <2>1, <2>2, <2>6 DEF ids
<1>2. CASE ~ \E n \in tree : n.id = a /\ n.parent # NoNode
  <2>1. ClosedUnder(tree, {a})
    BY <1>2 DEF ClosedUnder
  <2>2. Chain(tree, a) \subseteq {a}
    BY <2>1, ChainIsLeast
  <2> QED
    BY <2>2
<1> QED
  BY <1>1, <1>2

(* Of two ancestors of one node, one is above the other.                   *)
LEMMA ChainIsLinear ==
    ASSUME NEW tree, Wired(tree), NEW id \in Ids,
           NEW a \in Chain(tree, id), NEW b \in Chain(tree, id)
    PROVE  a \in Chain(tree, b) \/ b \in Chain(tree, a)
<1> DEFINE C == Chain(tree, id)
           T == {x \in C : \A y \in C : x \in Chain(tree, y) \/ y \in Chain(tree, x)}
<1>1. C \in SUBSET Ids /\ id \in C /\ ClosedUnder(tree, C)
  BY ChainIsClosed
<1>2. id \in T
  BY <1>1
<1>3. ASSUME NEW n \in tree, n.id \in T, n.parent # NoNode PROVE n.parent \in T
  <2>1. n.parent \in C /\ n.parent \in Ids /\ n.id \in Ids
    BY <1>1, <1>3 DEF ClosedUnder
  <2>2. ASSUME NEW y \in C PROVE n.parent \in Chain(tree, y) \/ y \in Chain(tree, n.parent)
    <3>1. y \in Ids /\ y \in Chain(tree, y)
      BY <1>1, ChainIsClosed
    <3>2. CASE n.id \in Chain(tree, y)
      BY <1>3, <3>2, ChainIsClosed DEF ClosedUnder
    <3>3. CASE y \in Chain(tree, n.id) /\ y # n.id
      <4>1. PICK m \in tree : m.id = n.id /\ y \in Chain(tree, m.parent)
        BY <2>1, <3>3, ChainOfParent
      <4>2. m = n
        BY <4>1 DEF Wired
      <4> QED
        BY <4>1, <4>2
    <3> QED
      BY <1>3, <3>1, <3>2, <3>3
  <2> QED
    BY <2>1, <2>2
<1>4. ClosedUnder(tree, T)
  BY <1>3 DEF ClosedUnder
<1>5. T \in SUBSET Ids
  BY <1>1
<1> HIDE DEF T
<1>6. C \subseteq T
  BY <1>2, <1>4, <1>5, ChainIsLeast
<1> QED
  BY <1>6 DEF T

(* Two nodes are above each other only if they are one.                    *)
LEMMA ChainIsAcyclic ==
    ASSUME NEW tree, Wired(tree), Acyclic(tree), NEW a \in Ids, NEW b \in Chain(tree, a),
           a \in Chain(tree, b)
    PROVE  a = b
<1> SUFFICES ASSUME a # b PROVE FALSE
  OBVIOUS
<1>1. PICK n \in tree : n.id = a /\ n.parent # NoNode /\ b \in Chain(tree, n.parent)
  BY ChainOfParent
<1>2. a \in Chain(tree, n.parent)
  BY <1>1, ChainGoesOn
<1> QED
  BY <1>1, <1>2 DEF Acyclic

(* The chains of a part of the nodes: those of an id whose ancestors in    *)
(* the part all have their node there are the same in the whole.           *)
LEMMA ChainOfPart ==
    ASSUME NEW tree, Wired(tree), NEW part \in SUBSET tree,
           \A n \in part : n.parent # NoNode => \E p \in part : p.id = n.parent,
           NEW id, \E n \in part : n.id = id
    PROVE  Chain(part, id) = Chain(tree, id)
<1>1. Wired(part)
  BY DEF Wired
<1> DEFINE C == Chain(part, id)
           known == {a \in Ids : \E n \in part : n.id = a}
<1>2. C \in SUBSET Ids /\ ClosedUnder(part, C) /\ id \in C
  BY <1>1, ChainIsClosed DEF Wired
<1>3. C \subseteq known
  <2>1. ClosedUnder(part, known)
    <3> SUFFICES ASSUME NEW n \in part, n.parent # NoNode PROVE n.parent \in known
      BY DEF ClosedUnder
    <3> QED
      BY <1>1 DEF Wired
  <2>2. id \in known /\ known \in SUBSET Ids
    BY <1>1 DEF Wired
  <2> HIDE DEF known
  <2> QED
    BY <2>1, <2>2, ChainIsLeast
<1>4. ClosedUnder(tree, C)
  <2> SUFFICES ASSUME NEW n \in tree, n.id \in C, n.parent # NoNode PROVE n.parent \in C
    BY DEF ClosedUnder
  <2>1. PICK m \in part : m.id = n.id
    BY <1>3
  <2>2. m = n
    BY <2>1 DEF Wired
  <2> QED
    BY <1>2, <2>1, <2>2 DEF ClosedUnder
<1>5. Chain(tree, id) \subseteq C
  BY <1>2, <1>4, ChainIsLeast
<1>6. /\ Chain(tree, id) \in SUBSET Ids /\ id \in Chain(tree, id)
      /\ ClosedUnder(tree, Chain(tree, id))
  BY ChainIsClosed DEF Wired
<1>7. C \subseteq Chain(tree, id)
  <2>1. ClosedUnder(part, Chain(tree, id))
    BY <1>6 DEF ClosedUnder
  <2> QED
    BY <1>6, <2>1, ChainIsLeast
<1> QED
  BY <1>5, <1>7

-----------------------------------------------------------------------------
(* Trees and rows as the validation leaves them.                           *)

(* A valid version is a forest, with each parent that a node names.        *)
LEMMA ValidIsTree ==
    ASSUME NEW tree, \A n \in tree : n \in Node, ValidVersion(tree)
    PROVE  /\ Wired(tree) /\ Acyclic(tree)
           /\ \A n \in tree : n.parent # NoNode => \E p \in tree : p.id = n.parent
           /\ \A n \in tree : n.level = "TOH" => n.parent = NoNode
<1>1. \A n \in tree : n.id \in Ids /\ n.parent \in Ids \cup {NoNode}
  BY DEF Node
<1> QED
  BY <1>1 DEF ValidVersion, Wired, Acyclic

(* The nodes that a request works on.                                      *)
LEMMA ActiveNodes ==
    ASSUME org \in Organisations
    PROVE  /\ ActiveTree \in SUBSET org /\ IsFiniteSet(ActiveTree)
           /\ \A n \in ActiveTree : n \in Node /\ n.version = Version(date)
<1>1. ActiveTree \in SUBSET org /\ \A n \in ActiveTree : n.version = Version(date)
  BY DEF ActiveTree
<1>2. IsFiniteSet(org) /\ \A n \in org : n \in Node
  BY OrganisationsAssumption
<1> QED
  BY <1>1, <1>2, FS_Subset

(* The deepest node of a row is one of its keys.                           *)
LEMMA DeepestIsKey ==
    ASSUME NEW r, r.keys \in KeySets
    PROVE  /\ Deepest(r) \in Ids /\ \E l \in DOMAIN r.keys : Deepest(r) = r.keys[l]
           /\ "TOH" \in DOMAIN r.keys
<1>1. PICK levels \in SUBSET Levels : r.keys \in [levels \cup {"TOH"} -> Ids]
  BY DEF KeySets
<1> DEFINE given == {i \in DOMAIN LevelOrder : LevelOrder[i] \in DOMAIN r.keys}
<1>2. DOMAIN LevelOrder = 1 .. 7 /\ LevelOrder[1] = "TOH"
  BY DEF LevelOrder
<1>3. given \in SUBSET Int /\ IsFiniteSet(given) /\ given # {}
  <2>1. given \in SUBSET (1 .. 7)
    BY <1>2
  <2>2. 1 \in given
    BY <1>1, <1>2
  <2> HIDE DEF given
  <2>3. IsFiniteSet(1 .. 7)
    <3> DEFINE first == 1
               last == 7
    <3>1. first \in Int /\ last \in Int
      OBVIOUS
    <3> HIDE DEF first, last
    <3>2. IsFiniteSet(first .. last)
      BY <3>1, FS_Interval
    <3> QED
      BY <3>2 DEF first, last
  <2>4. given \in SUBSET Int
    BY <2>1
  <2> DEFINE places == 1 .. 7
  <2> HIDE DEF places
  <2>5. IsFiniteSet(given)
    <3>1. IsFiniteSet(places) /\ given \in SUBSET places
      BY <2>1, <2>3 DEF places
    <3> QED
      BY <3>1, FS_Subset
  <2> QED
    BY <2>2, <2>4, <2>5
<1> HIDE DEF given
<1>4. PICK k \in given : \A j \in given : j <= k
  BY <1>3, FiniteMaximum
<1> DEFINE Deep(i) == /\ LevelOrder[i] \in DOMAIN r.keys
                      /\ \A j \in DOMAIN LevelOrder : LevelOrder[j] \in DOMAIN r.keys => j <= i
           i == CHOOSE i \in DOMAIN LevelOrder : Deep(i)
<1>5. k \in DOMAIN LevelOrder /\ Deep(k)
  BY <1>4 DEF given
<1>6. i \in DOMAIN LevelOrder /\ LevelOrder[i] \in DOMAIN r.keys
  <2> HIDE DEF Deep
  <2>1. i \in DOMAIN LevelOrder /\ Deep(i)
    BY <1>5
  <2> QED
    BY <2>1 DEF Deep
<1>7. Deepest(r) = r.keys[LevelOrder[i]]
  BY DEF Deepest
<1> HIDE DEF i
<1> QED
  BY <1>1, <1>6, <1>7

(* A row that is mapped is under a node for each of its keys.              *)
LEMMA RowsAreUnder ==
    ASSUME rows \in RowSets, NEW r \in rows, NEW tree, Mapped(r, tree)
    PROVE  /\ Deepest(r) \in Ids /\ \E n \in tree : n.id = Deepest(r)
           /\ \E n \in tree : n.level = "TOH" /\ n.id \in Chain(tree, Deepest(r))
<1>1. r.keys \in KeySets
  BY RowsAssumption
<1>2. PICK l \in DOMAIN r.keys : Deepest(r) = r.keys[l]
  BY <1>1, DeepestIsKey
<1> QED
  BY <1>1, <1>2, DeepestIsKey DEF Mapped

(* Among the nodes above an id that are looked for there is a nearest one. *)
LEMMA NearestIsThere ==
    ASSUME NEW tree, Wired(tree), NEW id \in Ids, NEW above \in SUBSET tree, above # {},
           IsFiniteSet(above),
           \A p \in above : p.id \in Chain(tree, id)
    PROVE  \E p \in above : \A q \in above : q.id \in Chain(tree, p.id)
<1> DEFINE below(p) == {q \in above : q.id \notin Chain(tree, p.id)}
           B == {below(p) : p \in above}
<1>1. PICK U \in B : \A V \in B : V \subseteq U => V = U
  <2>1. B \in SUBSET SUBSET above /\ B # {}
    OBVIOUS
  <2> HIDE DEF B
  <2> QED
    BY <2>1, SmallestSet
<1>2. PICK p \in above : U = below(p)
  BY <1>1
<1>3. ASSUME NEW q \in above, q.id \notin Chain(tree, p.id) PROVE FALSE
  <2>1. p.id \in Chain(tree, q.id)
    BY <1>3, ChainIsLinear
  <2>2. Chain(tree, p.id) \subseteq Chain(tree, q.id)
    BY <2>1, ChainGoesOn
  <2>3. q.id \in Chain(tree, q.id)
    BY ChainIsClosed DEF Wired
  <2>4. below(q) \subseteq U /\ q \in U /\ q \notin below(q)
    BY <1>2, <1>3, <2>2, <2>3
  <2> QED
    BY <1>1, <2>4
<1> QED
  BY <1>2, <1>3

-----------------------------------------------------------------------------
(* The aggregates of a view.                                               *)

(* The nodes above n that are shown with it.                               *)
Above(n, tree, grouping) ==
    {p \in tree : Matches(p, grouping) /\ p.id \in Chain(tree, n.parent)}

(* An aggregate is placed under the nearest of them, if there is one.      *)
LEMMA PlacedUnderNearest ==
    ASSUME NEW tree, Wired(tree), IsFiniteSet(tree), NEW n \in tree, NEW grouping
    PROVE  LET parent == SelectedParent(n, tree, grouping)
               above == Above(n, tree, grouping)
           IN  /\ n.parent = NoNode \/ above = {} => parent = NoNode
               /\ n.parent # NoNode /\ above # {} =>
                      \E p \in above : parent = p.id /\ \A q \in above : q.id \in Chain(tree, p.id)
<1> DEFINE above == Above(n, tree, grouping)
           nearest == CHOOSE p \in above : \A q \in above : q.id \in Chain(tree, p.id)
<1>1. SelectedParent(n, tree, grouping) =
          IF n.parent = NoNode \/ above = {} THEN NoNode ELSE nearest.id
  BY DEF SelectedParent, Above
<1>2. ASSUME n.parent # NoNode, above # {}
      PROVE  nearest \in above /\ \A q \in above : q.id \in Chain(tree, nearest.id)
  <2>1. n.parent \in Ids
    BY <1>2 DEF Wired
  <2>2. above \in SUBSET tree /\ \A p \in above : p.id \in Chain(tree, n.parent)
    BY DEF Above
  <2>3. IsFiniteSet(above)
    BY <2>2, FS_Subset
  <2> HIDE DEF above
  <2>4. \E p \in above : \A q \in above : q.id \in Chain(tree, p.id)
    BY <1>2, <2>1, <2>2, <2>3, NearestIsThere
  <2> QED
    BY <2>4
<1> HIDE DEF nearest, above
<1> QED
  BY <1>1, <1>2 DEF above

Shown(grouping) ==
    {n \in ActiveTree : /\ Matches(n, grouping)
                        /\ RowsUnder(RowsOf(Version(date)), ActiveTree, n.id) # {}}

(* The view is the answer to a grouping, of nodes and rows that are valid. *)
Aggregated ==
    /\ TreeResolves
    /\ \A r \in RowsOf(Version(date)) : Mapped(r, ActiveTree)
    /\ view.grouping \in Groupings
    /\ view = [status |-> "OK", grouping |-> view.grouping,
               groups |-> {AggregateRow(n, ActiveTree, view.grouping, RowsOf(Version(date))) :
                               n \in Shown(view.grouping)}]

Raised == [status |-> "raised", grouping |-> {}, groups |-> {}]

ViewInv ==
    /\ org \in Organisations /\ rows \in RowSets /\ date \in Dates
    /\ view = NoView \/ view = Raised \/ Aggregated

(* Of whom an aggregate is, what it sums over, and where it is placed.     *)
LEMMA GroupIsOfNode ==
    ASSUME ViewInv, NEW g \in view.groups
    PROVE  /\ Aggregated
           /\ \E n \in Shown(view.grouping) :
                  /\ g = AggregateRow(n, ActiveTree, view.grouping, RowsOf(Version(date)))
                  /\ g.row_id = [version |-> n.version, id |-> n.id, level |-> n.level]
                  /\ g.row_id.id = n.id /\ g.row_id.version = n.version
                  /\ g.parent = SelectedParent(n, ActiveTree, view.grouping)
                  /\ g.sources = RowsUnder(RowsOf(Version(date)), ActiveTree, n.id)
                  /\ n \in ActiveTree /\ Matches(n, view.grouping) /\ g.sources # {}
<1>1. Aggregated
  BY DEF ViewInv, NoView, Raised
<1>2. PICK n \in Shown(view.grouping) :
          g = AggregateRow(n, ActiveTree, view.grouping, RowsOf(Version(date)))
  BY <1>1 DEF Aggregated
<1>3. /\ g.row_id = [version |-> n.version, id |-> n.id, level |-> n.level]
      /\ g.parent = SelectedParent(n, ActiveTree, view.grouping)
      /\ g.sources = RowsUnder(RowsOf(Version(date)), ActiveTree, n.id)
  BY <1>2 DEF AggregateRow
<1>4. g.row_id.id = n.id /\ g.row_id.version = n.version
  BY <1>3
<1>5. n \in ActiveTree /\ Matches(n, view.grouping) /\ g.sources # {}
  BY <1>3 DEF Shown
<1> QED
  BY <1>1, <1>2, <1>3, <1>4, <1>5

(* Every node that is shown has its aggregate.                             *)
LEMMA ShownHasGroup ==
    ASSUME ViewInv, Aggregated, NEW n \in Shown(view.grouping)
    PROVE  \E g \in view.groups :
               /\ g.row_id.id = n.id /\ g.row_id.version = n.version
               /\ g.parent = SelectedParent(n, ActiveTree, view.grouping)
               /\ g.sources = RowsUnder(RowsOf(Version(date)), ActiveTree, n.id)
<1> DEFINE g == AggregateRow(n, ActiveTree, view.grouping, RowsOf(Version(date)))
<1>1. g \in view.groups
  BY DEF Aggregated
<1>2. /\ g.row_id.id = n.id /\ g.row_id.version = n.version
      /\ g.parent = SelectedParent(n, ActiveTree, view.grouping)
      /\ g.sources = RowsUnder(RowsOf(Version(date)), ActiveTree, n.id)
  BY DEF AggregateRow
<1> HIDE DEF g
<1> QED
  BY <1>1, <1>2

(* The nodes of a view are a valid tree, and its rows hang on it.          *)
LEMMA TreeOfView ==
    ASSUME ViewInv, Aggregated
    PROVE  /\ Wired(ActiveTree) /\ Acyclic(ActiveTree) /\ IsFiniteSet(ActiveTree)
           /\ \A n \in ActiveTree : n.parent # NoNode => \E p \in ActiveTree : p.id = n.parent
           /\ \A n \in ActiveTree : n.level = "TOH" => n.parent = NoNode
           /\ \A r \in RowsOf(Version(date)) :
                  /\ Deepest(r) \in Ids /\ \E n \in ActiveTree : n.id = Deepest(r)
                  /\ \E n \in ActiveTree : n.level = "TOH" /\ n.id \in Chain(ActiveTree, Deepest(r))
<1>1. /\ \A n \in ActiveTree : n \in Node
      /\ IsFiniteSet(ActiveTree)
  BY ActiveNodes DEF ViewInv
<1>2. ValidVersion(ActiveTree)
  BY DEF Aggregated, TreeResolves
<1>3. \A r \in RowsOf(Version(date)) : r \in rows /\ Mapped(r, ActiveTree)
  BY DEF Aggregated, RowsOf
<1>4. rows \in RowSets
  BY DEF ViewInv
<1> QED
  BY <1>1, <1>2, <1>3, <1>4, ValidIsTree, RowsAreUnder

(* The rows under a node are rows of the nodes above it.                   *)
LEMMA RowsGoUp ==
    ASSUME NEW tree, Wired(tree), NEW scope, NEW n \in tree, n.parent # NoNode,
           NEW p, p \in Chain(tree, n.parent)
    PROVE  RowsUnder(scope, tree, n.id) \subseteq RowsUnder(scope, tree, p)
<1>1. n.id \in Ids /\ n.parent \in Ids
  BY DEF Wired
<1>2. ASSUME NEW d, n.id \in Chain(tree, d) PROVE p \in Chain(tree, d)
  <2>1. n.parent \in Chain(tree, d)
    BY <1>2, ChainIsClosed DEF ClosedUnder
  <2> QED
    BY <2>1, ChainGoesOn
<1> QED
  BY <1>2 DEF RowsUnder

(* The node that a shown node is placed under is shown.                    *)
LEMMA PlacedUnderShown ==
    ASSUME ViewInv, Aggregated, NEW n \in Shown(view.grouping),
           SelectedParent(n, ActiveTree, view.grouping) # NoNode
    PROVE  \E p \in Shown(view.grouping) :
               /\ SelectedParent(n, ActiveTree, view.grouping) = p.id
               /\ n.parent # NoNode /\ p.id \in Chain(ActiveTree, n.parent)
               /\ \A q \in Above(n, ActiveTree, view.grouping) : q.id \in Chain(ActiveTree, p.id)
<1> DEFINE tree == ActiveTree
           scope == RowsOf(Version(date))
           above == Above(n, tree, view.grouping)
           parent == SelectedParent(n, tree, view.grouping)
<1>1. Wired(tree) /\ IsFiniteSet(tree) /\ n \in tree
  BY TreeOfView DEF Shown
<1>2. n.parent # NoNode /\ above # {}
  BY <1>1, PlacedUnderNearest
<1>3. PICK p \in above : parent = p.id /\ \A q \in above : q.id \in Chain(tree, p.id)
  BY <1>1, <1>2, PlacedUnderNearest
<1>4. p \in tree /\ Matches(p, view.grouping) /\ p.id \in Chain(tree, n.parent)
  BY DEF Above
<1>5. RowsUnder(scope, tree, n.id) \subseteq RowsUnder(scope, tree, p.id)
  BY <1>1, <1>2, <1>4, RowsGoUp
<1>6. p \in Shown(view.grouping)
  BY <1>4, <1>5 DEF Shown
<1> QED
  BY <1>2, <1>3, <1>4, <1>6

(* Two nodes that are placed under one have no row in common.              *)
LEMMA SiblingsAreApart ==
    ASSUME ViewInv, Aggregated, NEW m \in Shown(view.grouping), NEW n \in Shown(view.grouping),
           m # n, SelectedParent(m, ActiveTree, view.grouping) =
                      SelectedParent(n, ActiveTree, view.grouping),
           NEW r \in RowsOf(Version(date)),
           m.id \in Chain(ActiveTree, Deepest(r)), n.id \in Chain(ActiveTree, Deepest(r)),
           m.id \in Chain(ActiveTree, n.id)
    PROVE  FALSE
<1> DEFINE tree == ActiveTree
           grouping == view.grouping
<1>1. /\ Wired(tree) /\ Acyclic(tree) /\ IsFiniteSet(tree) /\ m \in tree /\ n \in tree
      /\ Matches(m, grouping)
  BY TreeOfView DEF Shown
<1>2. m.id # n.id /\ n.id \in Ids /\ m.id \in Ids
  BY <1>1 DEF Wired
<1>3. n.parent # NoNode /\ m.id \in Chain(tree, n.parent)
  <2>1. PICK k \in tree : k.id = n.id /\ k.parent # NoNode /\ m.id \in Chain(tree, k.parent)
    BY <1>1, <1>2, ChainOfParent
  <2>2. k = n
    BY <1>1, <2>1 DEF Wired
  <2> QED
    BY <2>1, <2>2
<1>4. m \in Above(n, tree, grouping)
  BY <1>1, <1>3 DEF Above
<1>5. SelectedParent(n, tree, grouping) # NoNode
  <2>1. \E p \in tree : SelectedParent(n, tree, grouping) = p.id
    BY <1>1, <1>3, <1>4, PlacedUnderNearest DEF Above
  <2> QED
    BY <1>1, <2>1, NoNodeAssumption DEF Wired
<1>6. PICK p \in Shown(grouping) :
          /\ SelectedParent(n, tree, grouping) = p.id
          /\ \A q \in Above(n, tree, grouping) : q.id \in Chain(tree, p.id)
  BY <1>5, PlacedUnderShown
<1>7. m.id \in Chain(tree, p.id)
  BY <1>4, <1>6
<1>8. PICK q \in Shown(grouping) :
          /\ SelectedParent(m, tree, grouping) = q.id
          /\ m.parent # NoNode /\ q.id \in Chain(tree, m.parent)
  BY <1>5, PlacedUnderShown
<1>9. p.id \in Chain(tree, m.parent)
  BY <1>6, <1>8
<1>10. m.id \in Chain(tree, m.parent)
  BY <1>1, <1>7, <1>9, ChainGoesOn
<1> QED
  BY <1>1, <1>8, <1>10 DEF Acyclic

(* The sums of a view add up.                                              *)
LEMMA ViewAddsUp == ViewInv => RollUpAddsUp
<1> SUFFICES ASSUME ViewInv PROVE RollUpAddsUp
  OBVIOUS
<1> DEFINE tree == ActiveTree
           grouping == view.grouping
           scope == RowsOf(Version(date))
<1>1. ASSUME NEW g \in view.groups, g.parent # NoNode
      PROVE  \E h \in view.groups : h.row_id.id = g.parent
  <2>1. PICK n \in Shown(grouping) : g.parent = SelectedParent(n, tree, grouping)
    BY GroupIsOfNode
  <2>2. Aggregated
    BY GroupIsOfNode
  <2>3. PICK p \in Shown(grouping) : g.parent = p.id
    BY <1>1, <2>1, <2>2, PlacedUnderShown
  <2> QED
    BY <2>2, <2>3, ShownHasGroup
<1>2. ASSUME NEW g \in view.groups, NEW h \in Under(g) PROVE h.sources \subseteq g.sources
  <2>1. h \in view.groups /\ h.parent = g.row_id.id
    BY DEF Under
  <2>2. PICK n \in Shown(grouping) :
            /\ g.row_id.id = n.id /\ n \in tree /\ g.sources = RowsUnder(scope, tree, n.id)
    BY GroupIsOfNode
  <2>3. PICK m \in Shown(grouping) :
            /\ h.parent = SelectedParent(m, tree, grouping) /\ m \in tree
            /\ h.sources = RowsUnder(scope, tree, m.id)
    BY <2>1, GroupIsOfNode
  <2>4. Aggregated /\ Wired(tree)
    BY GroupIsOfNode, TreeOfView
  <2>5. SelectedParent(m, tree, grouping) = n.id /\ n.id # NoNode
    BY <2>1, <2>2, <2>3, <2>4, NoNodeAssumption DEF Wired
  <2>6. m.parent # NoNode /\ n.id \in Chain(tree, m.parent)
    BY <2>4, <2>5, PlacedUnderShown
  <2> QED
    BY <2>2, <2>3, <2>4, <2>6, RowsGoUp
<1>3. ASSUME NEW g \in view.groups, NEW h \in view.groups \ {g}, h.parent = g.parent
      PROVE  h.sources \cap g.sources = {}
  <2> SUFFICES ASSUME NEW r, r \in h.sources, r \in g.sources PROVE FALSE
    OBVIOUS
  <2>1. PICK n \in Shown(grouping) :
            /\ g = AggregateRow(n, tree, grouping, scope) /\ n \in tree
            /\ g.parent = SelectedParent(n, tree, grouping)
            /\ g.sources = RowsUnder(scope, tree, n.id)
    BY GroupIsOfNode
  <2>2. PICK m \in Shown(grouping) :
            /\ h = AggregateRow(m, tree, grouping, scope) /\ m \in tree
            /\ h.parent = SelectedParent(m, tree, grouping)
            /\ h.sources = RowsUnder(scope, tree, m.id)
    BY GroupIsOfNode
  <2>3. Aggregated /\ Wired(tree)
    BY GroupIsOfNode, TreeOfView
  <2>4. m # n
    BY <2>1, <2>2
  <2>5. /\ r \in scope
        /\ m.id \in Chain(tree, Deepest(r)) /\ n.id \in Chain(tree, Deepest(r))
    BY <2>1, <2>2 DEF RowsUnder
  <2>6. Deepest(r) \in Ids
    BY <2>3, <2>5, TreeOfView
  <2>7. m.id \in Chain(tree, n.id) \/ n.id \in Chain(tree, m.id)
    BY <2>3, <2>5, <2>6, ChainIsLinear
  <2>8. SelectedParent(m, tree, grouping) = SelectedParent(n, tree, grouping)
    BY <1>3, <2>1, <2>2
  <2> QED
    BY <2>3, <2>4, <2>5, <2>7, <2>8, SiblingsAreApart
<1>4. ASSUME view.status = "OK", "TOH" \in grouping, NEW r \in scope
      PROVE  \E g \in view.groups : g.parent = NoNode /\ r \in g.sources
  <2>1. Aggregated
    BY <1>4 DEF ViewInv, NoView, Raised
  <2>2. PICK n \in tree : n.level = "TOH" /\ n.id \in Chain(tree, Deepest(r))
    BY <2>1, TreeOfView
  <2>3. Wired(tree) /\ IsFiniteSet(tree) /\ n.parent = NoNode
    BY <2>1, <2>2, TreeOfView
  <2>4. r \in RowsUnder(scope, tree, n.id)
    BY <2>2 DEF RowsUnder
  <2>5. n \in Shown(grouping)
    BY <1>4, <2>2, <2>4 DEF Shown, Matches
  <2>6. SelectedParent(n, tree, grouping) = NoNode
    BY <2>3, PlacedUnderNearest
  <2> QED
    BY <2>1, <2>4, <2>5, <2>6, ShownHasGroup
<1> QED
  BY <1>1, <1>2, <1>3, <1>4 DEF RollUpAddsUp

-----------------------------------------------------------------------------
(* The rows behind an aggregate, and the pages under a node.               *)

(* All nodes of the version, of any date, lead to the rows that the nodes  *)
(* of the day led to, if they are a valid version themselves.              *)
LEMMA TraceFindsRows ==
    ASSUME ViewInv, NEW g \in view.groups,
           \A v \in Versions : LET nodes == {n \in org : n.version = v}
                               IN  nodes = {} \/ ValidVersion(nodes)
    PROVE  RowsUnder(RowsOf(g.row_id.version), {n \in org : n.version = g.row_id.version},
                     g.row_id.id) = g.sources
<1> DEFINE part == ActiveTree
           tree == {n \in org : n.version = Version(date)}
           scope == RowsOf(Version(date))
<1>1. PICK n \in part :
          /\ g.row_id.id = n.id /\ g.row_id.version = n.version
          /\ g.sources = RowsUnder(scope, part, n.id)
  BY GroupIsOfNode
<1>2. Aggregated
  BY GroupIsOfNode
<1>3. /\ part \in SUBSET org /\ n \in Node /\ \A m \in part : m.version = Version(date)
  BY ActiveNodes DEF ViewInv
<1>4. g.row_id.version = Version(date) /\ Version(date) \in Versions
  BY <1>1, <1>3 DEF Node
<1>5. part \in SUBSET tree /\ tree # {} /\ \A m \in tree : m \in Node
  <2>1. \A m \in org : m \in Node
    BY OrganisationsAssumption DEF ViewInv
  <2> QED
    BY <1>1, <1>3, <2>1
<1>6. Wired(tree)
  BY <1>4, <1>5, ValidIsTree
<1>7. ASSUME NEW r \in scope PROVE Chain(part, Deepest(r)) = Chain(tree, Deepest(r))
  <2>1. \E m \in part : m.id = Deepest(r)
    BY <1>2, TreeOfView
  <2>2. \A m \in part : m.parent # NoNode => \E p \in part : p.id = m.parent
    BY <1>2, TreeOfView
  <2> HIDE DEF tree
  <2> QED
    BY <1>5, <1>6, <2>1, <2>2, ChainOfPart
<1>8. RowsUnder(scope, tree, n.id) = RowsUnder(scope, part, n.id)
  BY <1>7 DEF RowsUnder
<1> QED
  BY <1>1, <1>4, <1>8

(* Rows in the order of their ids: each once.                              *)
LEMMA SortedIsOrder ==
    ASSUME rows \in RowSets, NEW some \in SUBSET rows
    PROVE  /\ Cardinality(some) \in Nat /\ Cardinality(some) <= Cardinality(rows)
           /\ Cardinality(rows) \in Nat
           /\ Sorted(some) \in Seq(some) /\ Len(Sorted(some)) = Cardinality(some)
           /\ IsInjective(Sorted(some)) /\ Range(Sorted(some)) = some
<1> DEFINE n == Cardinality(some)
           key == [r \in some |-> r.row]
           rank == RankIn(some, key)
           at(i) == CHOOSE r \in some : Cardinality({q \in some : q.row <= r.row}) = i
           all == Sorted(some)
<1>1. /\ IsFiniteSet(some) /\ n \in Nat /\ n <= Cardinality(rows) /\ Cardinality(rows) \in Nat
  <2>1. IsFiniteSet(rows)
    BY PagesAssumption
  <2> QED
    BY <2>1, FS_Subset, FS_CardinalityType
<1>2. key \in [some -> Int] /\ \A q, r \in some : key[q] = key[r] => q = r
  BY RowsAssumption
<1>3. /\ rank \in [some -> 1 .. n]
      /\ \A q, r \in some : rank[q] < rank[r] <=> key[q] < key[r]
      /\ \A i \in 1 .. n : \E r \in some : rank[r] = i
  <2> HIDE DEF key
  <2> QED
    BY <1>1, <1>2, RankIsPlace
<1>4. \A r \in some : rank[r] = Cardinality({q \in some : q.row <= r.row})
  <2> TAKE r \in some
  <2>1. {q \in some : key[q] <= key[r]} = {q \in some : q.row <= r.row}
    OBVIOUS
  <2> QED
    BY <2>1 DEF RankIn
<1>5. all = [i \in 1 .. n |-> at(i)]
  BY DEF Sorted
<1>6. \A q, r \in some : rank[q] = rank[r] => q = r
  <2> TAKE q, r \in some
  <2>1. /\ rank[q] \in Nat /\ rank[r] \in Nat /\ key[q] \in Int /\ key[r] \in Int
        /\ rank[q] < rank[r] <=> key[q] < key[r]
        /\ rank[r] < rank[q] <=> key[r] < key[q]
    <3> HIDE DEF rank, key, n
    <3> QED
      BY <1>1, <1>2, <1>3
  <2>2. key[q] = key[r] => q = r
    BY <1>2
  <2> HIDE DEF rank, key
  <2> QED
    BY <2>1, <2>2
<1> HIDE DEF rank, key, n, all
<1>7. \A i \in 1 .. n : all[i] \in some /\ rank[all[i]] = i
  <2> TAKE i \in 1 .. n
  <2>1. at(i) \in some /\ Cardinality({q \in some : q.row <= at(i).row}) = i
    BY <1>3, <1>4
  <2>2. all[i] = at(i)
    BY <1>5
  <2> HIDE DEF at
  <2> QED
    BY <1>4, <2>1, <2>2
<1> HIDE DEF at
<1>8. all \in [1 .. n -> some] /\ DOMAIN all = 1 .. n
  BY <1>5, <1>7
<1>9. all \in Seq(some) /\ Len(all) = n
  BY <1>1, <1>8, IsASeq, LenProperties
<1>10. IsInjective(all)
  BY <1>7, <1>8 DEF IsInjective
<1>11. Range(all) = some
  <2>1. \A r \in some : rank[r] \in 1 .. n /\ all[rank[r]] = r
    BY <1>3, <1>6, <1>7
  <2> QED
    BY <1>7, <1>8, <2>1 DEF Range
<1> QED
  BY <1>1, <1>9, <1>10, <1>11 DEF n, all

(* What has been listed of the rows under a node.                          *)
Listing(d) ==
    LET all == Sorted(NodeRows(d.node, d.framework))
    IN  \/ /\ d.status = "more" /\ d.offset \in 1 .. Len(all) /\ d.offset < Len(all)
           /\ d.listed = SubSeq(all, 1, d.offset)
        \/ /\ d.status = IF all = <<>> THEN "NO_DATA" ELSE "OK"
           /\ d.offset \in 0 .. Len(all) /\ d.listed = all

(* A page goes on where the last one ended.                                *)
LEMMA PageGoesOn ==
    ASSUME rows \in RowSets, NEW id, NEW framework, NEW offset, NEW limit \in Limits,
           LET all == Sorted(NodeRows(id, framework)) IN offset \in 0 .. Len(all)
    PROVE  LET all == Sorted(NodeRows(id, framework))
               page == Page(id, framework, SubSeq(all, 1, offset), offset, limit)
           IN  page.node = id /\ page.framework = framework /\ Listing(page)
<1> DEFINE all == Sorted(NodeRows(id, framework))
           length == Len(all)
           page == Page(id, framework, SubSeq(all, 1, offset), offset, limit)
           end == offset + limit
           last == IF end < length THEN end ELSE length
<1>1. all \in Seq(rows) /\ length \in Nat /\ SubSeq(all, 1, length) = all
  <2>1. NodeRows(id, framework) \in SUBSET rows
    BY DEF NodeRows, RowsUnder, RowsOf
  <2>2. all \in Seq(NodeRows(id, framework))
    BY <2>1, SortedIsOrder
  <2> HIDE DEF all
  <2> QED
    BY <2>1, <2>2, SeqMonotonic, LenProperties, SubSeqFull
<1>2. page = [status |-> IF end < length THEN "more" ELSE IF all = <<>> THEN "NO_DATA" ELSE "OK",
              node |-> id, framework |-> framework,
              listed |-> SubSeq(all, 1, offset) \o SubSeq(all, offset + 1, last),
              offset |-> IF end < length THEN end ELSE offset]
  BY DEF Page
<1>3. limit \in Nat /\ limit >= 1
  BY PagesAssumption
<1> DEFINE listed == SubSeq(all, 1, offset) \o SubSeq(all, offset + 1, last)
<1> HIDE DEF all, page, listed
<1>4. listed = SubSeq(all, 1, last)
  <2>1. 1 \in 1 .. Len(all) + 1 /\ offset \in 1 - 1 .. Len(all) /\ last \in offset .. Len(all)
    BY <1>1, <1>3 DEF all
  <2> HIDE DEF last
  <2> QED
    BY <1>1, <2>1, ConcatAdjacentSubSeq DEF listed
<1>5. /\ page.status = IF end < length THEN "more" ELSE IF all = <<>> THEN "NO_DATA" ELSE "OK"
      /\ page.node = id /\ page.framework = framework /\ page.listed = listed
      /\ page.offset = IF end < length THEN end ELSE offset
  BY <1>2 DEF listed
<1>6. \/ /\ page.status = "more" /\ page.offset \in 1 .. Len(all) /\ page.offset < Len(all)
         /\ page.listed = SubSeq(all, 1, page.offset)
      \/ /\ page.status = IF all = <<>> THEN "NO_DATA" ELSE "OK"
         /\ page.offset \in 0 .. Len(all) /\ page.listed = all
  <2>1. CASE end < length
    <3>1. end \in 1 .. Len(all) /\ end < Len(all)
      BY <1>1, <1>3, <2>1 DEF all
    <3> QED
      BY <1>4, <1>5, <2>1, <3>1
  <2>2. CASE ~(end < length)
    <3>1. offset \in 0 .. Len(all)
      BY DEF all
    <3> QED
      BY <1>1, <1>4, <1>5, <2>2, <3>1
  <2> QED
    BY <2>1, <2>2
<1>7. all = Sorted(NodeRows(page.node, page.framework))
  BY <1>5 DEF all
<1>8. Listing(page)
  BY <1>6, <1>7 DEF Listing
<1> QED
  BY <1>5, <1>8 DEF page, all

-----------------------------------------------------------------------------
(* The inductive invariant: an answer is none, a refusal, or what the      *)
(* nodes and rows of the session make it.                                  *)

TraceInv ==
    \/ trace.status \in {"none", "raised"} /\ trace.sources = {}
    \/ /\ trace.status = "OK"
       /\ \E g \in view.groups : g.row_id = trace.row_id /\ g.sources = trace.sources

DetailInv ==
    \/ detail.status \in {"none", "raised"} /\ detail.listed = <<>> /\ detail.offset = 0
    \/ view # NoView /\ ~NodeRaises(detail.node, detail.framework) /\ Listing(detail)

IInv == ViewInv /\ TraceInv /\ DetailInv

(* At the start nothing has been asked.                                    *)
LEMMA InitIInv == Init => IInv
  BY DEF Init, IInv, ViewInv, TraceInv, DetailInv, NoView, NoTrace, NoDetail

(* A view that is not refused has what the rows give each node shown.      *)
LEMMA AggregateIInv ==
    ASSUME IInv, NEW grouping \in Groupings, Aggregate(grouping)
    PROVE  IInv'
<1> DEFINE tree == ActiveTree
           scope == RowsOf(Version(date))
           refused == \/ ~ TreeResolves
                      \/ \E r \in scope : ~ Mapped(r, tree)
                      \/ \E n \in Shown(grouping) : ~ OneCurrency(RowsUnder(scope, tree, n.id))
           answer == [status |-> "OK", grouping |-> grouping,
                      groups |-> {AggregateRow(n, tree, grouping, scope) : n \in Shown(grouping)}]
<1>1. /\ view = NoView /\ org' = org /\ rows' = rows /\ date' = date
      /\ trace' = trace /\ detail' = detail
      /\ view' = IF refused THEN [NoView EXCEPT !.status = "raised"] ELSE answer
  BY DEF Aggregate, Shown
<1>2. /\ ActiveTree' = ActiveTree /\ RowsOf(Version(date))' = RowsOf(Version(date))
      /\ TreeResolves' = TreeResolves /\ \A g : Shown(g)' = Shown(g)
  BY <1>1 DEF ActiveTree, RowsOf, Version, VersionsOn, TreeResolves, Shown
<1>3. ViewInv'
  <2>1. CASE refused
    <3>1. view' = Raised
      BY <1>1, <2>1 DEF NoView, Raised
    <3> QED
      BY <1>1, <3>1 DEF IInv, ViewInv, Raised
  <2>2. CASE ~refused
    <3>1. view' = answer
      BY <1>1, <2>2
    <3>2. view'.grouping = grouping /\ view'.groups = answer.groups
      BY <3>1
    <3>3. Aggregated'
      BY <1>2, <2>2, <3>1, <3>2 DEF Aggregated
    <3> QED
      BY <1>1, <3>3 DEF IInv, ViewInv
  <2> QED
    BY <2>1, <2>2
<1>4. TraceInv'
  <2>1. view.groups = {}
    BY <1>1 DEF NoView
  <2> QED
    BY <1>1, <2>1 DEF IInv, TraceInv
<1>5. DetailInv'
  BY <1>1 DEF IInv, DetailInv
<1> QED
  BY <1>3, <1>4, <1>5 DEF IInv

(* What the organisation, the rows and the date determine.                 *)
LEMMA SessionKeeps ==
    ASSUME UNCHANGED <<org, rows, date, view>>
    PROVE  /\ ViewInv => ViewInv'
           /\ \A id, framework : /\ NodeRows(id, framework)' = NodeRows(id, framework)
                                 /\ NodeRaises(id, framework)' = NodeRaises(id, framework)
<1>1. /\ ActiveTree' = ActiveTree /\ RowsOf(Version(date))' = RowsOf(Version(date))
      /\ TreeResolves' = TreeResolves /\ \A g : Shown(g)' = Shown(g)
  BY DEF ActiveTree, RowsOf, Version, VersionsOn, TreeResolves, Shown
<1>2. Aggregated => Aggregated'
  BY <1>1 DEF Aggregated
<1> QED
  BY <1>1, <1>2 DEF ViewInv, NodeRows, NodeRaises

(* A trace that is not refused has the sources of the group it was asked   *)
(* of.                                                                     *)
LEMMA TraceIInv ==
    ASSUME IInv, NEW g \in view.groups, Trace(g.row_id)
    PROVE  IInv'
<1> DEFINE v == g.row_id.version
           tree == {n \in org : n.version = v}
           scope == RowsOf(v)
           refused == \/ \E w \in Versions : LET nodes == {n \in org : n.version = w}
                                             IN  nodes # {} /\ ~ ValidVersion(nodes)
                      \/ \E r \in scope : ~ Mapped(r, tree)
           answer == [status |-> "OK", row_id |-> g.row_id,
                      sources |-> RowsUnder(scope, tree, g.row_id.id)]
<1>1. /\ UNCHANGED <<org, rows, date, view>> /\ detail' = detail
      /\ detail = NoDetail
      /\ trace' = IF refused THEN [NoTrace EXCEPT !.status = "raised", !.row_id = g.row_id]
                  ELSE answer
  BY DEF Trace
<1>2. TraceInv'
  <2>1. CASE refused
    <3>1. trace'.status = "raised" /\ trace'.sources = {}
      BY <1>1, <2>1 DEF NoTrace
    <3> QED
      BY <3>1 DEF TraceInv
  <2>2. CASE ~refused
    <3>1. RowsUnder(scope, tree, g.row_id.id) = g.sources
      BY <2>2, TraceFindsRows DEF IInv
    <3>2. /\ trace'.status = "OK" /\ trace'.row_id = g.row_id
          /\ trace'.sources = RowsUnder(scope, tree, g.row_id.id)
      BY <1>1, <2>2
    <3> QED
      BY <1>1, <3>1, <3>2 DEF TraceInv
  <2> QED
    BY <2>1, <2>2
<1>3. ViewInv'
  BY <1>1, SessionKeeps DEF IInv
<1>4. DetailInv'
  BY <1>1 DEF DetailInv, NoDetail
<1> QED
  BY <1>2, <1>3, <1>4 DEF IInv

(* The first page lists from the first row of the node.                    *)
LEMMA OpenNodeIInv ==
    ASSUME IInv, NEW id \in Ids, NEW framework \in Components \cup {AllComponents},
           NEW limit \in Limits, OpenNode(id, framework, limit)
    PROVE  IInv'
<1>1. /\ UNCHANGED <<org, rows, date, view>> /\ trace' = trace /\ view # NoView
      /\ detail' = IF NodeRaises(id, framework) THEN [NoDetail EXCEPT !.status = "raised"]
                   ELSE Page(id, framework, <<>>, 0, limit)
  BY DEF OpenNode
<1>2. ViewInv' /\ TraceInv'
  BY <1>1, SessionKeeps DEF IInv, TraceInv
<1>3. DetailInv'
  <2>1. CASE NodeRaises(id, framework)
    BY <1>1, <2>1 DEF DetailInv, NoDetail
  <2>2. CASE ~NodeRaises(id, framework)
    <3> DEFINE all == Sorted(NodeRows(id, framework))
    <3>1. rows \in RowSets
      BY DEF IInv, ViewInv
    <3>2. Len(all) \in Nat
      <4>1. NodeRows(id, framework) \in SUBSET rows
        BY DEF NodeRows, RowsUnder, RowsOf
      <4> QED
        BY <3>1, <4>1, SortedIsOrder
    <3>3. SubSeq(all, 1, 0) = <<>> /\ 0 \in 0 .. Len(all)
      BY <3>2, SubSeqEmpty
    <3>4. detail' = Page(id, framework, SubSeq(all, 1, 0), 0, limit)
      BY <1>1, <2>2, <3>3
    <3> HIDE DEF all
    <3>5. detail'.node = id /\ detail'.framework = framework /\ Listing(detail')
      <4>1. limit \in Nat \ {0}
        BY PagesAssumption
      <4> QED
        BY <3>1, <3>3, <3>4, <4>1, PageGoesOn DEF all
    <3>6. \A f : \A d : /\ NodeRows(d, f)' = NodeRows(d, f)
                        /\ NodeRaises(d, f)' = NodeRaises(d, f)
      BY <1>1, SessionKeeps
    <3>7. Listing(detail)' /\ ~NodeRaises(detail.node, detail.framework)'
      BY <2>2, <3>5, <3>6 DEF Listing
    <3> QED
      BY <1>1, <3>7 DEF DetailInv
  <2> QED
    BY <2>1, <2>2
<1> QED
  BY <1>2, <1>3 DEF IInv

(* A page more goes on where the last one ended.                           *)
LEMMA NextPageIInv ==
    ASSUME IInv, NEW limit \in Limits, NextPage(limit)
    PROVE  IInv'
<1> DEFINE all == Sorted(NodeRows(detail.node, detail.framework))
           id == detail.node
           framework == detail.framework
<1>1. /\ UNCHANGED <<org, rows, date, view>> /\ trace' = trace /\ detail.status = "more"
      /\ detail' = Page(id, framework, detail.listed, detail.offset, limit)
  BY DEF NextPage
<1>2. ViewInv' /\ TraceInv'
  BY <1>1, SessionKeeps DEF IInv, TraceInv
<1>3. view # NoView /\ ~NodeRaises(id, framework) /\ Listing(detail)
  BY <1>1 DEF IInv, DetailInv
<1>4. detail.listed = SubSeq(all, 1, detail.offset) /\ detail.offset \in 0 .. Len(all)
  BY <1>1, <1>3 DEF Listing
<1>5. rows \in RowSets
  BY DEF IInv, ViewInv
<1>6. detail'.node = id /\ detail'.framework = framework /\ Listing(detail')
  BY <1>1, <1>4, <1>5, PageGoesOn
<1>7. \A f : \A d : /\ NodeRows(d, f)' = NodeRows(d, f)
                    /\ NodeRaises(d, f)' = NodeRaises(d, f)
  BY <1>1, SessionKeeps
<1>8. Listing(detail)' /\ ~NodeRaises(detail.node, detail.framework)'
  BY <1>3, <1>6, <1>7 DEF Listing
<1>9. DetailInv'
  BY <1>1, <1>3, <1>8 DEF DetailInv
<1> QED
  BY <1>2, <1>9 DEF IInv

(* The inductive invariant of the organisation queries: a view is none, a  *)
(* refusal, or what the rows give each node that is shown; a trace is of a *)
(* group of the view, and a listing has the rows of its node from the      *)
(* first to the end of its last page.                                      *)
THEOREM Invariance == Spec => []IInv
<1>1. IInv /\ UNCHANGED vars => IInv'
  <2> SUFFICES ASSUME IInv, UNCHANGED vars PROVE IInv'
    OBVIOUS
  <2>1. UNCHANGED <<org, rows, date, view>> /\ trace' = trace /\ detail' = detail
    BY DEF vars
  <2>2. \A f : \A d : /\ NodeRows(d, f)' = NodeRows(d, f)
                      /\ NodeRaises(d, f)' = NodeRaises(d, f)
    BY <2>1, SessionKeeps
  <2>3. Listing(detail) => Listing(detail)'
    BY <2>1, <2>2 DEF Listing
  <2> QED
    BY <2>1, <2>2, <2>3, SessionKeeps DEF IInv, TraceInv, DetailInv
<1>2. IInv /\ [Next]_vars => IInv'
  BY <1>1, AggregateIInv, TraceIInv, OpenNodeIInv, NextPageIInv DEF Next, Answered
<1> QED
  BY <1>2, InitIInv, PTL DEF Spec

-----------------------------------------------------------------------------
(* The properties.                                                         *)

(* The answers of every session are made of the nodes and rows that were   *)
(* passed, and no page starts past the rows there are.                     *)
THEOREM TypeCorrectness == Spec => []TypeOK
<1>1. IInv => TypeOK
  <2> SUFFICES ASSUME IInv PROVE TypeOK
    OBVIOUS
  <2>1. ViewInv /\ TraceInv /\ DetailInv /\ rows \in RowSets
    BY DEF IInv, ViewInv
  <2>2. ASSUME NEW g \in view.groups
        PROVE  g.parent \in Ids \cup {NoNode} /\ g.sources \subseteq rows
    <3>1. PICK n \in Shown(view.grouping) :
              /\ g.parent = SelectedParent(n, ActiveTree, view.grouping)
              /\ g.sources = RowsUnder(RowsOf(Version(date)), ActiveTree, n.id)
      BY <2>1, GroupIsOfNode
    <3>2. Aggregated /\ Wired(ActiveTree)
      BY <2>1, GroupIsOfNode, TreeOfView
    <3>3. g.parent # NoNode => \E p \in ActiveTree : g.parent = p.id
      BY <2>1, <3>1, <3>2, PlacedUnderShown DEF Shown
    <3> QED
      BY <3>1, <3>2, <3>3 DEF Wired, RowsUnder, RowsOf
  <2>3. view.status \in {"none", "OK", "raised"} /\ view.grouping \in Groupings \cup {{}}
    <3>1. CASE view = NoView \/ view = Raised
      BY <3>1 DEF NoView, Raised
    <3>2. CASE Aggregated
      BY <3>2 DEF Aggregated
    <3> QED
      BY <2>1, <3>1, <3>2 DEF ViewInv
  <2>4. trace.status \in {"none", "OK", "raised"} /\ trace.sources \subseteq rows
    BY <2>1, <2>2 DEF TraceInv
  <2>5. /\ detail.status \in {"none", "more", "NO_DATA", "OK", "raised"}
        /\ Range(detail.listed) \subseteq rows /\ detail.offset \in 0 .. Cardinality(rows)
    <3>1. CASE detail.listed = <<>> /\ detail.offset = 0 /\ detail.status \in {"none", "raised"}
      <4>1. Range(<<>>) = {}
        BY DEF Range
      <4>2. Cardinality(rows) \in Nat
        BY <2>1, PagesAssumption, FS_CardinalityType
      <4> QED
        BY <3>1, <4>1, <4>2
    <3>2. CASE Listing(detail)
      <4> DEFINE some == NodeRows(detail.node, detail.framework)
                 all == Sorted(some)
      <4>1. some \in SUBSET rows
        BY DEF NodeRows, RowsUnder, RowsOf
      <4>2. /\ all \in Seq(some) /\ Len(all) = Cardinality(some)
            /\ Cardinality(some) \in Nat /\ Cardinality(some) <= Cardinality(rows)
            /\ Cardinality(rows) \in Nat /\ Range(all) = some
        BY <2>1, <4>1, SortedIsOrder
      <4>3. /\ detail.status \in {"more", "NO_DATA", "OK"} /\ detail.offset \in 0 .. Len(all)
            /\ detail.listed = all \/ detail.listed = SubSeq(all, 1, detail.offset)
        BY <3>2 DEF Listing
      <4> HIDE DEF some, all
      <4> DEFINE count == Cardinality(some)
                 most == Cardinality(rows)
      <4>4. detail.offset \in 0 .. most
        <5>1. count \in Nat /\ most \in Nat /\ count <= most /\ detail.offset \in 0 .. count
          BY <4>2, <4>3
        <5> HIDE DEF count, most
        <5>2. detail.offset \in 0 .. most
          BY <5>1
        <5> QED
          BY <5>2
      <4>5. SubSeq(all, 1, detail.offset) \in Seq(some)
        <5>1. detail.offset \in Int /\ \A i \in 1 .. detail.offset : all[i] \in some
          BY <4>2, <4>3, ElementOfSeq
        <5> QED
          BY <5>1, SubSeqProperties
      <4>6. Range(SubSeq(all, 1, detail.offset)) \in SUBSET some
        BY <4>5, RangeOfSeq
      <4>7. Range(detail.listed) \subseteq rows
        BY <4>1, <4>2, <4>3, <4>6
      <4> QED
        BY <4>3, <4>4, <4>7
    <3> QED
      BY <2>1, <3>1, <3>2 DEF DetailInv
  <2> QED
    BY <2>1, <2>2, <2>3, <2>4, <2>5 DEF TypeOK, ViewInv
<1> QED
  BY <1>1, Invariance, PTL

(* Every amount is counted once on the way up, whichever levels are shown. *)
THEOREM AmountsAddUp == Spec => []RollUpAddsUp
<1>1. IInv => RollUpAddsUp
  BY ViewAddsUp DEF IInv
<1> QED
  BY <1>1, Invariance, PTL

(* A trace that does not raise has the rows that the aggregate counted.    *)
THEOREM TraceIsOfView == Spec => []TraceAgrees
<1>1. IInv => TraceAgrees
  BY DEF IInv, TraceInv, TraceAgrees
<1> QED
  BY <1>1, Invariance, PTL

(* The pages under a node, of whatever sizes, list each row of its         *)
(* aggregate that is of the framework, once.                               *)
THEOREM PagesReconcile == Spec => []DetailReconciles
<1>1. IInv => DetailReconciles
  <2> SUFFICES ASSUME IInv, detail.status \in {"OK", "NO_DATA"} PROVE DetailReconciles
    BY DEF DetailReconciles
  <2> DEFINE some == NodeRows(detail.node, detail.framework)
             all == Sorted(some)
             scope == RowsOf(Version(date))
             framework == detail.framework
  <2>1. ViewInv /\ Listing(detail) /\ rows \in RowSets
    BY DEF IInv, DetailInv, ViewInv
  <2>2. some \in SUBSET rows
    BY DEF NodeRows, RowsUnder, RowsOf
  <2>3. IsInjective(all) /\ Range(all) = some /\ Len(all) = Cardinality(some)
    BY <2>1, <2>2, SortedIsOrder
  <2>4. detail.listed = all /\ (detail.status = "NO_DATA" => all = <<>>)
    BY <2>1 DEF Listing
  <2>5. ASSUME NEW g \in view.groups, g.row_id.id = detail.node
        PROVE  /\ some = {r \in g.sources : framework \in {AllComponents, r.component}}
               /\ g.sources # {}
    <3>1. PICK n \in Shown(view.grouping) :
              /\ g.row_id.id = n.id /\ g.sources = RowsUnder(scope, ActiveTree, n.id)
              /\ g.sources # {}
      BY <2>1, GroupIsOfNode
    <3> QED
      BY <2>5, <3>1 DEF NodeRows, RowsUnder
  <2>6. ASSUME NEW g \in view.groups, g.row_id.id = detail.node, framework = AllComponents,
               detail.status = "NO_DATA"
        PROVE  FALSE
    <3>1. some = g.sources /\ g.sources # {}
      BY <2>5, <2>6
    <3>2. Range(<<>>) = {}
      BY DEF Range
    <3> HIDE DEF some, all
    <3> QED
      BY <2>3, <2>4, <2>6, <3>1, <3>2
  <2> HIDE DEF some, all
  <2> QED
    BY <2>3, <2>4, <2>5, <2>6 DEF DetailReconciles
<1> QED
  BY <1>1, Invariance, PTL
===============================================================================
