---------------------------- MODULE TUITreeProofs ----------------------------
(***************************************************************************)
(* What TUITree guarantees for every tree, every set of search texts and   *)
(* every terminal height, and TUIRun for every input.                      *)
(***************************************************************************)
EXTENDS TUIRun, FiniteSetTheorems, SequenceTheorems, TLAPS

-----------------------------------------------------------------------------
(***************************************************************************)
(* Numbering the rows.                                                     *)
(***************************************************************************)

\* Any set of rows is finite.
LEMMA RowsAreFinite ==
  ASSUME NEW S \in SUBSET Nodes
  PROVE  IsFiniteSet(S) /\ Cardinality(S) \in Nat
<1>1. IsFiniteSet(Nodes)
  BY SizeAssumption, FS_Interval DEF Nodes
<1>2. IsFiniteSet(S)
  BY <1>1, FS_Subset
<1> QED
  BY <1>2, FS_CardinalityType

\* More rows, no smaller a count.
LEMMA CountGrows ==
  ASSUME NEW S \in SUBSET Nodes, NEW T \in SUBSET S
  PROVE  Cardinality(T) <= Cardinality(S)
BY RowsAreFinite, FS_Subset

\* A set without one of the elements of another is the smaller one.
LEMMA CountOfProperPart ==
  ASSUME NEW S \in SUBSET Nodes, NEW T \in SUBSET S, NEW x \in S, x \notin T
  PROVE  Cardinality(T) < Cardinality(S)
<1>1. Cardinality(T) <= Cardinality(S)
  BY CountGrows
<1>2. Cardinality(T) # Cardinality(S)
  BY RowsAreFinite, FS_Subset
<1>3. Cardinality(T) \in Nat /\ Cardinality(S) \in Nat
  <2>1. T \in SUBSET Nodes
    OBVIOUS
  <2> QED
    BY <2>1, RowsAreFinite
<1> QED
  BY <1>1, <1>2, <1>3

\* Rows further down have greater indices.
LEMMA IndexGrows ==
  ASSUME NEW S \in SUBSET Nodes, NEW m \in S, NEW n \in S, m < n
  PROVE  IndexOf(m, S) < IndexOf(n, S)
<1>1. m \in Nat /\ n \in Nat /\ S \subseteq Nat
  BY SizeAssumption DEF Nodes
<1>2. Before(m, S) \in SUBSET Before(n, S)
  <2>1. \A k \in Before(m, S) : k \in Before(n, S)
    BY <1>1 DEF Before
  <2> QED
    BY <2>1
<1>3. m \in Before(n, S) /\ m \notin Before(m, S)
  BY <1>1 DEF Before
<1>4. Before(n, S) \in SUBSET Nodes
  BY DEF Before
<1> QED
  BY <1>2, <1>3, <1>4, CountOfProperPart DEF IndexOf

\* Two rows have two indices.
LEMMA IndexIsInjective ==
  ASSUME NEW S \in SUBSET Nodes, NEW m \in S, NEW n \in S,
         IndexOf(m, S) = IndexOf(n, S)
  PROVE  m = n
<1>1. m \in Nat /\ n \in Nat
  BY SizeAssumption DEF Nodes
<1>2. IndexOf(m, S) \in Nat
  <2>1. Before(m, S) \in SUBSET Nodes
    BY DEF Before
  <2> QED
    BY <2>1, RowsAreFinite DEF IndexOf
<1>3. ~(m < n) /\ ~(n < m)
  BY <1>2, IndexGrows
<1> QED
  BY <1>1, <1>3

\* The index of a row is below the number of rows.
LEMMA IndexInRange ==
  ASSUME NEW S \in SUBSET Nodes, NEW n \in S
  PROVE  IndexOf(n, S) \in 0 .. (Cardinality(S) - 1)
<1>1. Before(n, S) \in SUBSET S /\ n \notin Before(n, S)
  BY SizeAssumption DEF Before, Nodes
<1>2. Cardinality(Before(n, S)) < Cardinality(S)
  BY <1>1, CountOfProperPart
<1>3. Cardinality(Before(n, S)) \in Nat /\ Cardinality(S) \in Nat
  <2>1. Before(n, S) \in SUBSET Nodes
    BY <1>1
  <2> QED
    BY <2>1, RowsAreFinite
<1> QED
  BY <1>2, <1>3 DEF IndexOf

\* Every index below the number of rows is the index of one of them.
LEMMA EveryIndexIsTaken ==
  ASSUME NEW S \in SUBSET Nodes, NEW i \in 0 .. (Cardinality(S) - 1)
  PROVE  \E n \in S : IndexOf(n, S) = i
<1> DEFINE T == 0 .. (Cardinality(S) - 1)
           index == [n \in S |-> IndexOf(n, S)]
<1>1. IsFiniteSet(S) /\ Cardinality(S) \in Nat
  BY RowsAreFinite
<1>2. IsFiniteSet(T) /\ Cardinality(T) = Cardinality(S)
  BY <1>1, FS_Interval
<1>3. index \in [S -> T]
  BY IndexInRange
<1>4. index \in Injection(S, T)
  <2>1. \A m, n \in S : index[m] = index[n] => m = n
    BY IndexIsInjective
  <2> QED
    BY <1>3, <2>1 DEF Injection, IsInjective
<1>5. index \in Surjection(S, T)
  BY <1>2, <1>4, FS_Injection
<1>6. \E n \in S : index[n] = i
  BY <1>5 DEF Surjection
<1> QED
  BY <1>6

\* The last of some nodes.
LEMMA LastOfNodes ==
  ASSUME NEW S \in SUBSET Nodes, S # {}
  PROVE  \E n \in S : \A k \in S : k <= n
<1>1. Cardinality(S) \in Nat /\ Cardinality(S) # 0
  BY RowsAreFinite, FS_EmptySet
<1>2. PICK n \in S : IndexOf(n, S) = Cardinality(S) - 1
  BY <1>1, EveryIndexIsTaken
<1>3. ASSUME NEW k \in S, n < k
      PROVE  FALSE
  <2>1. IndexOf(n, S) < IndexOf(k, S)
    BY <1>3, IndexGrows
  <2>2. IndexOf(k, S) \in 0 .. (Cardinality(S) - 1)
    BY IndexInRange
  <2> QED
    BY <1>1, <1>2, <2>1, <2>2
<1>4. S \subseteq Nat
  BY SizeAssumption DEF Nodes
<1> QED
  BY <1>3, <1>4

-----------------------------------------------------------------------------
(***************************************************************************)
(* Rows of an expansion and a filter.                                      *)
(***************************************************************************)

\* What rebuildRows produces are nodes, and so are the nodes it expands.
LEMMA RebuildTypes ==
  ASSUME NEW exp \in SUBSET Nodes, NEW f \in Filters \cup {NoFilter}
  PROVE  /\ Marked(f) \in SUBSET Nodes
         /\ Shown(exp, f) \in SUBSET Nodes
         /\ exp \cup Marked(f) \in SUBSET Nodes
<1>1. Marked(f) \in SUBSET Nodes
  BY DEF Marked
<1>2. Shown(exp, f) \in SUBSET Nodes
  BY DEF Shown, Visible
<1> QED
  BY <1>1, <1>2

\* Expanding more hides no row.
LEMMA ExpandingHidesNothing ==
  ASSUME NEW exp, NEW more, exp \subseteq more, NEW f
  PROVE  Shown(exp, f) \subseteq Shown(more, f)
BY DEF Shown, Visible

\* With its matches and the nodes above them expanded, a filter shows exactly
\* its matches.
LEMMA MarkedShowsMatches ==
  ASSUME NEW exp, NEW f \in Filters, Marked(f) \subseteq exp
  PROVE  Shown(exp, f) = Hit[f]
<1>1. f # NoFilter /\ Hit[f] \subseteq Nodes
  BY FilterAssumption
<1>2. ASSUME NEW m \in Hit[f]
      PROVE  Ancestors(m) \subseteq Marked(f)
  BY <1>1, <1>2 DEF Marked, Ancestors
<1> QED
  BY <1>1, <1>2 DEF Shown, Visible

\* Expanding or collapsing a node moves neither that node's row nor those
\* above it: a node is no ancestor of itself or of a node before it.
LEMMA RowsAboveStay ==
  ASSUME NEW exp, NEW other, NEW n \in Nodes, NEW f,
         exp \ {n} = other \ {n}, n \in Shown(exp, f)
  PROVE  /\ n \in Shown(other, f)
         /\ Before(n, Shown(other, f)) = Before(n, Shown(exp, f))
<1>1. Nodes \subseteq Nat
  BY SizeAssumption DEF Nodes
<1>2. ASSUME NEW m \in Nodes, m <= n
      PROVE  m \in Visible(exp) <=> m \in Visible(other)
  <2>1. n \notin Ancestors(m)
    BY <1>1, <1>2 DEF Ancestors
  <2>2. Ancestors(m) \subseteq exp <=> Ancestors(m) \subseteq other
    BY <2>1
  <2> QED
    BY <2>2 DEF Visible
<1>3. n \in Shown(other, f)
  BY <1>1, <1>2 DEF Shown
<1>4. ASSUME NEW m \in Nodes, m < n
      PROVE  m \in Shown(exp, f) <=> m \in Shown(other, f)
  BY <1>1, <1>2, <1>4 DEF Shown
<1>5. Shown(exp, f) \subseteq Nodes /\ Shown(other, f) \subseteq Nodes
  BY DEF Shown, Visible
<1> QED
  BY <1>3, <1>4, <1>5 DEF Before

\* Only a filter that nothing matches, or a value without a tree, leaves no
\* row, and then no expansion brings one.
LEMMA NoRowsStayNone ==
  ASSUME ViewConsistent, rows = {}, NEW exp \in SUBSET Nodes,
         Marked(filter) \subseteq exp
  PROVE  Shown(exp, filter) = {}
<1>1. CASE filter = NoFilter
  <2>1. Visible(expanded) = {}
    BY <1>1 DEF ViewConsistent, RowsAreCurrent, Shown, Visible
  <2>2. ASSUME Size > 0
        PROVE  FALSE
    <3>1. 1 \in Nodes /\ Ancestors(1) = {}
      BY <2>2, SizeAssumption DEF Nodes, Ancestors
    <3> QED
      BY <2>1, <3>1 DEF Visible
  <2>3. Nodes = {}
    BY <2>2, SizeAssumption DEF Nodes
  <2> QED
    BY <2>3 DEF Shown, Visible
<1>2. CASE filter # NoFilter
  <2>1. filter \in Filters
    BY <1>2 DEF ViewConsistent, TreeTypeOK
  <2>2. Shown(expanded, filter) = Hit[filter]
    BY <2>1, MarkedShowsMatches DEF ViewConsistent, MatchesAreOpen
  <2>3. Hit[filter] = {}
    BY <2>2 DEF ViewConsistent, RowsAreCurrent
  <2> QED
    BY <2>1, <2>3, MarkedShowsMatches
<1> QED
  BY <1>1, <1>2

\* The viewport has a row at least.
LEMMA ViewportOfHeight ==
  ASSUME NEW h \in Heights
  PROVE  (IF h - 3 < 1 THEN 1 ELSE h - 3) \in Nat \ {0}
BY HeightAssumption

\* The window shows at least one row.
LEMMA ViewportHasARow ==
  ASSUME height \in Heights
  PROVE  VisibleRows \in Nat \ {0}
BY ViewportOfHeight DEF VisibleRows

\* The node that a key acts on has a row, at the cursor.
LEMMA SelectedIsAtCursor ==
  ASSUME TreeTypeOK, OnRow
  PROVE  Selected \in rows /\ IndexOf(Selected, rows) = cursor
<1>1. rows \in SUBSET Nodes /\ cursor \in Nat
  BY DEF TreeTypeOK
<1>2. cursor \in 0 .. (Cardinality(rows) - 1)
  BY <1>1, RowsAreFinite DEF OnRow, RowCount
<1>3. \E n \in rows : IndexOf(n, rows) = cursor
  BY <1>1, <1>2, EveryIndexIsTaken
<1> QED
  BY <1>3 DEF Selected, NodeAt

\* Rows that the present expansion and filter give are numbered again with
\* the selected node, expanded or collapsed, at the index it had.
LEMMA ToggleKeepsIndex ==
  ASSUME ViewConsistent, OnRow, NEW exp \in SUBSET Nodes,
         exp \ {Selected} = expanded \ {Selected}
  PROVE  LET now == Shown(exp \cup Marked(filter), filter)
         IN  /\ Selected \in now
             /\ IndexOf(Selected, now) = cursor
             /\ cursor < Cardinality(now)
<1> DEFINE all == exp \cup Marked(filter)
           now == Shown(all, filter)
<1>1. Selected \in rows /\ IndexOf(Selected, rows) = cursor
  BY SelectedIsAtCursor DEF ViewConsistent
<1>2. rows = Shown(expanded, filter) /\ rows \subseteq Nodes
  BY DEF ViewConsistent, RowsAreCurrent, TreeTypeOK
<1>3. all \ {Selected} = expanded \ {Selected}
  BY DEF ViewConsistent, MatchesAreOpen
<1>4. Selected \in now /\ Before(Selected, now) = Before(Selected, rows)
  BY <1>1, <1>2, <1>3, RowsAboveStay
<1>5. IndexOf(Selected, now) = cursor
  BY <1>1, <1>4 DEF IndexOf
<1>6. now \in SUBSET Nodes
  BY DEF Shown, Visible
<1>7. cursor \in 0 .. (Cardinality(now) - 1) /\ Cardinality(now) \in Nat
  BY <1>4, <1>5, <1>6, IndexInRange, RowsAreFinite
<1> QED
  BY <1>4, <1>5, <1>7

-----------------------------------------------------------------------------
(***************************************************************************)
(* The keys.                                                               *)
(***************************************************************************)

\* A key that rebuilds the rows with the cursor and the window at the top.
LEMMA RebuildAtTop ==
  ASSUME NEW exp \in SUBSET Nodes, NEW f \in Filters \cup {NoFilter},
         RebuildRows(exp, f, 0), filter' = f, scrollOffset' = 0,
         height' \in Heights, quit' \in BOOLEAN
  PROVE  ViewConsistent'
<1> DEFINE all == exp \cup Marked(f)
           now == Shown(all, f)
<1>1. all \in SUBSET Nodes
  BY RebuildTypes
<1>2. now \in SUBSET Nodes
  BY <1>1, RebuildTypes
<1>3. expanded' = all /\ rows' = now /\ cursor' = Clamp(0, Cardinality(now))
  BY DEF RebuildRows
<1>4. Cardinality(now) \in Nat /\ (now # {} => Cardinality(now) > 0)
  BY <1>2, RowsAreFinite, FS_EmptySet
<1>5. cursor' = 0
  BY <1>3, <1>4 DEF Clamp
<1>6. TreeTypeOK'
  BY <1>1, <1>2, <1>3, <1>5 DEF TreeTypeOK
<1>7. CursorInViewport'
  <2>1. VisibleRows' = IF height' - 3 < 1 THEN 1 ELSE height' - 3
    BY DEF VisibleRows
  <2>2. VisibleRows' \in Nat \ {0}
    BY <2>1, ViewportOfHeight
  <2> QED
    BY <1>3, <1>4, <1>5, <2>2 DEF CursorInViewport, RowCount
<1>8. RowsAreCurrent' /\ MatchesAreOpen'
  BY <1>3 DEF RowsAreCurrent, MatchesAreOpen
<1> QED
  BY <1>6, <1>7, <1>8 DEF ViewConsistent

\* A key that rebuilds the rows and leaves the cursor, which still is on a row
\* if there is one, and the window.
LEMMA RebuildInPlace ==
  ASSUME ViewConsistent, NEW exp \in SUBSET Nodes,
         NEW now, now = Shown(exp \cup Marked(filter), filter),
         now # {} => rows # {} /\ cursor < Cardinality(now),
         expanded' = exp \cup Marked(filter), rows' = now, cursor' = cursor,
         now = {} => cursor = 0,
         UNCHANGED <<scrollOffset, height, filter, quit>>
  PROVE  ViewConsistent'
<1>1. filter \in Filters \cup {NoFilter}
  BY DEF ViewConsistent, TreeTypeOK
<1>2. expanded' \in SUBSET Nodes /\ now \in SUBSET Nodes
  BY <1>1, RebuildTypes
<1>3. TreeTypeOK'
  BY <1>2 DEF ViewConsistent, TreeTypeOK
<1>4. CursorInViewport'
  BY DEF ViewConsistent, CursorInViewport, RowCount, VisibleRows
<1>5. RowsAreCurrent' /\ MatchesAreOpen'
  BY DEF RowsAreCurrent, MatchesAreOpen
<1> QED
  BY <1>3, <1>4, <1>5 DEF ViewConsistent

\* Enter and left on a node with children: the cursor stays, on that node.
LEMMA ToggleStep ==
  ASSUME ViewConsistent, ToggleSelected \/ CollapseNode,
         OnRow, ~UNCHANGED <<expanded, rows, cursor>>
  PROVE  \E exp \in SUBSET Nodes :
           LET now == Shown(exp \cup Marked(filter), filter)
           IN  /\ exp \ {Selected} = expanded \ {Selected}
               /\ expanded' = exp \cup Marked(filter)
               /\ rows' = now /\ cursor' = cursor
               /\ UNCHANGED <<scrollOffset, height, filter, quit>>
<1>1. expanded \in SUBSET Nodes /\ Selected \in Nodes
  BY SelectedIsAtCursor DEF ViewConsistent, TreeTypeOK
<1>2. cursor \in Nat
  BY DEF ViewConsistent, TreeTypeOK
<1>3. CASE ToggleSelected
  <2> DEFINE exp == IF Selected \in expanded THEN expanded \ {Selected}
                    ELSE expanded \cup {Selected}
             now == Shown(exp \cup Marked(filter), filter)
  <2>1. exp \in SUBSET Nodes /\ exp \ {Selected} = expanded \ {Selected}
    BY <1>1
  <2>2. OnRow /\ HasChildren(Selected)
    BY <1>3 DEF ToggleSelected
  <2>3. /\ expanded' = exp \cup Marked(filter) /\ rows' = now
        /\ cursor' = IF Selected \in now THEN IndexOf(Selected, now)
                     ELSE Clamp(cursor, Cardinality(now))
        /\ UNCHANGED <<scrollOffset, height, filter, quit>>
    BY <1>3, <2>2 DEF ToggleSelected
  <2>4. Selected \in now /\ IndexOf(Selected, now) = cursor
    BY <2>1, ToggleKeepsIndex
  <2> QED
    BY <2>1, <2>3, <2>4
<1>4. CASE CollapseNode
  <2> DEFINE exp == expanded \ {Selected}
             now == Shown(exp \cup Marked(filter), filter)
  <2>1. exp \in SUBSET Nodes /\ exp \ {Selected} = expanded \ {Selected}
    BY <1>1
  <2>2. /\ expanded' = exp \cup Marked(filter) /\ rows' = now
        /\ cursor' = Clamp(cursor, Cardinality(now))
        /\ UNCHANGED <<scrollOffset, height, filter, quit>>
    BY <1>4 DEF CollapseNode, RebuildRows
  <2>3. cursor < Cardinality(now) /\ Cardinality(now) \in Nat
    <3>1. now \in SUBSET Nodes
      BY DEF Shown, Visible
    <3> QED
      BY <2>1, <3>1, ToggleKeepsIndex, RowsAreFinite
  <2>4. cursor' = cursor
    BY <1>2, <2>2, <2>3 DEF Clamp
  <2> QED
    BY <2>1, <2>2, <2>4
<1> QED
  BY <1>3, <1>4

\* Moving up or down a row keeps the cursor in the window.
LEMMA MoveStep ==
  ASSUME ViewConsistent, MoveUp \/ MoveDown \/ MoveTop \/ MoveBottom
  PROVE  ViewConsistent'
<1>1. /\ cursor \in Nat /\ scrollOffset \in Nat /\ rows \in SUBSET Nodes
      /\ RowCount \in Nat /\ VisibleRows \in Nat \ {0}
      /\ (rows = {} <=> RowCount = 0)
  BY RowsAreFinite, FS_EmptySet, ViewportHasARow
     DEF ViewConsistent, TreeTypeOK, RowCount
<1>2. UNCHANGED <<expanded, rows, height, filter, quit>>
  BY DEF MoveUp, MoveDown, MoveTop, MoveBottom
<1>3. RowCount' = RowCount /\ VisibleRows' = VisibleRows
  BY <1>2 DEF RowCount, VisibleRows
<1>4. cursor' \in Nat /\ scrollOffset' \in Nat /\ CursorInViewport'
  <2>1. CASE MoveUp
    BY <1>1, <1>2, <1>3, <2>1 DEF MoveUp, ViewConsistent, CursorInViewport
  <2>2. CASE MoveDown
    BY <1>1, <1>2, <1>3, <2>2
       DEF MoveDown, ScrollDown, ViewConsistent, CursorInViewport
  <2>3. CASE MoveTop
    BY <1>1, <1>2, <1>3, <2>3 DEF MoveTop, ViewConsistent, CursorInViewport
  <2>4. CASE MoveBottom
    BY <1>1, <1>2, <1>3, <2>4 DEF MoveBottom, ViewConsistent, CursorInViewport
  <2> QED
    BY <2>1, <2>2, <2>3, <2>4
<1> QED
  BY <1>2, <1>4 DEF ViewConsistent, TreeTypeOK, RowsAreCurrent, MatchesAreOpen

\* Left on a leaf or a collapsed node jumps up to its parent.
LEMMA JumpStep ==
  ASSUME ViewConsistent, JumpToParent
  PROVE  ViewConsistent'
<1>1. /\ cursor \in Nat /\ scrollOffset \in Nat /\ rows \in SUBSET Nodes
      /\ VisibleRows \in Nat \ {0} /\ OnRow
  BY ViewportHasARow DEF ViewConsistent, TreeTypeOK, JumpToParent
<1>2. UNCHANGED <<expanded, rows, height, filter, quit>>
  BY DEF JumpToParent
<1>3. Selected \in rows /\ IndexOf(Selected, rows) = cursor
  BY <1>1, SelectedIsAtCursor DEF ViewConsistent
<1>4. CASE HasParent(Selected) /\ Parent(Selected) \in rows
  <2>1. Ancestors(Selected) \in SUBSET Nodes /\ Ancestors(Selected) # {}
    BY <1>4 DEF Ancestors, HasParent
  <2>2. Parent(Selected) \in Ancestors(Selected)
    BY <2>1, LastOfNodes DEF Parent
  <2>3. Parent(Selected) < Selected
    BY <2>2 DEF Ancestors
  <2>4. IndexOf(Parent(Selected), rows) < cursor
    BY <1>1, <1>3, <1>4, <2>3, IndexGrows
  <2>5. IndexOf(Parent(Selected), rows) \in Nat
    <3>1. Before(Parent(Selected), rows) \in SUBSET Nodes
      BY <1>1 DEF Before
    <3> QED
      BY <3>1, RowsAreFinite DEF IndexOf
  <2>6. /\ cursor' = IndexOf(Parent(Selected), rows)
        /\ scrollOffset' = IF cursor' < scrollOffset THEN cursor'
                           ELSE scrollOffset
    BY <1>4 DEF JumpToParent
  <2>7. RowCount' = RowCount /\ VisibleRows' = VisibleRows /\ rows # {}
    BY <1>2, <1>3 DEF RowCount, VisibleRows
  <2>8. RowCount \in Nat
    BY <1>1, RowsAreFinite DEF RowCount
  <2>9. CursorInViewport' /\ cursor' \in Nat /\ scrollOffset' \in Nat
    BY <1>1, <1>2, <2>4, <2>5, <2>6, <2>7, <2>8
       DEF ViewConsistent, CursorInViewport
  <2> QED
    BY <1>2, <2>9 DEF ViewConsistent, TreeTypeOK, RowsAreCurrent, MatchesAreOpen
<1>5. CASE ~(HasParent(Selected) /\ Parent(Selected) \in rows)
  BY <1>2, <1>5 DEF JumpToParent, ViewConsistent, TreeTypeOK, RowsAreCurrent,
     MatchesAreOpen, CursorInViewport, RowCount, VisibleRows
<1> QED
  BY <1>4, <1>5

-----------------------------------------------------------------------------
(***************************************************************************)
(* The invariant.                                                          *)
(***************************************************************************)

\* The explorer starts with its cursor on the first row of a current view.
LEMMA ViewStarts == NewTUITree => ViewConsistent
<1> SUFFICES ASSUME NewTUITree
             PROVE  ViewConsistent
  OBVIOUS
<1>1. InitiallyExpanded \in SUBSET Nodes
  BY DEF InitiallyExpanded
<1>2. rows \in SUBSET Nodes
  BY DEF NewTUITree, Visible
<1>3. RowCount \in Nat /\ (rows # {} => RowCount > 0)
  BY <1>2, RowsAreFinite, FS_EmptySet DEF RowCount
<1>4. VisibleRows \in Nat \ {0}
  BY ViewportHasARow DEF NewTUITree
<1>5. CursorInViewport
  BY <1>3, <1>4 DEF NewTUITree, CursorInViewport
<1>6. TreeTypeOK
  BY <1>1, <1>2 DEF NewTUITree, TreeTypeOK
<1>7. RowsAreCurrent /\ MatchesAreOpen
  BY DEF NewTUITree, RowsAreCurrent, MatchesAreOpen, Shown, Visible, Marked
<1> QED
  BY <1>5, <1>6, <1>7 DEF ViewConsistent

\* Every key keeps the view consistent.
LEMMA ViewStep == ViewConsistent /\ [KeyStep]_treeVars => ViewConsistent'
<1> SUFFICES ASSUME ViewConsistent, [KeyStep]_treeVars
             PROVE  ViewConsistent'
  OBVIOUS
<1> USE DEF ViewConsistent
<1>1. CASE UNCHANGED treeVars
  BY <1>1 DEF treeVars, TreeTypeOK, CursorInViewport, RowsAreCurrent,
     MatchesAreOpen, RowCount, VisibleRows
<1>2. CASE MoveUp \/ MoveDown \/ MoveTop \/ MoveBottom
  BY <1>2, MoveStep
<1>3. CASE (ToggleSelected \/ CollapseNode) /\ OnRow
                /\ ~UNCHANGED <<expanded, rows, cursor>>
  <2>1. PICK exp \in SUBSET Nodes :
          LET now == Shown(exp \cup Marked(filter), filter)
          IN  /\ exp \ {Selected} = expanded \ {Selected}
              /\ expanded' = exp \cup Marked(filter)
              /\ rows' = now /\ cursor' = cursor
              /\ UNCHANGED <<scrollOffset, height, filter, quit>>
    BY <1>3, ToggleStep
  <2>2. LET now == Shown(exp \cup Marked(filter), filter)
        IN  Selected \in now /\ cursor < Cardinality(now)
    BY <1>3, <2>1, ToggleKeepsIndex
  <2>3. rows # {}
    BY <1>3, SelectedIsAtCursor
  <2> QED
    BY <2>1, <2>2, <2>3, RebuildInPlace
<1>4. CASE (ToggleSelected \/ CollapseNode)
                /\ UNCHANGED <<expanded, rows, cursor>>
  <2>1. UNCHANGED treeVars
    BY <1>4 DEF ToggleSelected, CollapseNode, treeVars
  <2> QED
    BY <1>1, <2>1
<1>5. CASE (ToggleSelected \/ CollapseNode) /\ ~OnRow
  <2>1. UNCHANGED treeVars
    BY <1>5 DEF ToggleSelected, CollapseNode, treeVars
  <2> QED
    BY <1>1, <2>1
<1>6. CASE JumpToParent
  BY <1>6, JumpStep
<1>7. CASE ExpandAll
  <2> DEFINE exp == expanded \cup {n \in Nodes : HasChildren(n)}
             now == Shown(exp \cup Marked(filter), filter)
  <2>1. /\ expanded' = exp \cup Marked(filter) /\ rows' = now
        /\ cursor' = Clamp(cursor, Cardinality(now))
        /\ UNCHANGED <<scrollOffset, height, filter, quit>>
    BY <1>7 DEF ExpandAll, RebuildRows
  <2>2. exp \in SUBSET Nodes /\ now \in SUBSET Nodes /\ cursor \in Nat
    BY DEF TreeTypeOK, Shown, Visible
  <2>3. rows \in SUBSET now
    BY ExpandingHidesNothing DEF RowsAreCurrent
  <2>4. now # {} => rows # {}
    <3>1. exp \cup Marked(filter) \in SUBSET Nodes
      BY <2>2, RebuildTypes DEF TreeTypeOK
    <3> QED
      BY <3>1, NoRowsStayNone
  <2>5. now # {} => cursor < Cardinality(now)
    <3>1. Cardinality(rows) <= Cardinality(now)
      BY <2>2, <2>3, CountGrows
    <3>2. Cardinality(rows) \in Nat /\ Cardinality(now) \in Nat
      BY <2>2, RowsAreFinite DEF TreeTypeOK
    <3> QED
      BY <2>2, <2>4, <3>1, <3>2 DEF CursorInViewport, RowCount
  <2>6. now = {} => cursor = 0
    BY <2>3 DEF CursorInViewport
  <2>7. cursor' = cursor
    <3>1. Cardinality(now) \in Nat /\ (now = {} => Cardinality(now) = 0)
      BY <2>2, RowsAreFinite, FS_EmptySet
    <3>2. CASE now = {}
      BY <2>1, <2>6, <3>1, <3>2 DEF Clamp
    <3>3. CASE now # {}
      BY <2>1, <2>2, <2>5, <3>1, <3>3 DEF Clamp
    <3> QED
      BY <3>2, <3>3
  <2> QED
    BY <2>1, <2>2, <2>4, <2>5, <2>6, <2>7, RebuildInPlace
<1>8. CASE CollapseAll
  <2>1. {Root} \cap Nodes \in SUBSET Nodes
    OBVIOUS
  <2> QED
    BY <1>8, <2>1, RebuildAtTop DEF CollapseAll, TreeTypeOK
<1>9. ASSUME NEW q \in Filters \cup {NoFilter}, SetFilter(q)
      PROVE  ViewConsistent'
  BY <1>9, RebuildAtTop DEF SetFilter, TreeTypeOK
<1>10. CASE ClearFilter
  BY <1>1, <1>9, <1>10 DEF ClearFilter
<1>11. CASE Quit
  BY <1>11 DEF Quit, TreeTypeOK, CursorInViewport, RowsAreCurrent,
     MatchesAreOpen, RowCount, VisibleRows
<1> QED
  BY <1>1, <1>2, <1>3, <1>4, <1>5, <1>6, <1>7, <1>8, <1>9, <1>10, <1>11
     DEF KeyStep, CollapseSelected

\* tui_tree.go 80-132: whatever the keys, the rows are those of the present
\* expansion and filter, and the cursor is on one of them, inside the window.
THEOREM ViewIsConsistent == TreeSpec => []ViewConsistent
BY ViewStarts, ViewStep, PTL DEF TreeSpec

\* tui_tree.go 207-239: a filter shows each match and nothing else, whatever
\* was or is collapsed.
THEOREM FilterIsComplete == TreeSpec => []FilterShowsAllMatches
<1>1. ViewConsistent => FilterShowsAllMatches
  BY MarkedShowsMatches DEF ViewConsistent, TreeTypeOK, RowsAreCurrent,
     MatchesAreOpen, FilterShowsAllMatches
<1> QED
  BY <1>1, ViewIsConsistent, PTL

\* tui_tree.go 157-188: the node that was expanded or collapsed stays the
\* selected one, although the rows below it are others and a filter may open
\* it again.
THEOREM SelectionStays == TreeSpec => SelectionIsKept
<1>1. ASSUME ViewConsistent, ToggleSelected \/ CollapseNode, OnRow
      PROVE  OnRow' /\ Selected' = Selected
  <2>1. CASE UNCHANGED <<expanded, rows, cursor>>
    BY <1>1, <2>1 DEF OnRow, RowCount, Selected, NodeAt
  <2>2. CASE ~UNCHANGED <<expanded, rows, cursor>>
    <3>1. PICK exp \in SUBSET Nodes :
            LET now == Shown(exp \cup Marked(filter), filter)
            IN  /\ exp \ {Selected} = expanded \ {Selected}
                /\ expanded' = exp \cup Marked(filter)
                /\ rows' = now /\ cursor' = cursor
                /\ UNCHANGED <<scrollOffset, height, filter, quit>>
      BY <1>1, <2>2, ToggleStep
    <3>2. /\ Selected \in rows' /\ IndexOf(Selected, rows') = cursor'
          /\ cursor' < Cardinality(rows')
      BY <1>1, <3>1, ToggleKeepsIndex
    <3>3. rows' \in SUBSET Nodes /\ cursor' >= 0
      BY <1>1, <3>1 DEF Shown, Visible, OnRow
    <3>4. OnRow'
      BY <3>2, <3>3 DEF OnRow, RowCount
    <3>5. Selected' = CHOOSE n \in rows' : IndexOf(n, rows') = cursor'
      BY DEF Selected, NodeAt, IndexOf, Before
    <3>6. \A n \in rows' : IndexOf(n, rows') = cursor' => n = Selected
      BY <3>2, <3>3, IndexIsInjective
    <3>7. Selected' = Selected
      BY <3>2, <3>5, <3>6
    <3> QED
      BY <3>4, <3>7
  <2> QED
    BY <2>1, <2>2
<1>2. ViewConsistent /\ [KeyStep]_treeVars =>
        [(ToggleSelected \/ CollapseNode) /\ OnRow =>
           OnRow' /\ Selected' = Selected]_treeVars
  BY <1>1
<1> QED
  BY <1>2, ViewIsConsistent, PTL DEF TreeSpec, SelectionIsKept

-----------------------------------------------------------------------------
(***************************************************************************)
(* The loop that reads the keys.                                           *)
(***************************************************************************)

\* Handling a key is one of the steps of the tree, or changes none of it.
LEMMA HandlingIsAKeyStep ==
  ASSUME ~quit, NEW key, HandleKey(key)
  PROVE  [KeyStep]_treeVars
<1>1. CASE key \in {"up", "k"}
  BY <1>1 DEF HandleKey, KeyStep
<1>2. CASE key \in {"down", "j"}
  BY <1>2 DEF HandleKey, KeyStep
<1>3. CASE key \in {"right", "l", "enter", "space"}
  BY <1>3 DEF HandleKey, KeyStep
<1>4. CASE key \in {"left", "h"}
  BY <1>4 DEF HandleKey, KeyStep
<1>5. CASE key \in {"g", "home"}
  BY <1>5 DEF HandleKey, KeyStep
<1>6. CASE key \in {"G", "end"}
  BY <1>6 DEF HandleKey, KeyStep
<1>7. CASE key \in {"q", "ctrl+c"}
  BY <1>7 DEF HandleKey, KeyStep
<1>8. CASE key \in {"e", "c", "esc"}
  BY <1>8 DEF HandleKey, KeyStep
<1>9. CASE key \notin {"up", "k", "down", "j", "right", "l", "enter", "space",
                      "left", "h", "g", "home", "G", "end", "q", "ctrl+c",
                      "e", "c", "esc"}
  BY <1>9 DEF HandleKey
<1> QED
  BY <1>1, <1>2, <1>3, <1>4, <1>5, <1>6, <1>7, <1>8, <1>9

\* An escape, a bracket and an A or a B of one read are an arrow.
LEMMA ArrowIsRead ==
  ASSUME typed # << >>, Byte(1) = "ESC", ~typed[1].ends, Len(typed) >= 3,
         Byte(2) = "[", Byte(3) \in {"A", "B"}, Len(typed) \in Nat
  PROVE  \E name \in {"up", "down"} : ReadKey = Key(name, 3)
<1>1. ReadKey = ReadEscape
  BY DEF ReadKey, Plain
<1>2. ~(Len(typed) < 2) /\ ~(Len(typed) < 3)
  OBVIOUS
<1>3. Byte(3) \in DOMAIN Arrow /\ Arrow[Byte(3)] \in {"up", "down"}
  BY DEF Arrow
<1>4. ReadEscape = Key(Arrow[Byte(3)], 3)
  BY <1>2, <1>3 DEF ReadEscape
<1> QED
  BY <1>1, <1>3, <1>4

\* The bytes to be read are a sequence: Run only takes some off its head.
LEMMA TypedIsASequence ==
  RunSpec => [](typed \in Seq([byte : TypedBytes, ends : BOOLEAN]))
<1> DEFINE Bytes == [byte : TypedBytes, ends : BOOLEAN]
           Inv == typed \in Seq(Bytes)
<1>1. RunInit => Inv
  <2>1. ASSUME NEW text \in Inputs, NEW pieces \in [DOMAIN text -> BOOLEAN],
               typed = [i \in DOMAIN text |-> [byte |-> text[i], ends |-> pieces[i]]]
        PROVE  Inv
    <3>1. text \in Seq(TypedBytes)
      BY InputsAssumption
    <3>2. PICK n \in Nat : text \in [1 .. n -> TypedBytes]
      BY <3>1, SeqDef
    <3>3. typed \in [1 .. n -> Bytes]
      BY <2>1, <3>2
    <3> HIDE DEF Bytes
    <3>4. typed \in UNION {[1 .. m -> Bytes] : m \in Nat}
      BY <3>3
    <3> QED
      BY <3>4, SeqDef
  <2> QED
    BY <2>1 DEF RunInit
<1>2. Inv /\ [RunNext]_runVars => Inv'
  <2> SUFFICES ASSUME Inv, [RunNext]_runVars
               PROVE  Inv'
    OBVIOUS
  <2>1. ASSUME NEW n \in Nat, typed' = Rest(n)
        PROVE  Inv'
    <3> HIDE DEF Bytes
    <3>1. \A i \in n + 1 .. Len(typed) : typed[i] \in Bytes
      OBVIOUS
    <3>2. n + 1 \in Int /\ Len(typed) \in Int
      OBVIOUS
    <3> QED
      BY <2>1, <3>1, <3>2, SubSeqProperties DEF Rest
  <2>2. ReadKey.used \in Nat
    BY DEF ReadKey, ReadEscape, Key, Broken
  <2>3. CASE HandleNext
    BY <2>1, <2>2, <2>3 DEF HandleNext, Take
  <2>4. CASE StopOnReadError
    BY <2>1, <2>2, <2>4 DEF StopOnReadError, Take
  <2>5. CASE UNCHANGED typed
    BY <2>5
  <2> QED
    BY <2>3, <2>4, <2>5 DEF RunNext, runVars, StopOnQuit, StopOnRenderError
<1> QED
  BY <1>1, <1>2, PTL DEF RunSpec

\* tui_tree.go 464-505: an arrow typed in one piece is taken off the input
\* whole and only moves the cursor, whatever the tree and whatever follows.
THEOREM ArrowsStayWhole == RunSpec => ArrowsAreWhole
<1> DEFINE Typed == typed \in Seq([byte : TypedBytes, ends : BOOLEAN])
           Arrives == /\ typed # << >> /\ Byte(1) = "ESC" /\ ~typed[1].ends
                      /\ Len(typed) >= 3 /\ Byte(2) = "["
                      /\ Byte(3) \in {"A", "B"} /\ typed' # typed
           Whole == typed' = Rest(3) /\ UNCHANGED <<expanded, rows, filter, quit>>
<1>1. ASSUME Typed, RunNext, Arrives
      PROVE  Whole
  <2>1. Len(typed) \in Nat
    BY <1>1
  <2>2. PICK name \in {"up", "down"} : ReadKey = Key(name, 3)
    BY <1>1, <2>1, ArrowIsRead
  <2>3. ReadKey.key = name /\ ReadKey.used = 3 /\ ~ReadKey.failed
    BY <2>2 DEF Key
  <2>4. HandleNext
    BY <1>1, <2>3 DEF RunNext, StopOnQuit, StopOnReadError, StopOnRenderError
  <2>5. typed' = Rest(3) /\ HandleKey(name)
    BY <2>3, <2>4 DEF HandleNext, Take
  <2>6. MoveUp \/ MoveDown
    BY <2>5 DEF HandleKey
  <2> QED
    BY <2>5, <2>6 DEF MoveUp, MoveDown
<1>2. Typed /\ [RunNext]_runVars => [Arrives => Whole]_runVars
  BY <1>1
<1> QED
  BY <1>2, TypedIsASequence, PTL DEF RunSpec, ArrowsAreWhole

\* tui_tree.go 440-461: the loop does to the tree what its keys do and nothing
\* else, so whatever holds of the tree for every sequence of keys holds of it
\* for every input, however the bytes of it arrive.
THEOREM RunDrivesTheTree == RunSpec => TreeSpec
<1>1. RunInit => NewTUITree
  BY DEF RunInit
<1>2. [RunNext]_runVars => [KeyStep]_treeVars
  <2>1. CASE HandleNext
    <3>1. CASE ReadKey.key = "/"
      BY <2>1, <3>1 DEF HandleNext, KeyStep
    <3>2. CASE ReadKey.key # "/"
      BY <2>1, <3>2, HandlingIsAKeyStep DEF HandleNext
    <3> QED
      BY <3>1, <3>2
  <2>2. CASE UNCHANGED treeVars
    BY <2>2
  <2> QED
    BY <2>1, <2>2 DEF RunNext, runVars, treeVars, StopOnQuit, StopOnReadError,
       StopOnRenderError
<1> QED
  BY <1>1, <1>2, PTL DEF RunSpec, TreeSpec

\* What the user sees is therefore consistent before every key that is read,
\* and every match of a filter on the screen.
THEOREM ScreenIsConsistent == RunSpec => [](ViewConsistent /\ FilterShowsAllMatches)
BY RunDrivesTheTree, ViewIsConsistent, FilterIsComplete, PTL

=============================================================================
