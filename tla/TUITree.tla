------------------------------- MODULE TUITree -------------------------------
(***************************************************************************)
(* The terminal tree explorer of internal/cli/tui_tree.go.                 *)
(*                                                                         *)
(* Nodes are numbered in document order, so the subtree of n is the        *)
(* interval n .. Last[n], and the visible rows are a set of nodes: row i   *)
(* is the one with i rows before it.                                       *)
(***************************************************************************)
EXTENDS Integers, FiniteSets

CONSTANTS
  Size,       \* number of nodes: 0 for a value without a tree
  Last,       \* Last[n] is the last node of the subtree of n
  Filters,    \* search texts
  NoFilter,   \* the empty search text
  Hit,        \* Hit[f] is the set of nodes whose text contains f
  Heights     \* terminal heights

Nodes == 1 .. Size

ASSUME SizeAssumption == Size \in Nat
ASSUME TreeAssumption ==
  /\ Last \in [Nodes -> Nodes]
  /\ \A n \in Nodes : n <= Last[n]
  /\ \A m, n \in Nodes : m < n /\ n <= Last[m] => Last[n] <= Last[m]
  /\ Size > 0 => Last[1] = Size
ASSUME FilterAssumption == NoFilter \notin Filters /\ Hit \in [Filters -> SUBSET Nodes]
ASSUME HeightAssumption == Heights \subseteq Int

VARIABLES
  expanded,      \* nodes that expandedState maps to true
  rows,          \* nodes of t.rows
  cursor,        \* t.cursor
  scrollOffset,  \* t.scrollOffset
  height,        \* t.height
  filter,        \* t.filter
  quit           \* t.quit

treeVars == <<expanded, rows, cursor, scrollOffset, height, filter, quit>>

-----------------------------------------------------------------------------
(***************************************************************************)
(* The tree and its rows.                                                  *)
(***************************************************************************)
Root == 1
Ancestors(n) == {m \in Nodes : m < n /\ n <= Last[m]}
HasChildren(n) == Last[n] > n
Parent(n) == CHOOSE m \in Ancestors(n) : \A k \in Ancestors(n) : k <= m
HasParent(n) == Ancestors(n) # {}

\* walk descends into expanded nodes only.
Visible(exp) == {n \in Nodes : Ancestors(n) \subseteq exp}

Before(n, shown) == {m \in shown : m < n}
IndexOf(n, shown) == Cardinality(Before(n, shown))
NodeAt(i) == CHOOSE n \in rows : IndexOf(n, rows) = i
RowCount == Cardinality(rows)
OnRow == cursor >= 0 /\ cursor < RowCount
Selected == NodeAt(cursor)

\* What markAncestors expands: matches and their ancestors.
Marked(f) == IF f = NoFilter THEN {}
             ELSE {n \in Nodes : \E m \in Hit[f] : m = n \/ n \in Ancestors(m)}
Shown(exp, f) == Visible(exp) \cap (IF f = NoFilter THEN Nodes ELSE Hit[f])

ClampShort(cur, count) ==
  IF Size = 0 THEN cur
  ELSE IF cur >= count - 1 THEN (IF count < 2 THEN 0 ELSE count - 2)
  ELSE IF cur < 0 THEN 0 ELSE cur

\* The clamping that ends rebuildRows; a value without a tree returns earlier.
Clamp(cur, count) ==
  IF Size = 0 THEN cur
  ELSE IF cur >= count THEN (IF count = 0 THEN 0 ELSE count - 1)
  ELSE IF cur < 0 THEN 0 ELSE cur

\* rebuildRows, with the expansion, filter and cursor it starts from.
RebuildWithoutMarking(exp, f, cur) ==
  /\ expanded' = exp
  /\ rows' = Shown(exp, f)
  /\ cursor' = Clamp(cur, Cardinality(Shown(exp, f)))

RebuildRows(exp, f, cur) ==
  LET marked == exp \cup Marked(f)
  IN  /\ expanded' = marked
      /\ rows' = Shown(marked, f)
      /\ cursor' = Clamp(cur, Cardinality(Shown(marked, f)))

VisibleRows == IF height - 3 < 1 THEN 1 ELSE height - 3

-----------------------------------------------------------------------------
(***************************************************************************)
(* The keys.                                                               *)
(***************************************************************************)
MoveUp ==
  /\ IF cursor > 0
     THEN /\ cursor' = cursor - 1
          /\ scrollOffset' = IF cursor - 1 < scrollOffset THEN cursor - 1
                             ELSE scrollOffset
     ELSE UNCHANGED <<cursor, scrollOffset>>
  /\ UNCHANGED <<expanded, rows, height, filter, quit>>

ScrollDownLate(cur) ==
  IF cur > scrollOffset + VisibleRows THEN cur - VisibleRows + 1
  ELSE scrollOffset

\* The offset that keeps row cur inside the viewport when moving down.
ScrollDown(cur) ==
  IF cur >= scrollOffset + VisibleRows THEN cur - VisibleRows + 1
  ELSE scrollOffset

MoveDown ==
  /\ IF cursor < RowCount - 1
     THEN cursor' = cursor + 1 /\ scrollOffset' = ScrollDown(cursor + 1)
     ELSE UNCHANGED <<cursor, scrollOffset>>
  /\ UNCHANGED <<expanded, rows, height, filter, quit>>

MoveTop ==
  /\ cursor' = 0 /\ scrollOffset' = 0
  /\ UNCHANGED <<expanded, rows, height, filter, quit>>

MoveBottom ==
  /\ IF RowCount > 0
     THEN /\ cursor' = RowCount - 1
          /\ scrollOffset' = IF RowCount - 1 >= VisibleRows
                             THEN RowCount - VisibleRows ELSE 0
     ELSE UNCHANGED <<cursor, scrollOffset>>
  /\ UNCHANGED <<expanded, rows, height, filter, quit>>

\* Expands or collapses the selected node, and puts the cursor back on it.
ToggleSelected ==
  /\ IF OnRow /\ HasChildren(Selected)
     THEN LET n   == Selected
              exp == IF n \in expanded THEN expanded \ {n} ELSE expanded \cup {n}
              now == Shown(exp \cup Marked(filter), filter)
          IN  /\ expanded' = exp \cup Marked(filter)
              /\ rows' = now
              /\ cursor' = IF n \in now THEN IndexOf(n, now)
                           ELSE Clamp(cursor, Cardinality(now))
     ELSE UNCHANGED <<expanded, rows, cursor>>
  /\ UNCHANGED <<scrollOffset, height, filter, quit>>

\* Collapses the selected node if it is expanded.
CollapseNode ==
  /\ OnRow /\ HasChildren(Selected) /\ Selected \in expanded
  /\ RebuildRows(expanded \ {Selected}, filter, cursor)
  /\ UNCHANGED <<scrollOffset, height, filter, quit>>

\* Otherwise jumps to its parent, if that has a row.
JumpToParent ==
  /\ OnRow /\ ~(HasChildren(Selected) /\ Selected \in expanded)
  /\ IF HasParent(Selected) /\ Parent(Selected) \in rows
     THEN LET i == IndexOf(Parent(Selected), rows)
          IN  /\ cursor' = i
              /\ scrollOffset' = IF i < scrollOffset THEN i ELSE scrollOffset
     ELSE UNCHANGED <<cursor, scrollOffset>>
  /\ UNCHANGED <<expanded, rows, height, filter, quit>>

CollapseSelected ==
  CollapseNode \/ JumpToParent \/ (~OnRow /\ UNCHANGED treeVars)

ExpandAll ==
  /\ RebuildRows(expanded \cup {n \in Nodes : HasChildren(n)}, filter, cursor)
  /\ UNCHANGED <<scrollOffset, height, filter, quit>>

CollapseAll ==
  /\ RebuildRows({Root} \cap Nodes, filter, 0)
  /\ scrollOffset' = 0
  /\ UNCHANGED <<height, filter, quit>>

SetFilter(q) ==
  /\ filter' = q
  /\ scrollOffset' = 0
  /\ RebuildRows(expanded, q, 0)
  /\ UNCHANGED <<height, quit>>

ClearFilter ==
  IF filter # NoFilter THEN SetFilter(NoFilter) ELSE UNCHANGED treeVars

Quit == quit' = TRUE /\ UNCHANGED <<expanded, rows, cursor, scrollOffset,
                                    height, filter>>

HandleKeyAnyCase(key) ==
  CASE key \in {"up", "k", "K"}    -> MoveUp
    [] key \in {"down", "j", "J"}  -> MoveDown
    [] key \in {"right", "l", "L", "enter", "space"} -> ToggleSelected
    [] key \in {"left", "h", "H"}  -> CollapseSelected
    [] key \in {"e", "E"}          -> ExpandAll
    [] key \in {"c", "C"}          -> CollapseAll
    [] key \in {"q", "Q", "ctrl+c"} -> Quit
    [] key = "esc"                 -> ClearFilter
    [] OTHER                       -> UNCHANGED treeVars

\* HandleKey, for a key that is a name; a slash and a text is SetFilter.
HandleKey(key) ==
  CASE key \in {"up", "k"}    -> MoveUp
    [] key \in {"down", "j"}  -> MoveDown
    [] key \in {"right", "l", "enter", "space"} -> ToggleSelected
    [] key \in {"left", "h"}  -> CollapseSelected
    [] key = "e"              -> ExpandAll
    [] key = "c"              -> CollapseAll
    [] key \in {"g", "home"}  -> MoveTop
    [] key \in {"G", "end"}   -> MoveBottom
    [] key \in {"q", "ctrl+c"} -> Quit
    [] key = "esc"            -> ClearFilter
    [] OTHER                  -> UNCHANGED treeVars

-----------------------------------------------------------------------------
(***************************************************************************)
(* NewTUITree, with the height that SetDimensions may have set.            *)
(***************************************************************************)
InitiallyExpanded ==
  {n \in Nodes : n = Root \/ (Ancestors(n) = {Root} /\ HasChildren(n))}

NewTUITree ==
  /\ expanded = InitiallyExpanded
  /\ rows = Visible(InitiallyExpanded)
  /\ cursor = 0 /\ scrollOffset = 0
  /\ height \in Heights
  /\ filter = NoFilter /\ quit = FALSE

KeyStep ==
  /\ ~quit
  /\ \/ MoveUp \/ MoveDown \/ ToggleSelected \/ CollapseSelected \/ ExpandAll
     \/ CollapseAll \/ MoveTop \/ MoveBottom \/ ClearFilter \/ Quit
     \/ \E q \in Filters \cup {NoFilter} : SetFilter(q)

TreeSpec == NewTUITree /\ [][KeyStep]_treeVars

-----------------------------------------------------------------------------
(***************************************************************************)
(* Properties.                                                             *)
(***************************************************************************)
TreeTypeOK ==
  /\ expanded \subseteq Nodes /\ rows \subseteq Nodes
  /\ cursor \in Nat /\ scrollOffset \in Nat
  /\ height \in Heights
  /\ filter \in Filters \cup {NoFilter}
  /\ quit \in BOOLEAN

\* The cursor is on a row and inside the window that Render draws, after any
\* sequence of keys: Enter acts on a row that the user can see.
CursorInViewport ==
  IF rows = {} THEN cursor = 0
  ELSE /\ cursor < RowCount
       /\ scrollOffset <= cursor
       /\ cursor < scrollOffset + VisibleRows

\* The rows are those that the expansion and the filter give now: no key
\* leaves rows of an earlier expansion on the screen.
RowsAreCurrent == rows = Shown(expanded, filter)

\* A filter shows every node that matches and no other, whatever was collapsed
\* before it or is collapsed while it is on.
FilterShowsAllMatches == filter # NoFilter => rows = Hit[filter]

\* While a filter is on, its matches and the nodes above them stay expanded: a
\* key that collapses one of them cannot hide a match.
MatchesAreOpen == Marked(filter) \subseteq expanded

\* Expanding and collapsing keep the selection on its node, although the rows
\* after it move and a filter may expand it again at once.
SelectionIsKept ==
  [][(ToggleSelected \/ CollapseNode) /\ OnRow =>
       OnRow' /\ Selected' = Selected]_treeVars

\* tui_tree.go 80-132: whatever the keys, the screen shows the rows of the
\* present expansion and filter, and the node that a key acts on is on it.
ViewConsistent ==
  TreeTypeOK /\ CursorInViewport /\ RowsAreCurrent /\ MatchesAreOpen

=============================================================================
