---------------------------- MODULE VertexCover ----------------------------
(***************************************************************************)
(* Which rows and columns a VSS instance leaves out (protocols/vss.py):    *)
(* hopcroft_karp grows a matching between rows (left) and columns (right)  *)
(* of the complaint matrix, and minimum_vertex_cover_from_complaints reads *)
(* a cover off it (Koenig's construction).                                 *)
(*                                                                         *)
(* A breadth-first search goes on by a level at a time, a depth-first      *)
(* search by a column at a time: its calls are on a stack, and the vertices*)
(* are re-paired one call after the other while it unwinds.                *)
(***************************************************************************)
EXTENDS Integers, Sequences, FiniteSetsExt, Covers

CONSTANTS
  Left,    \* row ranks
  Right,   \* column ranks
  Graphs   \* bound: the complaint matrices to start from

ASSUME GraphAssumption ==
  /\ Left \subseteq Nat /\ IsFiniteSet(Left)
  /\ Right \subseteq Nat /\ IsFiniteSet(Right)
  /\ Graphs \subseteq SUBSET (Left \X Right)

None == -1

VARIABLES
  edges,     \* the 1 entries of the matrix
  pair_u,    \* the partner of each row
  pair_v,    \* the partner of each column
  dist,      \* the level of each row in the last breadth-first search
  depth,     \* the level that search has come to
  turn,      \* the rows whose turn in the for loop is still to come
  calls,     \* dfs(u) in progress: [u, v, rest], the columns still to be tried
  z_left,    \* rows and columns reached for the cover
  z_right,
  step       \* "bfs", "sweep", "dfs", "unwind", "reach" or "done"

matching == <<pair_u, pair_v>>
reached == <<z_left, z_right>>
coverVars == <<edges, matching, dist, depth, turn, calls, reached, step>>

FreeLeft == {x \in Left : pair_u[x] = None}

\* adj[u]
Adjacent(x) == {y \in Right : <<x, y>> \in edges}

\* Rows matched to one of the columns ys.
Partners(ys) == {x \in Left : \E y \in ys : pair_v[y] = x}

Levels(free) == [x \in Left |-> IF x \in free THEN 0 ELSE None]

CoverInit ==
  /\ edges \in Graphs
  /\ pair_u = [x \in Left |-> None]
  /\ pair_v = [y \in Right |-> None]
  /\ dist = Levels(Left)
  /\ depth = 0
  /\ turn = {} /\ calls = <<>>
  /\ z_left = {} /\ z_right = {}
  /\ step = "bfs"

-----------------------------------------------------------------------------
(* bfs: rows by the length of the shortest alternating path that reaches   *)
(* them from a free row.                                                   *)

Level(d) == {x \in Left : dist[x] = d}

Found_Direct == \E x \in FreeLeft : \E y \in Adjacent(x) : pair_v[y] = None

\* found: some reached row has a free column.
Found == \E x \in Left : dist[x] # None /\ \E y \in Adjacent(x) : pair_v[y] = None

NextLevel ==
  /\ step = "bfs" /\ Level(depth) # {}
  /\ LET fresh == Partners(UNION {Adjacent(x) : x \in Level(depth)}) \intersect Level(None)
     IN  dist' = [x \in Left |-> IF x \in fresh THEN depth + 1 ELSE dist[x]]
  /\ depth' = depth + 1
  /\ UNCHANGED <<edges, matching, turn, calls, reached, step>>

\* The queue is empty: a round of searches, or the cover.
EndBfs ==
  /\ step = "bfs" /\ Level(depth) = {}
  /\ \/ Found /\ step' = "sweep" /\ turn' = Left /\ UNCHANGED reached
     \/ /\ ~Found /\ step' = "reach" /\ UNCHANGED turn
        /\ z_left' = FreeLeft /\ z_right' = {}
  /\ UNCHANGED <<edges, matching, dist, depth, calls>>

-----------------------------------------------------------------------------
(* dfs from every row still free at its turn.                              *)

Call(x) == [u |-> x, v |-> None, rest |-> Adjacent(x)]
Top == calls[Len(calls)]
Return == SubSeq(calls, 1, Len(calls) - 1)

\* What goes on when a call has returned.
Resume(caller) == IF calls' = <<>> THEN "sweep" ELSE caller

Search ==
  /\ step = "sweep" /\ turn \intersect FreeLeft # {}
  /\ LET x == Min(turn \intersect FreeLeft)
     IN  calls' = <<Call(x)>> /\ turn' = {z \in turn : z > x}
  /\ step' = "dfs"
  /\ UNCHANGED <<edges, matching, dist, depth, reached>>

\* The next round begins, with the levels of the rows that are free now.
EndRound ==
  /\ step = "sweep" /\ turn \intersect FreeLeft = {}
  /\ dist' = Levels(FreeLeft) /\ depth' = 0
  /\ turn' = {}
  /\ step' = "bfs"
  /\ UNCHANGED <<edges, matching, calls, reached>>

Deeper_Back(w) == dist[w] = dist[Top.u] - 1

\* dist[matched_u] == dist[u] + 1
Deeper(w) == dist[w] = dist[Top.u] + 1

\* The columns are tried in ascending order.
TryColumn ==
  /\ step = "dfs" /\ Top.rest # {}
  /\ LET y == Min(Top.rest)
         w == pair_v[y]
         tried == Append(Return, [u |-> Top.u, v |-> y, rest |-> Top.rest \ {y}])
     IN  \/ w = None /\ calls' = tried /\ step' = "unwind"
         \/ w # None /\ Deeper(w) /\ calls' = Append(tried, Call(w)) /\ UNCHANGED step
         \/ w # None /\ ~Deeper(w) /\ calls' = tried /\ UNCHANGED step
  /\ UNCHANGED <<edges, matching, dist, depth, turn, reached>>

\* return False
GiveUp ==
  /\ step = "dfs" /\ Top.rest = {}
  /\ dist' = [dist EXCEPT ![Top.u] = None]
  /\ calls' = Return
  /\ step' = Resume("dfs")
  /\ UNCHANGED <<edges, matching, depth, turn, reached>>

\* return True
Repair_OneWay(u, v) == pair_u' = [pair_u EXCEPT ![u] = v] /\ UNCHANGED pair_v

Repair(u, v) ==
  /\ pair_u' = [pair_u EXCEPT ![u] = v]
  /\ pair_v' = [pair_v EXCEPT ![v] = u]

Unwind ==
  /\ step = "unwind"
  /\ Repair(Top.u, Top.v)
  /\ calls' = Return
  /\ step' = Resume("unwind")
  /\ UNCHANGED <<edges, dist, depth, turn, reached>>

-----------------------------------------------------------------------------
(* The cover: what is not reached on the left, what is on the right.       *)

\* By an edge outside the matching to the right, by a pair to the left.
Crossed == UNION {Adjacent(x) \ {pair_u[x]} : x \in z_left}

Reach ==
  /\ step = "reach"
  /\ z_right' = z_right \union Crossed
  /\ z_left' = z_left \union Partners(z_right')
  /\ step' = IF reached' = reached THEN "done" ELSE step
  /\ UNCHANGED <<edges, matching, dist, depth, turn, calls>>

Cover == [U |-> Left \ z_left, V |-> z_right]

CoverNext ==
  \/ NextLevel \/ EndBfs
  \/ Search \/ EndRound \/ TryColumn \/ GiveUp \/ Unwind
  \/ Reach

CoverSpec == CoverInit /\ [][CoverNext]_coverVars

-----------------------------------------------------------------------------
(* Properties.                                                             *)

\* The two directions are one matching made of complaints, through every
\* re-pairing along an augmenting path; only the column that is given to another
\* row next is out of step.
IsMatching ==
  /\ \A x \in Left \ FreeLeft : <<x, pair_u[x]>> \in edges /\ pair_v[pair_u[x]] = x
  /\ \A y \in Right :
       pair_v[y] # None => pair_u[pair_v[y]] = y \/ (step = "unwind" /\ y = Top.v)

\* A round begins because a search can find a way out, and one does, whatever the
\* order in which rows and columns are tried: when it is over a row of the first
\* level, which was free, is matched.  No row ever loses its partner for none, so
\* there are no more rounds than rows.
RoundProgress ==
  [][/\ FreeLeft' \subseteq FreeLeft
     /\ EndRound => \E x \in Left \ FreeLeft : dist[x] = 0]_coverVars

\* The result covers every complaint, and no cover whatever is smaller.
CoverIsMinimum ==
  step = "done" =>
    /\ IsCover(edges, Cover)
    /\ \A c \in [U : SUBSET Left, V : SUBSET Right] :
         IsCover(edges, c) => Size(Cover) <= Size(c)
=============================================================================
