------------------------------- MODULE RBTree -------------------------------
(***************************************************************************)
(* The red-black tree of rbtree.c (kept twice, for the kernel and for the  *)
(* hwfs tools): insertions and removals in any order.  A node is its key.  *)
(* The code spells out the two directions; here a direction is a           *)
(* parameter.                                                              *)
(***************************************************************************)
EXTENDS Integers, FiniteSets, Sequences

CONSTANT Key                \* positive integers

VARIABLE tree

Nil == 0
Dir == {"left", "right"}
Other(d) == IF d = "left" THEN "right" ELSE "left"

Empty == [root |-> Nil, child |-> [k \in Key |-> [d \in Dir |-> Nil]],
          parent |-> [k \in Key |-> Nil], color |-> [k \in Key |-> "red"]]

Red(t, n) == IF n = Nil THEN FALSE ELSE t.color[n] = "red"

Paint(t, n, c) == IF n = Nil THEN t ELSE [t EXCEPT !.color[n] = c]

SetParent(t, n, p) == IF n = Nil THEN t ELSE [t EXCEPT !.parent[n] = p]

Side(t, p, n) == IF t.child[p]["left"] = n THEN "left" ELSE "right"

(* In the place of n below p comes m.                                      *)
Replace(t, p, n, m) ==
  IF p = Nil THEN [t EXCEPT !.root = m] ELSE [t EXCEPT !.child[p][Side(t, p, n)] = m]

(* rb_rotate_left (d = "left") and rb_rotate_right.                        *)
rb_rotate(t, x, d) ==
  LET p == t.parent[x]
      r == t.child[x][Other(d)]
      c == t.child[r][d]
      t1 == SetParent([t EXCEPT !.child[x][Other(d)] = c], c, x)
      t2 == Replace([t1 EXCEPT !.child[r][d] = x, !.parent[r] = p], p, x, r)
  IN  SetParent(t2, x, r)

RECURSIVE Outermost(_, _, _)
(* rb_leftmost and rb_rightmost                                            *)
Outermost(t, n, d) ==
  IF n = Nil \/ t.child[n][d] = Nil THEN n ELSE Outermost(t, t.child[n][d], d)

RECURSIVE Climb(_, _, _)
Climb(t, n, d) ==
  LET p == t.parent[n]
  IN  IF p # Nil /\ t.child[p][d] = n THEN Climb(t, p, d) ELSE p

\* Mutant: the successor is the parent, on whichever side the node hangs.
Neighbour_NoClimb(t, n, d) ==
  IF t.child[n][d] # Nil THEN Outermost(t, t.child[n][d], Other(d)) ELSE t.parent[n]

(* rb_next (d = "right") and rb_prev.                                      *)
Neighbour(t, n, d) ==
  IF t.child[n][d] # Nil THEN Outermost(t, t.child[n][d], Other(d)) ELSE Climb(t, n, d)

-----------------------------------------------------------------------------
RECURSIVE Position(_, _, _)
(* The search loop of the tree's users: where the key hangs.               *)
Position(t, n, k) ==
  LET d == IF n < k THEN "right" ELSE "left"
  IN  IF n = Nil THEN [p |-> Nil, d |-> d]
      ELSE IF t.child[n][d] = Nil THEN [p |-> n, d |-> d]
      ELSE Position(t, t.child[n][d], k)

rb_link(t, k, at) ==
  LET t1 == [t EXCEPT !.parent[k] = at.p, !.color[k] = "red",
                      !.child[k] = [d \in Dir |-> Nil]]
  IN  IF at.p = Nil THEN [t1 EXCEPT !.root = k] ELSE [t1 EXCEPT !.child[at.p][at.d] = k]

RECURSIVE rb_insert(_, _)
rb_insert(t, n) ==
  LET p == t.parent[n]
      g == t.parent[p]
      d == Side(t, g, p)
      u == t.child[g][Other(d)]
      inner == n = t.child[p][Other(d)]
      t1 == IF inner THEN rb_rotate(t, p, d) ELSE t
      q == IF inner THEN n ELSE p
  IN  IF ~Red(t, p) THEN Paint(t, t.root, "black")
      ELSE IF Red(t, u)
        THEN rb_insert(Paint(Paint(Paint(t, g, "red"), p, "black"), u, "black"), g)
      ELSE LET t2 == Paint(Paint(rb_rotate(t1, g, Other(d)), q, "black"), g, "red")
           IN  Paint(t2, t2.root, "black")

-----------------------------------------------------------------------------
RECURSIVE rb_erase_fix(_, _, _)
rb_erase_fix(t, child, p) ==
  LET d == Side(t, p, child)
      o == Other(d)
      redBrother == Red(t, t.child[p][o])
      t1 == IF redBrother
              THEN rb_rotate(Paint(Paint(t, t.child[p][o], "black"), p, "red"), p, d)
            ELSE t
      b == t1.child[p][o]
      nearOnly == ~Red(t1, t1.child[b][o])
      t2 == IF nearOnly
              THEN rb_rotate(Paint(Paint(t1, t1.child[b][d], "black"), b, "red"), b, o)
            ELSE t1
      b2 == t2.child[p][o]
      t3 == Paint(Paint(Paint(t2, b2, t2.color[p]), p, "black"), t2.child[b2][o], "black")
      t4 == rb_rotate(t3, p, d)
  IN  IF Red(t, child) \/ child = t.root THEN Paint(t, child, "black")
      ELSE IF ~Red(t1, t1.child[b][d]) /\ ~Red(t1, t1.child[b][o])
        THEN rb_erase_fix(Paint(t1, b, "red"), p, t1.parent[p])
      ELSE Paint(t4, t4.root, "black")

\* Mutant: a node with at most one child is removed without a repair.
RemovedColor_Leaf(t, n, x) ==
  IF t.child[n]["left"] # Nil /\ t.child[n]["right"] # Nil THEN t.color[x] ELSE "red"

(* The colour that leaves the tree: of the node that moves up, if one does.*)
RemovedColor(t, n, x) ==
  IF t.child[n]["left"] # Nil /\ t.child[n]["right"] # Nil THEN t.color[x] ELSE t.color[n]

rb_erase(t, n) ==
  LET l == t.child[n]["left"]
      r == t.child[n]["right"]
      two == l # Nil /\ r # Nil
      x == IF two THEN Neighbour(t, n, "right") ELSE IF l # Nil THEN l ELSE r
      c == IF two THEN t.child[x]["right"] ELSE x
      p == IF two /\ x = r THEN x ELSE IF two THEN t.parent[x] ELSE t.parent[n]
      near == [t EXCEPT !.child[x]["left"] = l, !.parent[x] = t.parent[n],
                        !.color[x] = t.color[n], !.parent[l] = x]
      far == SetParent([t EXCEPT !.child[x] = t.child[n], !.parent[x] = t.parent[n],
                                 !.color[x] = t.color[n], !.child[p]["left"] = c], c, p)
      t1 == IF two /\ x = r THEN near
            ELSE IF two THEN SetParent(SetParent(far, l, x), far.child[x]["right"], x)
            ELSE SetParent(t, c, p)
      t2 == Replace(t1, t.parent[n], n, x)
      t3 == [t2 EXCEPT !.child[n] = [d \in Dir |-> Nil], !.parent[n] = Nil, !.color[n] = "red"]
  IN  IF RemovedColor(t, n, x) = "black" THEN rb_erase_fix(t3, c, p) ELSE t3

-----------------------------------------------------------------------------
RECURSIVE Below(_, _)
Below(t, n) == IF n = Nil THEN {} ELSE {n} \cup UNION {Below(t, t.child[n][d]) : d \in Dir}

Keys(t) == Below(t, t.root)

Init == tree = Empty

Insert(k) ==
  /\ k \notin Keys(tree)
  /\ tree' = rb_insert(rb_link(tree, k, Position(tree, tree.root, k)), k)

Erase(k) == k \in Keys(tree) /\ tree' = rb_erase(tree, k)

Next == \E k \in Key : Insert(k) \/ Erase(k)

Spec == Init /\ [][Next]_tree

-----------------------------------------------------------------------------
RECURSIVE BlackHeight(_, _)
(* -1 where the two sides differ.                                          *)
BlackHeight(t, n) ==
  LET h == [d \in Dir |-> BlackHeight(t, t.child[n][d])]
  IN  IF n = Nil THEN 0
      ELSE IF h["left"] # h["right"] \/ h["left"] = -1 THEN -1
      ELSE h["left"] + (IF Red(t, n) THEN 0 ELSE 1)

(* After any insertions and removals the tree is a red-black tree: ordered,*)
(* with right parent links, no red node below a red one, and the same      *)
(* number of black nodes on every way down.                                *)
RedBlack ==
  /\ BlackHeight(tree, tree.root) # -1 /\ ~Red(tree, tree.root)
  /\ \A n \in Keys(tree) :
       /\ \A l \in Below(tree, tree.child[n]["left"]) : l < n
       /\ \A r \in Below(tree, tree.child[n]["right"]) : r > n
       /\ \A d \in Dir : tree.child[n][d] # Nil =>
            tree.parent[tree.child[n][d]] = n /\ ~(Red(tree, n) /\ Red(tree, tree.child[n][d]))

(* rb_next and rb_prev go to the nearest greater and smaller key.          *)
IterationExact ==
  \A n \in Keys(tree) :
    /\ LET up == {k \in Keys(tree) : k > n} s == Neighbour(tree, n, "right")
       IN  IF up = {} THEN s = Nil ELSE s \in up /\ \A k \in up : s <= k
    /\ LET low == {k \in Keys(tree) : k < n} s == Neighbour(tree, n, "left")
       IN  IF low = {} THEN s = Nil ELSE s \in low /\ \A k \in low : s >= k
=============================================================================
