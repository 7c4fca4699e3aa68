--------------------------- MODULE LinkedListProofs ---------------------------
(***************************************************************************)
(* The links of any number of lists and nodes stay two-way, and the lists  *)
(* are sequences of nodes.                                                 *)
(***************************************************************************)
EXTENDS
  LinkedList, FiniteSetTheorems, SequenceTheorems, NaturalsInduction, WellFoundedInduction, TLAPS

IInv == TypeOK /\ LinksAreTwoWay

LEMMA Ends ==
  /\ \A l \in List : head(l) \in Heads /\ tail(l) \in Tails
  /\ \A l, m \in List : head(l) # tail(m) /\ (head(l) = head(m) => l = m) /\ (tail(l) = tail(m) => l = m)
  /\ \A l \in List : head(l)[1] = l /\ tail(l)[1] = l
  /\ \A c \in Heads : \E l \in List : c = head(l)
  /\ \A c \in Tails : \E l \in List : c = tail(l)
  /\ Heads \cap Tails = {}
  /\ NULL \notin Cell /\ Node \subseteq Cell /\ Heads \subseteq Cell /\ Tails \subseteq Cell
  /\ \A n \in Node : n \notin Heads /\ n \notin Tails
  BY ListAssumption DEF head, tail, Heads, Tails, Cell

LEMMA NullIsNoCell == NULL \notin Cell /\ \A c \in Node : c \in Cell
  BY Ends

LEMMA EndsAreCells ==
  ASSUME NEW l \in List
  PROVE  head(l) \in Cell /\ tail(l) \in Cell
  BY Ends

LEMMA InitHolds == Init => IInv
<1> SUFFICES ASSUME Init PROVE IInv
  OBVIOUS
<1>1. \A c \in Cell : /\ c \in Heads => next[c] = tail(c[1]) /\ prev[c] = NULL
                      /\ c \in Tails => prev[c] = head(c[1]) /\ next[c] = NULL
                      /\ c \in Node => next[c] = NULL /\ prev[c] = NULL
  BY Ends DEF Init
<1>2. \A l \in List : /\ next[head(l)] = tail(l) /\ prev[head(l)] = NULL
                      /\ prev[tail(l)] = head(l) /\ next[tail(l)] = NULL
  BY <1>1, Ends
<1>3. \A c \in Cell : c \in Heads \/ c \in Tails \/ c \in Node
  BY DEF Cell
<1>4. \A c \in Cell : next[c] \in Cell \cup {NULL} /\ prev[c] \in Cell \cup {NULL}
  BY <1>1, <1>2, <1>3, Ends
<1>5. TypeOK
  BY <1>4 DEF Init, TypeOK
<1>6. LinksAreTwoWay
  <2>1. \A c \in Cell : next[c] # NULL => prev[next[c]] = c
    BY <1>1, <1>2, <1>3, Ends
  <2>2. \A c \in Cell : prev[c] # NULL => next[prev[c]] = c
    BY <1>1, <1>2, <1>3, Ends
  <2>3. QED
    BY <1>1, <1>2, <2>1, <2>2, Ends DEF LinksAreTwoWay
<1>7. QED
  BY <1>5, <1>6 DEF IInv

\* A node that is in no list comes between two neighbours.
LEMMA InsertKeeps ==
  ASSUME IInv, NEW a \in Cell, NEW b \in Cell, next[a] = b, NEW node \in Node, Unlinked(node),
         next' = [next EXCEPT ![node] = b, ![a] = node],
         prev' = [prev EXCEPT ![node] = a, ![b] = node]
  PROVE  IInv'
<1>1. node # a /\ node # b /\ prev[b] = a /\ node \in Cell /\ next[node] = NULL /\ prev[node] = NULL
  BY Ends DEF IInv, LinksAreTwoWay, Unlinked, Linked
<1>2. TypeOK'
  BY <1>1 DEF IInv, TypeOK
<1>3. /\ next'[node] = b /\ next'[a] = node
      /\ \A c \in Cell : c # node /\ c # a => next'[c] = next[c]
      /\ prev'[node] = a /\ prev'[b] = node
      /\ \A c \in Cell : c # node /\ c # b => prev'[c] = prev[c]
  BY <1>1 DEF IInv, TypeOK
<1>4. ASSUME NEW c \in Cell, next'[c] # NULL PROVE prev'[next'[c]] = c
  <2>1. CASE c = node \/ c = a
    BY <1>3, <2>1
  <2>2. CASE c # node /\ c # a
    <3>1. next'[c] = next[c] /\ next[c] \in Cell /\ prev[next[c]] = c
      BY <1>3, <1>4, <2>2 DEF IInv, TypeOK, LinksAreTwoWay
    <3>2. next[c] # node /\ next[c] # b
      BY <1>1, <2>2, <3>1, Ends
    <3>3. QED
      BY <1>3, <3>1, <3>2
  <2>3. QED
    BY <2>1, <2>2
<1>5. ASSUME NEW c \in Cell, prev'[c] # NULL PROVE next'[prev'[c]] = c
  <2>1. CASE c = node \/ c = b
    BY <1>3, <2>1
  <2>2. CASE c # node /\ c # b
    <3>1. prev'[c] = prev[c] /\ prev[c] \in Cell /\ next[prev[c]] = c
      BY <1>3, <1>5, <2>2 DEF IInv, TypeOK, LinksAreTwoWay
    <3>2. prev[c] # node /\ prev[c] # a
      BY <1>1, <2>2, <3>1, Ends
    <3>3. QED
      BY <1>3, <3>1, <3>2
  <2>3. QED
    BY <2>1, <2>2
<1>6. ASSUME NEW c \in Node PROVE next'[c] = NULL <=> prev'[c] = NULL
  <2>1. c \in Cell /\ (next[c] = NULL <=> prev[c] = NULL) /\ a # NULL /\ b # NULL /\ node # NULL
    BY <1>1, NullIsNoCell DEF IInv, LinksAreTwoWay
  <2>2. CASE c = node
    BY <1>3, <2>1, <2>2
  <2>3. CASE c # node /\ c = a
    BY <1>1, <1>3, <2>1, <2>3
  <2>4. CASE c # node /\ c # a /\ c = b
    BY <1>1, <1>3, <2>1, <2>4
  <2>5. CASE c # node /\ c # a /\ c # b
    BY <1>3, <2>1, <2>5
  <2>6. QED
    BY <2>2, <2>3, <2>4, <2>5
<1>7. ASSUME NEW l \in List
      PROVE  /\ next'[head(l)] # NULL /\ prev'[head(l)] = NULL
             /\ next'[tail(l)] = NULL /\ prev'[tail(l)] # NULL
  <2>1. /\ next[head(l)] # NULL /\ prev[head(l)] = NULL
        /\ next[tail(l)] = NULL /\ prev[tail(l)] # NULL
    BY DEF IInv, LinksAreTwoWay
  <2>2. head(l) \in Cell /\ tail(l) \in Cell /\ a # NULL /\ b # NULL /\ node # NULL
    BY <1>1, EndsAreCells, NullIsNoCell
  <2>3. head(l) # node /\ tail(l) # node /\ head(l) # b /\ tail(l) # a
    BY <1>1, <2>1, <2>2
  <2>4. next'[head(l)] # NULL
    BY <1>3, <2>1, <2>2, <2>3
  <2>5. prev'[tail(l)] # NULL
    BY <1>3, <2>1, <2>2, <2>3
  <2>6. prev'[head(l)] = NULL /\ next'[tail(l)] = NULL
    BY <1>3, <2>1, <2>2, <2>3
  <2>7. QED
    BY <2>4, <2>5, <2>6
<1>8. QED
  BY <1>2, <1>4, <1>5, <1>6, <1>7 DEF IInv, LinksAreTwoWay

\* A cell leaves: its neighbours become neighbours.
LEMMA RemoveKeeps ==
  ASSUME IInv, NEW node \in Cell, list_remove(node)
  PROVE  IInv'
<1> DEFINE a == prev[node]
           b == next[node]
<1> USE DEF list_remove
<1>1. /\ a \in Cell /\ b \in Cell /\ next[a] = node /\ prev[b] = node
      /\ node \in Node
  <2>1. a \in Cell /\ b \in Cell /\ next[a] = node /\ prev[b] = node
    BY DEF IInv, TypeOK, LinksAreTwoWay
  <2>2. node \notin Heads /\ node \notin Tails
    BY Ends DEF IInv, LinksAreTwoWay
  <2>3. QED
    BY <2>1, <2>2 DEF Cell
<1>2. (a # node /\ b # node) \/ (a = node /\ b = node)
  BY <1>1
<1>3. TypeOK'
  BY <1>1 DEF IInv, TypeOK
<1>4. /\ next'[node] = NULL /\ prev'[node] = NULL
      /\ a # node => next'[a] = b /\ prev'[b] = a
      /\ \A c \in Cell : c # node /\ c # a => next'[c] = next[c]
      /\ \A c \in Cell : c # node /\ c # b => prev'[c] = prev[c]
  BY <1>1, <1>2 DEF IInv, TypeOK
<1> HIDE DEF a, b
<1>5. ASSUME NEW c \in Cell, next'[c] # NULL PROVE prev'[next'[c]] = c
  <2>1. c # node
    BY <1>4, <1>5
  <2>2. CASE c = a
    BY <1>4, <2>1, <2>2
  <2>3. CASE c # a
    <3>1. next'[c] = next[c] /\ next[c] \in Cell /\ prev[next[c]] = c
      BY <1>4, <1>5, <2>1, <2>3 DEF IInv, TypeOK, LinksAreTwoWay
    <3>2. next[c] # node
      BY <2>3, <3>1 DEF a
    <3>3. next[c] # b
      BY <1>1, <2>1, <3>1
    <3>4. QED
      BY <1>4, <3>1, <3>2, <3>3
  <2>4. QED
    BY <2>2, <2>3
<1>6. ASSUME NEW c \in Cell, prev'[c] # NULL PROVE next'[prev'[c]] = c
  <2>1. c # node
    BY <1>4, <1>6
  <2>2. CASE c = b
    <3>1. a # node
      BY <1>2, <2>1, <2>2
    <3>2. QED
      BY <1>4, <2>2, <3>1
  <2>3. CASE c # b
    <3>1. prev'[c] = prev[c] /\ prev[c] \in Cell /\ next[prev[c]] = c
      BY <1>4, <1>6, <2>1, <2>3 DEF IInv, TypeOK, LinksAreTwoWay
    <3>2. prev[c] # node
      BY <2>3, <3>1 DEF b
    <3>3. prev[c] # a
      BY <1>1, <2>1, <3>1
    <3>4. QED
      BY <1>4, <3>1, <3>2, <3>3
  <2>4. QED
    BY <2>2, <2>3
<1>7. ASSUME NEW c \in Node PROVE next'[c] = NULL <=> prev'[c] = NULL
  <2>1. c \in Cell /\ (next[c] = NULL <=> prev[c] = NULL)
    BY Ends DEF IInv, LinksAreTwoWay
  <2>2. c = a /\ c # node => next[c] # NULL /\ next'[c] # NULL /\ prev[c] # NULL
    BY <1>1, <1>4, <2>1, Ends
  <2>3. c = b /\ c # node => prev[c] # NULL /\ prev'[c] # NULL /\ next[c] # NULL
    BY <1>1, <1>2, <1>4, <2>1, Ends
  <2>4. CASE c = node
    BY <1>4, <2>4
  <2>5. CASE c # node /\ c = a /\ c = b
    BY <2>2, <2>3, <2>5, <1>1, <1>2, <1>4, Ends
  <2>6. CASE c # node /\ c = a /\ c # b
    BY <2>1, <2>2, <2>6, <1>4
  <2>7. CASE c # node /\ c # a /\ c = b
    BY <2>1, <2>3, <2>7, <1>4
  <2>8. CASE c # node /\ c # a /\ c # b
    BY <2>1, <2>8, <1>4
  <2>9. QED
    BY <2>4, <2>5, <2>6, <2>7, <2>8
<1>8. ASSUME NEW l \in List
      PROVE  /\ next'[head(l)] # NULL /\ prev'[head(l)] = NULL
             /\ next'[tail(l)] = NULL /\ prev'[tail(l)] # NULL
  <2>1. /\ next[head(l)] # NULL /\ prev[head(l)] = NULL
        /\ next[tail(l)] = NULL /\ prev[tail(l)] # NULL
    BY DEF IInv, LinksAreTwoWay
  <2>2. head(l) \in Cell /\ tail(l) \in Cell /\ a # NULL /\ b # NULL /\ node # NULL
    BY <1>1, EndsAreCells, NullIsNoCell
  <2>3. head(l) # node /\ tail(l) # node /\ head(l) # b /\ tail(l) # a
    BY <1>1, <2>1, <2>2 DEF a, b
  <2>4. next'[head(l)] # NULL
    BY <1>4, <2>1, <2>2, <2>3
  <2>5. prev'[tail(l)] # NULL
    <3>1. tail(l) = b => a # node
      BY <1>2, <2>3
    <3>2. QED
      BY <1>4, <2>1, <2>2, <2>3, <3>1
  <2>6. prev'[head(l)] = NULL /\ next'[tail(l)] = NULL
    BY <1>4, <2>1, <2>2, <2>3
  <2>7. QED
    BY <2>4, <2>5, <2>6
<1>9. QED
  BY <1>3, <1>5, <1>6, <1>7, <1>8 DEF IInv, LinksAreTwoWay

LEMMA InsertBeforeKeeps ==
  ASSUME IInv, NEW anchor \in Cell, NEW node \in Node, prev[anchor] # NULL, Unlinked(node),
         list_insert_before(anchor, node)
  PROVE  IInv'
<1>1. prev[anchor] \in Cell /\ next[prev[anchor]] = anchor
  BY DEF IInv, TypeOK, LinksAreTwoWay
<1>2. QED
  BY <1>1, InsertKeeps DEF list_insert_before

LEMMA InsertAfterKeeps ==
  ASSUME IInv, NEW anchor \in Cell, NEW node \in Node, next[anchor] # NULL, Unlinked(node),
         list_insert_after(anchor, node)
  PROVE  IInv'
<1>1. next[anchor] \in Cell
  BY DEF IInv, TypeOK
<1>2. QED
  BY <1>1, InsertKeeps DEF list_insert_after

LEMMA NextKeeps == IInv /\ [Next]_vars => IInv'
<1> SUFFICES ASSUME IInv, [Next]_vars PROVE IInv'
  OBVIOUS
<1>1. \A l \in List : /\ head(l) \in Cell /\ tail(l) \in Cell
                      /\ next[head(l)] \in Cell /\ next[head(l)] # NULL
                      /\ prev[tail(l)] \in Cell /\ prev[tail(l)] # NULL
  BY Ends DEF IInv, TypeOK, LinksAreTwoWay
<1>2. CASE \E l \in List : list_pop(l) \/ list_popback(l)
  BY <1>1, <1>2, RemoveKeeps DEF list_pop, list_popback
<1>3. CASE \E l \in List, node \in Node : list_push(l, node) \/ list_pushback(l, node)
  <2>1. PICK l \in List, node \in Node : list_push(l, node) \/ list_pushback(l, node)
    BY <1>3
  <2>2. CASE list_push(l, node)
    BY <1>1, <2>2, InsertAfterKeeps DEF list_push
  <2>3. CASE list_pushback(l, node)
    BY <1>1, <2>3, InsertBeforeKeeps DEF list_pushback
  <2>4. QED
    BY <2>1, <2>2, <2>3
<1>4. CASE \E anchor \in Cell, node \in Node : InsertBefore(anchor, node) \/ InsertAfter(anchor, node)
  BY <1>4, InsertBeforeKeeps, InsertAfterKeeps DEF InsertBefore, InsertAfter
<1>5. CASE \E node \in Node : Linked(node) /\ list_remove(node)
  BY <1>5, RemoveKeeps DEF Cell
<1>6. CASE UNCHANGED vars
  BY <1>6 DEF vars, IInv, TypeOK, LinksAreTwoWay
<1>7. QED
  BY <1>2, <1>3, <1>4, <1>5, <1>6 DEF Next

\* The links of all lists stay two-way and their ends stay their ends, for every number of
\* lists and nodes and every order of insertions and removals.
THEOREM LinksStayTwoWay == Spec => []LinksAreTwoWay
<1>1. IInv => LinksAreTwoWay
  BY DEF IInv
<1>2. QED
  BY <1>1, InitHolds, NextKeeps, PTL DEF Spec

-----------------------------------------------------------------------------
(* What the pointers hold is a sequence of nodes for every list.             *)

\* the cells of a list: its head, its nodes, its tail
At(q, l, i) == IF i = 0 THEN head(l) ELSE IF i = Len(q[l]) + 1 THEN tail(l) ELSE q[l][i]

Apart(q) ==
  \A l, m \in List : \A i \in 1 .. Len(q[l]), j \in 1 .. Len(q[m]) :
    q[l][i] = q[m][j] => l = m /\ i = j

Holds(q) ==
  /\ q \in [List -> Seq(Node)]
  /\ Apart(q)
  /\ \A l \in List, i \in Nat : i <= Len(q[l]) => next[At(q, l, i)] = At(q, l, i + 1)
  /\ \A n \in Node : Linked(n) => \E l \in List : \E i \in 1 .. Len(q[l]) : q[l][i] = n

LEMMA InsertAtElements ==
  ASSUME NEW s \in Seq(Node), NEW i \in Nat, i <= Len(s), NEW node \in Node,
         NEW t, t = Nodes!InsertAt(s, i + 1, node)
  PROVE  /\ t \in Seq(Node) /\ Len(t) = Len(s) + 1
         /\ \A k \in 1 .. Len(s) + 1 :
              t[k] = IF k <= i THEN s[k] ELSE IF k = i + 1 THEN node ELSE s[k - 1]
<1> DEFINE u == SubSeq(s, 1, i)
           v == SubSeq(s, i + 1, Len(s))
           w == u \o <<node>>
<1>1. Len(s) \in Nat /\ \A k \in 1 .. Len(s) : s[k] \in Node
  OBVIOUS
<1>2. u \in Seq(Node) /\ Len(u) = i /\ \A k \in 1 .. i : u[k] = s[k]
  <2>1. \A k \in 1 .. i : s[k] \in Node
    BY <1>1
  <2>2. 1 \in Int /\ i \in Int
    OBVIOUS
  <2>3. /\ SubSeq(s, 1, i) \in Seq(Node)
        /\ Len(SubSeq(s, 1, i)) = IF 1 <= i THEN i - 1 + 1 ELSE 0
        /\ \A k \in 1 .. i - 1 + 1 : SubSeq(s, 1, i)[k] = s[1 + k - 1]
    BY <2>1, <2>2, SubSeqProperties
  <2>4. QED
    BY <2>3
<1>3. v \in Seq(Node) /\ Len(v) = Len(s) - i /\ \A k \in 1 .. Len(s) - i : v[k] = s[i + k]
  <2>1. \A k \in i + 1 .. Len(s) : s[k] \in Node
    BY <1>1
  <2>2. i + 1 \in Int /\ Len(s) \in Int
    BY <1>1
  <2>3. /\ SubSeq(s, i + 1, Len(s)) \in Seq(Node)
        /\ Len(SubSeq(s, i + 1, Len(s))) = IF i + 1 <= Len(s) THEN Len(s) - (i + 1) + 1 ELSE 0
        /\ \A k \in 1 .. Len(s) - (i + 1) + 1 : SubSeq(s, i + 1, Len(s))[k] = s[i + 1 + k - 1]
    BY <2>1, <2>2, SubSeqProperties
  <2>4. QED
    BY <1>1, <2>3
<1>4. Nodes!InsertAt(s, i + 1, node) = w \o v
  <2>1. i + 1 - 1 = i
    OBVIOUS
  <2>2. ASSUME NEW j
        PROVE  Nodes!InsertAt(s, j, node) = SubSeq(s, 1, j - 1) \o <<node>> \o SubSeq(s, j, Len(s))
    BY Zenon DEF Nodes!InsertAt
  <2>3. PICK j \in Nat : j = i + 1 /\ j - 1 = i
    BY <2>1
  <2>4. Nodes!InsertAt(s, j, node) = SubSeq(s, 1, i) \o <<node>> \o SubSeq(s, j, Len(s))
    BY <2>2, <2>3, Zenon
  <2>5. QED
    BY <2>3, <2>4, Zenon
<1>5. <<node>> \in Seq(Node) /\ Len(<<node>>) = 1 /\ <<node>>[1] = node
  OBVIOUS
<1> HIDE DEF u, v
<1>6. w \in Seq(Node) /\ Len(w) = i + 1
      /\ \A k \in 1 .. i + 1 : w[k] = IF k <= i THEN u[k] ELSE <<node>>[k - i]
  BY <1>2, <1>5, ConcatProperties
<1> HIDE DEF w
<1>7. w \o v \in Seq(Node) /\ Len(w \o v) = Len(s) + 1
      /\ \A k \in 1 .. Len(s) + 1 : (w \o v)[k] = IF k <= i + 1 THEN w[k] ELSE v[k - (i + 1)]
  <2>1. /\ w \o v \in Seq(Node) /\ Len(w \o v) = Len(w) + Len(v)
        /\ \A k \in 1 .. Len(w) + Len(v) : (w \o v)[k] = IF k <= Len(w) THEN w[k] ELSE v[k - Len(w)]
    BY <1>3, <1>6, ConcatProperties
  <2>2. Len(w) + Len(v) = Len(s) + 1
    BY <1>1, <1>3, <1>6
  <2>3. QED
    BY <1>6, <2>1, <2>2
<1>8. ASSUME NEW k \in 1 .. Len(s) + 1
      PROVE  (w \o v)[k] = IF k <= i THEN s[k] ELSE IF k = i + 1 THEN node ELSE s[k - 1]
  <2>1. CASE k <= i
    BY <1>1, <1>2, <1>6, <1>7, <2>1
  <2>2. CASE k = i + 1
    BY <1>1, <1>5, <1>6, <1>7, <2>2
  <2>3. CASE k > i + 1
    <3>1. PICK j \in 1 .. Len(s) - i : j = k - (i + 1) /\ i + j = k - 1
      BY <1>1, <2>3
    <3>2. (w \o v)[k] = v[j]
      BY <1>7, <2>3, <3>1
    <3>3. QED
      BY <1>3, <2>3, <3>1, <3>2
  <2>4. k <= i \/ k = i + 1 \/ k > i + 1
    OBVIOUS
  <2>5. QED
    BY <2>1, <2>2, <2>3, <2>4
<1>9. t \in Seq(Node) /\ Len(t) = Len(s) + 1
  BY <1>4, <1>7
<1>10. \A k \in 1 .. Len(s) + 1 : t[k] = IF k <= i THEN s[k] ELSE IF k = i + 1 THEN node ELSE s[k - 1]
  BY <1>4, <1>8
<1>11. QED
  BY <1>9, <1>10

LEMMA RemoveAtElements ==
  ASSUME NEW s \in Seq(Node), NEW i \in 1 .. Len(s), NEW t, t = Nodes!RemoveAt(s, i)
  PROVE  /\ t \in Seq(Node) /\ Len(t) = Len(s) - 1
         /\ \A k \in 1 .. Len(s) - 1 : t[k] = IF k < i THEN s[k] ELSE s[k + 1]
<1> DEFINE u == SubSeq(s, 1, i - 1)
           v == SubSeq(s, i + 1, Len(s))
<1>1. Len(s) \in Nat /\ i \in Nat /\ i > 0 /\ i <= Len(s) /\ \A k \in 1 .. Len(s) : s[k] \in Node
  OBVIOUS
<1>2. u \in Seq(Node) /\ Len(u) = i - 1 /\ \A k \in 1 .. i - 1 : u[k] = s[k]
  <2>1. \A k \in 1 .. i - 1 : s[k] \in Node
    BY <1>1
  <2>2. 1 \in Int /\ i - 1 \in Int
    OBVIOUS
  <2>3. /\ SubSeq(s, 1, i - 1) \in Seq(Node)
        /\ Len(SubSeq(s, 1, i - 1)) = IF 1 <= i - 1 THEN i - 1 - 1 + 1 ELSE 0
        /\ \A k \in 1 .. i - 1 - 1 + 1 : SubSeq(s, 1, i - 1)[k] = s[1 + k - 1]
    BY <2>1, <2>2, SubSeqProperties
  <2>4. QED
    BY <1>1, <2>3
<1>3. v \in Seq(Node) /\ Len(v) = Len(s) - i /\ \A k \in 1 .. Len(s) - i : v[k] = s[i + k]
  <2>1. \A k \in i + 1 .. Len(s) : s[k] \in Node
    BY <1>1
  <2>2. i + 1 \in Int /\ Len(s) \in Int
    BY <1>1
  <2>3. /\ SubSeq(s, i + 1, Len(s)) \in Seq(Node)
        /\ Len(SubSeq(s, i + 1, Len(s))) = IF i + 1 <= Len(s) THEN Len(s) - (i + 1) + 1 ELSE 0
        /\ \A k \in 1 .. Len(s) - (i + 1) + 1 : SubSeq(s, i + 1, Len(s))[k] = s[i + 1 + k - 1]
    BY <2>1, <2>2, SubSeqProperties
  <2>4. QED
    BY <1>1, <2>3
<1>4. Nodes!RemoveAt(s, i) = u \o v
  BY DEF Nodes!RemoveAt
<1> HIDE DEF u, v
<1>5. u \o v \in Seq(Node) /\ Len(u \o v) = Len(s) - 1
      /\ \A k \in 1 .. Len(s) - 1 : (u \o v)[k] = IF k <= i - 1 THEN u[k] ELSE v[k - (i - 1)]
  <2>1. /\ u \o v \in Seq(Node) /\ Len(u \o v) = Len(u) + Len(v)
        /\ \A k \in 1 .. Len(u) + Len(v) : (u \o v)[k] = IF k <= Len(u) THEN u[k] ELSE v[k - Len(u)]
    BY <1>2, <1>3, ConcatProperties
  <2>2. Len(u) + Len(v) = Len(s) - 1
    BY <1>1, <1>2, <1>3
  <2>3. QED
    BY <1>2, <2>1, <2>2
<1>6. ASSUME NEW k \in 1 .. Len(s) - 1
      PROVE  (u \o v)[k] = IF k < i THEN s[k] ELSE s[k + 1]
  <2>1. CASE k < i
    BY <1>1, <1>2, <1>5, <2>1
  <2>2. CASE k >= i
    <3>1. k - (i - 1) \in 1 .. Len(s) - i /\ i + (k - (i - 1)) = k + 1
      BY <1>1, <2>2
    <3>2. QED
      BY <1>1, <1>3, <1>5, <2>2, <3>1
  <2>3. k < i \/ k >= i
    BY <1>1
  <2>4. QED
    BY <2>1, <2>2, <2>3
<1>7. QED
  BY <1>4, <1>5, <1>6

\* Neighbours point to each other, and no cell has two places.
LEMMA Places ==
  ASSUME IInv, NEW q, Holds(q)
  PROVE  /\ \A l \in List : Len(q[l]) \in Nat /\ q[l] \in Seq(Node) /\ At(q, l, 0) = head(l)
                            /\ At(q, l, Len(q[l]) + 1) = tail(l)
         /\ \A l \in List, i \in Nat : i \in 1 .. Len(q[l]) => At(q, l, i) = q[l][i] /\ q[l][i] \in Node
         /\ \A l \in List, i \in Nat : i <= Len(q[l]) + 1 => At(q, l, i) \in Cell
         /\ \A l \in List, i \in Nat : i <= Len(q[l]) =>
              next[At(q, l, i)] = At(q, l, i + 1) /\ prev[At(q, l, i + 1)] = At(q, l, i)
         /\ \A l, m \in List, i, j \in Nat :
              i <= Len(q[l]) + 1 /\ j <= Len(q[m]) + 1 /\ At(q, l, i) = At(q, m, j) => l = m /\ i = j
<1>1. \A l \in List : Len(q[l]) \in Nat /\ q[l] \in Seq(Node)
  BY DEF Holds
<1>2. \A l \in List : /\ At(q, l, 0) = head(l)
                      /\ At(q, l, Len(q[l]) + 1) = tail(l)
  BY <1>1 DEF At
<1>3. \A l \in List, i \in Nat : i \in 1 .. Len(q[l]) => At(q, l, i) = q[l][i] /\ q[l][i] \in Node
  <2> SUFFICES ASSUME NEW l \in List, NEW i \in Nat, i \in 1 .. Len(q[l])
               PROVE  At(q, l, i) = q[l][i] /\ q[l][i] \in Node
    OBVIOUS
  <2>1. i # 0 /\ i # Len(q[l]) + 1
    BY <1>1
  <2>2. QED
    BY <1>1, <2>1, ElementOfSeq DEF At
<1>4. \A l \in List, i \in Nat : i <= Len(q[l]) + 1 => i = 0 \/ i = Len(q[l]) + 1 \/ i \in 1 .. Len(q[l])
  BY <1>1
<1>5. \A l \in List, i \in Nat : i <= Len(q[l]) + 1 => At(q, l, i) \in Cell
  BY <1>2, <1>3, <1>4, EndsAreCells, NullIsNoCell
<1>6. ASSUME NEW l \in List, NEW i \in Nat, i <= Len(q[l])
      PROVE  next[At(q, l, i)] = At(q, l, i + 1) /\ prev[At(q, l, i + 1)] = At(q, l, i)
  <2>1. At(q, l, i) \in Cell /\ At(q, l, i + 1) \in Cell
    <3>1. i + 1 \in Nat /\ i + 1 <= Len(q[l]) + 1 /\ i <= Len(q[l]) + 1
      BY <1>1, <1>6
    <3>2. QED
      BY <1>5, <3>1
  <2>2. next[At(q, l, i)] = At(q, l, i + 1)
    BY <1>6 DEF Holds
  <2>3. QED
    BY <2>1, <2>2, Ends DEF IInv, LinksAreTwoWay
<1>7. ASSUME NEW l \in List, NEW m \in List, NEW i \in Nat, NEW j \in Nat,
             i <= Len(q[l]) + 1, j <= Len(q[m]) + 1, At(q, l, i) = At(q, m, j)
      PROVE  l = m /\ i = j
  <2>1. CASE i = 0
    <3>1. j = 0
      BY <1>2, <1>3, <1>4, <1>7, <2>1, Ends
    <3>2. QED
      BY <1>2, <1>7, <2>1, <3>1, Ends
  <2>2. CASE i = Len(q[l]) + 1
    <3>1. j = Len(q[m]) + 1
      BY <1>2, <1>3, <1>4, <1>7, <2>2, Ends
    <3>2. QED
      BY <1>2, <1>7, <2>2, <3>1, Ends
  <2>3. CASE i \in 1 .. Len(q[l])
    <3>1. j \in 1 .. Len(q[m])
      BY <1>2, <1>3, <1>4, <1>7, <2>3, Ends
    <3>2. q[l][i] = q[m][j]
      BY <1>3, <1>7, <2>3, <3>1
    <3>3. QED
      BY <2>3, <3>1, <3>2 DEF Holds, Apart
  <2>4. QED
    BY <1>4, <1>7, <2>1, <2>2, <2>3
<1>8. QED
  BY <1>1, <1>2, <1>3, <1>5, <1>6, <1>7

Inserted(q, l, i, node) == [q EXCEPT ![l] = Nodes!InsertAt(q[l], i, node)]
Deleted(q, l, i) == [q EXCEPT ![l] = Nodes!RemoveAt(q[l], i)]

LEMMA InsertedPlaces ==
  ASSUME IInv, NEW q, Holds(q), NEW l \in List, NEW i \in Nat, i <= Len(q[l]), NEW node \in Node,
         Unlinked(node)
  PROVE  LET t == Inserted(q, l, i + 1, node)
         IN  /\ t \in [List -> Seq(Node)] /\ Apart(t)
             /\ \A m \in List : Len(t[m]) = IF m = l THEN Len(q[m]) + 1 ELSE Len(q[m])
             /\ \A m \in List, k \in Nat : k <= Len(t[m]) + 1 =>
                  At(t, m, k) = IF m # l \/ k <= i THEN At(q, m, k)
                                ELSE IF k = i + 1 THEN node ELSE At(q, m, k - 1)
<1> DEFINE t == Inserted(q, l, i + 1, node)
<1>1. q \in [List -> Seq(Node)] /\ Len(q[l]) \in Nat /\ q[l] \in Seq(Node)
      /\ \A m \in List : Len(q[m]) \in Nat /\ q[m] \in Seq(Node)
  BY DEF Holds
<1>2. /\ t[l] \in Seq(Node) /\ Len(t[l]) = Len(q[l]) + 1
      /\ \A k \in 1 .. Len(q[l]) + 1 :
           t[l][k] = IF k <= i THEN q[l][k] ELSE IF k = i + 1 THEN node ELSE q[l][k - 1]
  <2>1. t[l] = Nodes!InsertAt(q[l], i + 1, node)
    BY <1>1 DEF Inserted
  <2> HIDE DEF t
  <2>2. QED
    BY <1>1, <2>1, InsertAtElements
<1>3. \A m \in List : m # l => t[m] = q[m]
  BY <1>1 DEF Inserted
<1>4. t \in [List -> Seq(Node)]
  <2>1. Nodes!InsertAt(q[l], i + 1, node) \in Seq(Node)
    BY <1>1, InsertAtElements
  <2>2. QED
    BY <1>1, <2>1 DEF Inserted
<1> HIDE DEF t
<1>5. \A m \in List : Len(t[m]) = IF m = l THEN Len(q[m]) + 1 ELSE Len(q[m])
  BY <1>2, <1>3
<1>6. ASSUME NEW m \in List, NEW k \in Nat, k <= Len(t[m]) + 1
      PROVE  At(t, m, k) = IF m # l \/ k <= i THEN At(q, m, k)
                           ELSE IF k = i + 1 THEN node ELSE At(q, m, k - 1)
  <2>1. CASE m # l
    BY <1>3, <2>1 DEF At
  <2>2. ASSUME m = l, k = 0 PROVE At(t, m, k) = At(q, m, k)
    BY <2>2 DEF At
  <2>3. ASSUME m = l, k \in 1 .. i PROVE At(t, m, k) = At(q, m, k)
    <3>1. k # 0 /\ k # Len(t[l]) + 1 /\ k # Len(q[l]) + 1 /\ t[l][k] = q[l][k]
      BY <1>1, <1>2, <2>3
    <3>2. QED
      BY <2>3, <3>1 DEF At
  <2>4. ASSUME m = l, k = i + 1 PROVE At(t, m, k) = node
    <3>1. k # 0 /\ k # Len(t[l]) + 1 /\ t[l][k] = node
      BY <1>1, <1>2, <2>4
    <3>2. QED
      BY <2>4, <3>1 DEF At
  <2>5. ASSUME m = l, k > i + 1 PROVE At(t, m, k) = At(q, m, k - 1)
    <3>1. CASE k = Len(t[l]) + 1
      <4>1. k # 0 /\ k - 1 # 0 /\ k - 1 = Len(q[l]) + 1
        BY <1>1, <1>2, <2>5, <3>1
      <4>2. QED
        BY <2>5, <3>1, <4>1 DEF At
    <3>2. CASE k # Len(t[l]) + 1
      <4>1. k \in 1 .. Len(q[l]) + 1 /\ ~ k <= i /\ k # i + 1
        <5>1. k <= Len(t[l]) + 1 /\ Len(t[l]) = Len(q[l]) + 1
          BY <1>2, <1>6, <2>5
        <5>2. QED
          BY <1>1, <2>5, <3>2, <5>1
      <4>2. k # 0 /\ k - 1 # 0 /\ k - 1 # Len(q[l]) + 1
        BY <1>1, <2>5, <4>1
      <4>3. t[l][k] = q[l][k - 1]
        BY <1>2, <4>1
      <4>4. QED
        BY <2>5, <3>2, <4>2, <4>3 DEF At
    <3>3. QED
      BY <3>1, <3>2
  <2>6. k = 0 \/ k \in 1 .. i \/ k = i + 1 \/ k > i + 1
    OBVIOUS
  <2>7. (k = 0 \/ k \in 1 .. i) <=> k <= i
    OBVIOUS
  <2>8. k > i + 1 => ~ k <= i /\ k # i + 1
    OBVIOUS
  <2>9. k = i + 1 => ~ k <= i
    OBVIOUS
  <2>10. QED
    BY <2>1, <2>2, <2>3, <2>4, <2>5, <2>6, <2>7, <2>8, <2>9, Zenon
<1>7. Apart(t)
  <2>1. \A m \in List : \A k \in 1 .. Len(q[m]) : q[m][k] \in Node /\ q[m][k] # node
    <3> SUFFICES ASSUME NEW m \in List, NEW k \in 1 .. Len(q[m])
                 PROVE  q[m][k] \in Node /\ q[m][k] # node
      OBVIOUS
    <3>1. At(q, m, k) = q[m][k] /\ q[m][k] \in Node /\ k \in Nat /\ k <= Len(q[m])
      BY <1>1, Places
    <3>2. next[At(q, m, k)] = At(q, m, k + 1) /\ At(q, m, k + 1) \in Cell
      <4>1. k + 1 \in Nat /\ k + 1 <= Len(q[m]) + 1
        BY <1>1, <3>1
      <4>2. QED
        BY <3>1, <4>1, Places
    <3>3. QED
      BY <3>1, <3>2, NullIsNoCell DEF Unlinked, Linked
  <2>2. \A j, k \in 1 .. Len(q[l]) : q[l][j] = q[l][k] => j = k
    BY DEF Holds, Apart
  <2>3. \A m, n \in List : \A j \in 1 .. Len(q[m]), k \in 1 .. Len(q[n]) : q[m][j] = q[n][k] => m = n
    BY DEF Holds, Apart
  <2> DEFINE old(j) == IF j <= i THEN j ELSE j - 1
  <2>4. ASSUME NEW j \in 1 .. Len(q[l]) + 1
        PROVE  \/ j = i + 1 /\ t[l][j] = node
               \/ j # i + 1 /\ old(j) \in 1 .. Len(q[l]) /\ t[l][j] = q[l][old(j)]
    <3>1. CASE j <= i
      BY <1>1, <1>2, <3>1
    <3>2. CASE j = i + 1
      BY <1>1, <1>2, <3>2
    <3>3. CASE j > i + 1
      <4>1. ~ j <= i /\ j # i + 1 /\ j - 1 \in 1 .. Len(q[l])
        BY <1>1, <3>3
      <4>2. QED
        BY <1>2, <4>1
    <3>4. j <= i \/ j = i + 1 \/ j > i + 1
      BY <1>1
    <3>5. QED
      BY <3>1, <3>2, <3>3, <3>4
  <2>5. \A j, k \in 1 .. Len(q[l]) + 1 : j # i + 1 /\ k # i + 1 /\ old(j) = old(k) => j = k
    BY <1>1
  <2> HIDE DEF old
  <2>6. ASSUME NEW m \in List, NEW n \in List, NEW j \in 1 .. Len(t[m]), NEW k \in 1 .. Len(t[n]),
               t[m][j] = t[n][k]
        PROVE  m = n /\ j = k
    <3>1. m = l => j \in 1 .. Len(q[l]) + 1
      BY <1>2
    <3>2. n = l => k \in 1 .. Len(q[l]) + 1
      BY <1>2
    <3>3. CASE m = l /\ n = l
      BY <2>1, <2>2, <2>4, <2>5, <2>6, <3>1, <3>2, <3>3
    <3>4. CASE m = l /\ n # l
      <4>1. k \in 1 .. Len(q[n]) /\ t[n][k] = q[n][k] /\ q[n][k] # node
        BY <1>3, <2>1, <3>4
      <4>2. old(j) \in 1 .. Len(q[l]) /\ t[l][j] = q[l][old(j)]
        BY <2>4, <2>6, <3>1, <3>4, <4>1
      <4>3. QED
        BY <2>3, <2>6, <3>4, <4>1, <4>2
    <3>5. CASE m # l /\ n = l
      <4>1. j \in 1 .. Len(q[m]) /\ t[m][j] = q[m][j] /\ q[m][j] # node
        BY <1>3, <2>1, <3>5
      <4>2. old(k) \in 1 .. Len(q[l]) /\ t[l][k] = q[l][old(k)]
        BY <2>4, <2>6, <3>2, <3>5, <4>1
      <4>3. QED
        BY <2>3, <2>6, <3>5, <4>1, <4>2
    <3>6. CASE m # l /\ n # l
      BY <1>3, <2>6, <3>6 DEF Holds, Apart
    <3>7. QED
      BY <3>3, <3>4, <3>5, <3>6
  <2>7. QED
    BY <2>6 DEF Apart
<1>8. QED
  BY <1>4, <1>5, <1>6, <1>7 DEF t

LEMMA DeletedPlaces ==
  ASSUME IInv, NEW q, Holds(q), NEW l \in List, NEW i \in 1 .. Len(q[l])
  PROVE  LET t == Deleted(q, l, i)
         IN  /\ t \in [List -> Seq(Node)] /\ Apart(t)
             /\ \A m \in List : Len(t[m]) = IF m = l THEN Len(q[m]) - 1 ELSE Len(q[m])
             /\ \A m \in List, k \in Nat : k <= Len(t[m]) + 1 =>
                  At(t, m, k) = IF m # l \/ k < i THEN At(q, m, k) ELSE At(q, m, k + 1)
<1> DEFINE t == Deleted(q, l, i)
<1>1. q \in [List -> Seq(Node)] /\ Len(q[l]) \in Nat /\ q[l] \in Seq(Node)
      /\ \A m \in List : Len(q[m]) \in Nat /\ q[m] \in Seq(Node)
  BY DEF Holds
<1>2. /\ t[l] \in Seq(Node) /\ Len(t[l]) = Len(q[l]) - 1
      /\ \A k \in 1 .. Len(q[l]) - 1 : t[l][k] = IF k < i THEN q[l][k] ELSE q[l][k + 1]
  <2>1. t[l] = Nodes!RemoveAt(q[l], i)
    BY <1>1 DEF Deleted
  <2>2. QED
    BY <1>1, <2>1, RemoveAtElements
<1>3. \A m \in List : m # l => t[m] = q[m]
  BY <1>1 DEF Deleted
<1>4. t \in [List -> Seq(Node)]
  <2>1. Nodes!RemoveAt(q[l], i) \in Seq(Node)
    BY <1>1, RemoveAtElements
  <2>2. QED
    BY <1>1, <2>1 DEF Deleted
<1> HIDE DEF t
<1>5. \A m \in List : Len(t[m]) = IF m = l THEN Len(q[m]) - 1 ELSE Len(q[m])
  BY <1>2, <1>3
<1>6. ASSUME NEW m \in List, NEW k \in Nat, k <= Len(t[m]) + 1
      PROVE  At(t, m, k) = IF m # l \/ k < i THEN At(q, m, k) ELSE At(q, m, k + 1)
  <2>1. CASE m # l
    BY <1>3, <2>1 DEF At
  <2>2. ASSUME m = l, k = 0 PROVE At(t, m, k) = At(q, m, k)
    BY <2>2 DEF At
  <2>3. ASSUME m = l, k # 0, k < i PROVE At(t, m, k) = At(q, m, k)
    <3>1. k \in 1 .. Len(q[l]) - 1
      BY <1>1, <2>3
    <3>2. k # Len(t[l]) + 1 /\ k # Len(q[l]) + 1
      BY <1>1, <1>2, <3>1
    <3>3. t[l][k] = q[l][k]
      BY <1>2, <2>3, <3>1
    <3>4. QED
      BY <2>3, <3>2, <3>3 DEF At
  <2>4. ASSUME m = l, k >= i PROVE At(t, m, k) = At(q, m, k + 1)
    <3>1. CASE k = Len(t[l]) + 1
      <4>1. k # 0 /\ k + 1 # 0 /\ k + 1 = Len(q[l]) + 1
        BY <1>1, <1>2, <2>4, <3>1
      <4>2. QED
        BY <2>4, <3>1, <4>1 DEF At
    <3>2. CASE k # Len(t[l]) + 1
      <4>1. k # 0 /\ k + 1 # 0 /\ k + 1 # Len(q[l]) + 1 /\ t[l][k] = q[l][k + 1]
        BY <1>1, <1>2, <1>6, <2>4, <3>2
      <4>2. QED
        BY <2>4, <3>2, <4>1 DEF At
    <3>3. QED
      BY <3>1, <3>2
  <2>5. k < i \/ k >= i
    BY <1>1
  <2>6. k = 0 => k < i
    BY <1>1
  <2>7. k >= i => ~ k < i
    BY <1>1
  <2>8. QED
    BY <2>1, <2>2, <2>3, <2>4, <2>5, <2>6, <2>7, Zenon
<1>7. Apart(t)
  <2>1. \A m, n \in List : \A j \in 1 .. Len(q[m]), k \in 1 .. Len(q[n]) :
          q[m][j] = q[n][k] => m = n /\ j = k
    BY DEF Holds, Apart
  <2> DEFINE old(j) == IF j < i THEN j ELSE j + 1
  <2>2. ASSUME NEW j \in 1 .. Len(t[l]) PROVE old(j) \in 1 .. Len(q[l]) /\ t[l][j] = q[l][old(j)]
    BY <1>1, <1>2
  <2>3. \A j, k \in 1 .. Len(t[l]) : old(j) = old(k) => j = k
    BY <1>1, <1>2
  <2> HIDE DEF old
  <2>4. ASSUME NEW m \in List, NEW n \in List, NEW j \in 1 .. Len(t[m]), NEW k \in 1 .. Len(t[n]),
               t[m][j] = t[n][k]
        PROVE  m = n /\ j = k
    <3>1. CASE m = l /\ n = l
      BY <2>1, <2>2, <2>3, <2>4, <3>1
    <3>2. CASE m = l /\ n # l
      BY <1>3, <2>1, <2>2, <2>4, <3>2
    <3>3. CASE m # l /\ n = l
      BY <1>3, <2>1, <2>2, <2>4, <3>3
    <3>4. CASE m # l /\ n # l
      BY <1>3, <2>1, <2>4, <3>4
    <3>5. QED
      BY <3>1, <3>2, <3>3, <3>4
  <2>5. QED
    BY <2>4 DEF Apart
<1>8. QED
  BY <1>4, <1>5, <1>6, <1>7 DEF t

LEMMA UnlinkedIsInNone ==
  ASSUME IInv, NEW q, Holds(q), NEW node \in Node, Unlinked(node)
  PROVE  \A m \in List : \A k \in 1 .. Len(q[m]) : q[m][k] # node
<1> SUFFICES ASSUME NEW m \in List, NEW k \in 1 .. Len(q[m]) PROVE q[m][k] # node
  OBVIOUS
<1>1. Len(q[m]) \in Nat
  BY Places
<1>2. At(q, m, k) = q[m][k] /\ k \in Nat /\ k <= Len(q[m])
  BY <1>1, Places
<1>3. next[At(q, m, k)] = At(q, m, k + 1) /\ At(q, m, k + 1) \in Cell
  <2>1. k + 1 \in Nat /\ k + 1 <= Len(q[m]) + 1
    BY <1>1, <1>2
  <2>2. QED
    BY <1>2, <2>1, Places
<1>4. QED
  BY <1>2, <1>3, NullIsNoCell DEF Unlinked, Linked

\* an unlinked node comes between two neighbours
LEMMA InsertHolds ==
  ASSUME IInv, NEW q, Holds(q), NEW l \in List, NEW i \in Nat, i <= Len(q[l]), NEW node \in Node,
         Unlinked(node),
         next' = [next EXCEPT ![node] = At(q, l, i + 1), ![At(q, l, i)] = node],
         prev' = [prev EXCEPT ![node] = At(q, l, i), ![At(q, l, i + 1)] = node]
  PROVE  Holds(Inserted(q, l, i + 1, node))'
<1> DEFINE t == Inserted(q, l, i + 1, node)
           a == At(q, l, i)
           b == At(q, l, i + 1)
<1>1. /\ t \in [List -> Seq(Node)] /\ Apart(t)
      /\ \A m \in List : Len(t[m]) = IF m = l THEN Len(q[m]) + 1 ELSE Len(q[m])
      /\ \A m \in List, k \in Nat : k <= Len(t[m]) + 1 =>
           At(t, m, k) = IF m # l \/ k <= i THEN At(q, m, k)
                         ELSE IF k = i + 1 THEN node ELSE At(q, m, k - 1)
  BY InsertedPlaces
<1>2. \A m \in List : Len(q[m]) \in Nat
  BY Places
<1>3. a \in Cell /\ b \in Cell /\ a # node /\ b # node /\ node \in Cell
  <2>1. i <= Len(q[l]) + 1 /\ i + 1 \in Nat /\ i + 1 <= Len(q[l]) + 1
    BY <1>2
  <2>2. a \in Cell /\ b \in Cell /\ next[a] = b /\ prev[b] = a
    BY <2>1, Places
  <2>3. QED
    BY <2>2, NullIsNoCell DEF Unlinked, Linked
<1> HIDE DEF t, a, b
<1>4. /\ next'[node] = b /\ next'[a] = node
      /\ \A c \in Cell : c # node /\ c # a => next'[c] = next[c]
      /\ prev'[node] = a /\ prev'[b] = node
      /\ \A c \in Cell : c # node /\ c # b => prev'[c] = prev[c]
  BY <1>3 DEF IInv, TypeOK, a, b
<1>5. \A m \in List, k \in Nat : k <= Len(q[m]) =>
        At(q, m, k) \in Cell /\ At(q, m, k) # node /\ next[At(q, m, k)] = At(q, m, k + 1)
  <2> SUFFICES ASSUME NEW m \in List, NEW k \in Nat, k <= Len(q[m])
               PROVE  At(q, m, k) \in Cell /\ At(q, m, k) # node /\ next[At(q, m, k)] = At(q, m, k + 1)
    OBVIOUS
  <2>1. k <= Len(q[m]) + 1 /\ k + 1 \in Nat /\ k + 1 <= Len(q[m]) + 1
    BY <1>2
  <2>2. At(q, m, k) \in Cell /\ At(q, m, k + 1) \in Cell /\ next[At(q, m, k)] = At(q, m, k + 1)
    BY <2>1, Places
  <2>3. QED
    BY <2>2, NullIsNoCell DEF Unlinked, Linked
<1>6. \A m \in List, k \in Nat : k <= Len(q[m]) /\ (m # l \/ k # i) => At(q, m, k) # a
  <2> SUFFICES ASSUME NEW m \in List, NEW k \in Nat, k <= Len(q[m]), m # l \/ k # i
               PROVE  At(q, m, k) # a
    OBVIOUS
  <2>1. k <= Len(q[m]) + 1 /\ i <= Len(q[l]) + 1
    BY <1>2
  <2>2. QED
    BY <2>1, Places DEF a
<1>7. \A m \in List, k \in Nat : k <= Len(q[m]) /\ (m # l \/ k # i) =>
         next'[At(q, m, k)] = At(q, m, k + 1)
  BY <1>4, <1>5, <1>6
<1>8. ASSUME NEW m \in List, NEW k \in Nat, k <= Len(t[m])
      PROVE  next'[At(t, m, k)] = At(t, m, k + 1)
  <2>1. /\ At(t, m, k) = IF m # l \/ k <= i THEN At(q, m, k)
                         ELSE IF k = i + 1 THEN node ELSE At(q, m, k - 1)
        /\ At(t, m, k + 1) = IF m # l \/ k + 1 <= i THEN At(q, m, k + 1)
                             ELSE IF k + 1 = i + 1 THEN node ELSE At(q, m, k + 1 - 1)
    <3>1. k + 1 \in Nat /\ k <= Len(t[m]) + 1 /\ k + 1 <= Len(t[m]) + 1
      BY <1>1, <1>2, <1>8
    <3>2. QED
      BY <1>1, <3>1
  <2>2. CASE m # l
    <3>1. k <= Len(q[m])
      BY <1>1, <1>8, <2>2
    <3>2. QED
      BY <1>7, <2>1, <2>2, <3>1
  <2>3. CASE m = l /\ k < i
    <3>1. k <= Len(q[m]) /\ k <= i /\ k + 1 <= i /\ k # i
      BY <1>2, <2>3
    <3>2. QED
      BY <1>7, <2>1, <2>3, <3>1
  <2>4. CASE m = l /\ k = i
    <3>1. k <= i /\ ~ k + 1 <= i /\ k + 1 = i + 1
      BY <2>4
    <3>2. At(t, m, k) = a /\ At(t, m, k + 1) = node
      BY <2>1, <2>4, <3>1 DEF a
    <3>3. QED
      BY <1>4, <3>2
  <2>5. CASE m = l /\ k = i + 1
    <3>1. ~ k <= i /\ ~ k + 1 <= i /\ k + 1 # i + 1 /\ k + 1 - 1 = i + 1
      BY <2>5
    <3>2. At(t, m, k) = node /\ At(t, m, k + 1) = b
      BY <2>1, <2>5, <3>1 DEF b
    <3>3. QED
      BY <1>4, <3>2
  <2>6. CASE m = l /\ k > i + 1
    <3>1. PICK j \in Nat : j = k - 1
      BY <2>6
    <3>2. /\ ~ k <= i /\ k # i + 1 /\ ~ k + 1 <= i /\ k + 1 # i + 1 /\ k + 1 - 1 = j + 1
          /\ j <= Len(q[m]) /\ j # i
      BY <1>1, <1>2, <1>8, <2>6, <3>1
    <3>3. At(t, m, k) = At(q, m, j) /\ At(t, m, k + 1) = At(q, m, j + 1)
      BY <2>1, <2>6, <3>1, <3>2
    <3>4. QED
      BY <1>7, <3>2, <3>3
  <2>7. m # l \/ k < i \/ k = i \/ k = i + 1 \/ k > i + 1
    OBVIOUS
  <2>8. QED
    BY <2>2, <2>3, <2>4, <2>5, <2>6, <2>7
<1>9. ASSUME NEW m \in List, NEW k \in 1 .. Len(q[m])
      PROVE  \E j \in 1 .. Len(t[m]) : t[m][j] = q[m][k]
  <2>1. PICK j \in Nat : j = (IF m # l \/ k <= i THEN k ELSE k + 1)
    OBVIOUS
  <2>2. j \in 1 .. Len(t[m]) /\ k \in Nat /\ k <= Len(q[m]) + 1
    BY <1>1, <1>2, <2>1
  <2>3. At(t, m, j) = At(q, m, k)
    <3>1. j <= Len(t[m]) + 1
      BY <1>1, <1>2, <2>2
    <3>2. (m # l \/ j <= i) => j = k
      BY <2>1
    <3>3. ~ (m # l \/ j <= i) => j # i + 1 /\ j - 1 = k
      BY <2>1
    <3>4. At(t, m, j) = IF m # l \/ j <= i THEN At(q, m, j)
                        ELSE IF j = i + 1 THEN node ELSE At(q, m, j - 1)
      BY <1>1, <3>1
    <3>5. QED
      BY <3>2, <3>3, <3>4
  <2>4. At(q, m, k) = q[m][k]
    BY <2>2, Places
  <2>5. At(t, m, j) = t[m][j]
    <3>1. Len(t[m]) \in Nat
      BY <1>1, <1>2
    <3>2. j # 0 /\ j # Len(t[m]) + 1
      BY <2>2, <3>1
    <3>3. QED
      BY <3>2 DEF At
  <2>6. QED
    BY <2>2, <2>3, <2>4, <2>5
<1>10. \E j \in 1 .. Len(t[l]) : t[l][j] = node
  <2>1. PICK j \in Nat : j = i + 1
    OBVIOUS
  <2>2. j \in 1 .. Len(t[l]) /\ j <= Len(t[l]) + 1 /\ j # 0 /\ j # Len(t[l]) + 1 /\ ~ j <= i
    BY <1>1, <1>2, <2>1
  <2>3. At(t, l, j) = node
    BY <1>1, <2>1, <2>2
  <2>4. QED
    BY <2>2, <2>3 DEF At
<1>11. ASSUME NEW n \in Node, Linked(n)' PROVE \E m \in List : \E j \in 1 .. Len(t[m]) : t[m][j] = n
  <2>1. CASE n = node
    BY <1>10, <2>1
  <2>2. CASE n # node
    <3>1. n \in Cell /\ (Linked(n) \/ n = a \/ n = b)
      BY <1>4, <1>11, <2>2, NullIsNoCell DEF Linked
    <3>2. ASSUME n = a \/ n = b PROVE Linked(n)
      <4>1. next[a] = b /\ prev[b] = a
        <5>1. i <= Len(q[l])
          OBVIOUS
        <5>2. QED
          BY <5>1, Places DEF a, b
      <4>2. QED
        BY <1>3, <3>2, <4>1, NullIsNoCell DEF Linked
    <3>3. PICK m \in List : \E k \in 1 .. Len(q[m]) : q[m][k] = n
      BY <3>1, <3>2 DEF Holds
    <3>4. QED
      BY <1>9, <3>3
  <2>3. QED
    BY <2>1, <2>2
<1>12. Holds(t)'
  BY <1>1, <1>8, <1>11 DEF Holds, Apart, At
<1>13. QED
  BY <1>12 DEF t

\* a node of a list leaves it: its neighbours become neighbours
LEMMA RemoveHolds ==
  ASSUME IInv, NEW q, Holds(q), NEW l \in List, NEW i \in 1 .. Len(q[l]), NEW node \in Node,
         node = q[l][i], list_remove(node)
  PROVE  Holds(Deleted(q, l, i))'
<1> DEFINE t == Deleted(q, l, i)
           a == At(q, l, i - 1)
           b == At(q, l, i + 1)
<1>1. /\ t \in [List -> Seq(Node)] /\ Apart(t)
      /\ \A m \in List : Len(t[m]) = IF m = l THEN Len(q[m]) - 1 ELSE Len(q[m])
      /\ \A m \in List, k \in Nat : k <= Len(t[m]) + 1 =>
           At(t, m, k) = IF m # l \/ k < i THEN At(q, m, k) ELSE At(q, m, k + 1)
  BY DeletedPlaces
<1>2. \A m \in List : Len(q[m]) \in Nat
  BY Places
<1>3. /\ a \in Cell /\ b \in Cell /\ a # node /\ b # node /\ node \in Cell
      /\ prev[node] = a /\ next[node] = b /\ At(q, l, i) = node
  <2>1. PICK j \in Nat : j = i - 1
    OBVIOUS
  <2>2. /\ j + 1 = i /\ i \in Nat /\ i <= Len(q[l]) /\ i <= Len(q[l]) + 1 /\ j <= Len(q[l])
        /\ j <= Len(q[l]) + 1 /\ i + 1 \in Nat /\ i + 1 <= Len(q[l]) + 1 /\ j # i /\ i + 1 # i
    BY <1>2, <2>1
  <2>3. At(q, l, i) = node
    BY <2>2, Places
  <2>4. a \in Cell /\ b \in Cell /\ node \in Cell
    BY <2>1, <2>2, <2>3, Places
  <2>5. prev[node] = a /\ next[node] = b
    BY <2>1, <2>2, <2>3, Places
  <2>6. a # node /\ b # node
    BY <2>1, <2>2, <2>3, Places
  <2>7. QED
    BY <2>3, <2>4, <2>5, <2>6
<1> HIDE DEF t, a, b
<1>4. /\ next'[node] = NULL /\ prev'[node] = NULL /\ next'[a] = b
      /\ \A c \in Cell : c # node /\ c # a => next'[c] = next[c]
      /\ \A c \in Cell : c # node /\ c # b => prev'[c] = prev[c]
  BY <1>3 DEF IInv, TypeOK, list_remove
<1>5. \A m \in List, k \in Nat : k <= Len(q[m]) /\ (m # l \/ (k # i /\ k # i - 1)) =>
        next'[At(q, m, k)] = At(q, m, k + 1)
  <2> SUFFICES ASSUME NEW m \in List, NEW k \in Nat, k <= Len(q[m]), m # l \/ (k # i /\ k # i - 1)
               PROVE  next'[At(q, m, k)] = At(q, m, k + 1)
    OBVIOUS
  <2>1. PICK j \in Nat : j = i - 1
    OBVIOUS
  <2>2. /\ k <= Len(q[m]) + 1 /\ i \in Nat /\ i <= Len(q[l]) + 1 /\ j <= Len(q[l]) + 1
        /\ (m # l \/ (k # i /\ k # j))
    BY <1>2, <2>1
  <2>3. At(q, m, k) \in Cell /\ next[At(q, m, k)] = At(q, m, k + 1)
    BY <2>2, Places
  <2>4. At(q, m, k) # node
    BY <1>3, <2>2, Places
  <2>5. At(q, m, k) # a
    BY <2>1, <2>2, Places DEF a
  <2>6. QED
    BY <1>4, <2>3, <2>4, <2>5
<1>6. ASSUME NEW m \in List, NEW k \in Nat, k <= Len(t[m])
      PROVE  next'[At(t, m, k)] = At(t, m, k + 1)
  <2>1. /\ At(t, m, k) = IF m # l \/ k < i THEN At(q, m, k) ELSE At(q, m, k + 1)
        /\ At(t, m, k + 1) = IF m # l \/ k + 1 < i THEN At(q, m, k + 1) ELSE At(q, m, k + 1 + 1)
    <3>1. k + 1 \in Nat /\ k <= Len(t[m]) + 1 /\ k + 1 <= Len(t[m]) + 1
      BY <1>1, <1>2, <1>6
    <3>2. QED
      BY <1>1, <3>1
  <2>2. CASE m # l
    <3>1. k <= Len(q[m])
      BY <1>1, <1>6, <2>2
    <3>2. At(t, m, k) = At(q, m, k) /\ At(t, m, k + 1) = At(q, m, k + 1)
      BY <2>1, <2>2
    <3>3. m # l \/ (k # i /\ k # i - 1)
      BY <2>2
    <3>4. next'[At(q, m, k)] = At(q, m, k + 1)
      BY <1>5, <3>1, <3>3, Zenon
    <3>5. QED
      BY <3>2, <3>4
  <2>3. CASE m = l /\ k + 1 < i
    <3>1. k < i /\ k # i /\ k # i - 1 /\ k <= Len(q[m])
      BY <1>2, <2>3
    <3>2. QED
      BY <1>5, <2>1, <2>3, <3>1
  <2>4. CASE m = l /\ k + 1 = i
    <3>1. k < i /\ ~ k + 1 < i /\ k = i - 1 /\ k + 1 + 1 = i + 1
      BY <2>4
    <3>2. At(t, m, k) = a /\ At(t, m, k + 1) = b
      BY <2>1, <2>4, <3>1 DEF a, b
    <3>3. QED
      BY <1>4, <3>2
  <2>5. CASE m = l /\ k >= i
    <3>1. PICK j \in Nat : j = k + 1
      OBVIOUS
    <3>2. ~ k < i /\ ~ k + 1 < i /\ j <= Len(q[m]) /\ j # i /\ j # i - 1
      BY <1>1, <1>2, <1>6, <2>5, <3>1
    <3>3. At(t, m, k) = At(q, m, j) /\ At(t, m, k + 1) = At(q, m, j + 1)
      BY <2>1, <2>5, <3>1, <3>2
    <3>4. QED
      BY <1>5, <3>2, <3>3
  <2>6. m # l \/ k + 1 < i \/ k + 1 = i \/ k >= i
    OBVIOUS
  <2>7. QED
    BY <2>2, <2>3, <2>4, <2>5, <2>6
<1>7. ASSUME NEW m \in List, NEW k \in 1 .. Len(q[m]), m # l \/ k # i
      PROVE  \E j \in 1 .. Len(t[m]) : t[m][j] = q[m][k]
  <2>1. PICK j \in Nat : j = (IF m # l \/ k < i THEN k ELSE k - 1)
    OBVIOUS
  <2>2. j \in 1 .. Len(t[m]) /\ k \in Nat /\ k <= Len(q[m]) + 1
    BY <1>1, <1>2, <1>7, <2>1
  <2>3. At(t, m, j) = At(q, m, k)
    <3>1. j <= Len(t[m]) + 1
      BY <1>1, <1>2, <2>2
    <3>2. (m # l \/ j < i) => j = k
      BY <1>7, <2>1
    <3>3. ~ (m # l \/ j < i) => j + 1 = k
      BY <1>7, <2>1
    <3>4. At(t, m, j) = IF m # l \/ j < i THEN At(q, m, j) ELSE At(q, m, j + 1)
      BY <1>1, <3>1
    <3>5. QED
      BY <3>2, <3>3, <3>4
  <2>4. At(q, m, k) = q[m][k]
    BY <2>2, Places
  <2>5. At(t, m, j) = t[m][j]
    <3>1. Len(t[m]) \in Nat
      BY <1>1, <1>2
    <3>2. j # 0 /\ j # Len(t[m]) + 1
      BY <2>2, <3>1
    <3>3. QED
      BY <3>2 DEF At
  <2>6. QED
    BY <2>2, <2>3, <2>4, <2>5
<1>8. ASSUME NEW n \in Node, Linked(n)' PROVE \E m \in List : \E j \in 1 .. Len(t[m]) : t[m][j] = n
  <2>1. n # node /\ n \in Cell
    BY <1>4, <1>8, NullIsNoCell DEF Linked
  <2>2. Linked(n)
    <3>1. n = a => Linked(n)
      BY <1>3, NullIsNoCell, <2>1 DEF IInv, TypeOK, LinksAreTwoWay, Linked
    <3>2. n = b => Linked(n)
      BY <1>3, NullIsNoCell, <2>1 DEF IInv, TypeOK, LinksAreTwoWay, Linked
    <3>3. QED
      BY <1>4, <1>8, <2>1, <3>1, <3>2 DEF Linked
  <2>3. PICK m \in List : \E k \in 1 .. Len(q[m]) : q[m][k] = n
    BY <2>2 DEF Holds
  <2>4. PICK k \in 1 .. Len(q[m]) : q[m][k] = n
    BY <2>3
  <2>5. m # l \/ k # i
    BY <2>1, <2>4
  <2>6. QED
    BY <1>7, <2>4, <2>5
<1>9. Holds(t)'
  BY <1>1, <1>6, <1>8 DEF Holds, Apart, At
<1>10. QED
  BY <1>9 DEF t
-----------------------------------------------------------------------------
(* The loop of list_size visits the nodes of the sequence.                   *)

LEMMA Induction ==
  ASSUME NEW S, 0 \in S, \A n \in Nat : n \in S => n + 1 \in S
  PROVE  \A n \in Nat : n \in S
<1> DEFINE less == {ss \in Nat \X Nat : ss[1] < ss[2]}
<1>1. IsWellFoundedOn(less, Nat)
  BY NatLessThanWellFounded DEF OpToRel
<1>2. \A m, n \in Nat : m < n => <<m, n>> \in less
  OBVIOUS
<1> HIDE DEF less
<1>3. ASSUME Nat \ S # {} PROVE FALSE
  <2>1. PICK n \in Nat \ S : \A m \in Nat \ S : <<m, n>> \notin less
    BY <1>1, <1>3, WFMin
  <2>2. n # 0 /\ n \in Nat
    BY <2>1
  <2>3. n - 1 \in Nat /\ n - 1 < n /\ n - 1 + 1 = n
    BY <2>2
  <2>4. n - 1 \in Nat \ S
    BY <2>1, <2>3
  <2>5. QED
    BY <1>2, <2>1, <2>2, <2>3, <2>4
<1>4. QED
  BY <1>3

\* no list has more nodes than there are cells
LEMMA ListsAreShort ==
  ASSUME IInv, NEW q, Holds(q), NEW l \in List
  PROVE  Cardinality(Cell) \in Nat /\ Len(q[l]) <= Cardinality(Cell)
<1>1. q[l] \in Seq(Node) /\ Len(q[l]) \in Nat
  BY Places
<1>2. q[l] \in [1 .. Len(q[l]) -> Node]
  BY <1>1, LenProperties
<1>3. q[l] \in [1 .. Len(q[l]) -> Cell]
  BY <1>2, NullIsNoCell
<1>4. \A i, j \in 1 .. Len(q[l]) : q[l][i] = q[l][j] => i = j
  BY DEF Holds, Apart
<1>5. q[l] \in Injection(1 .. Len(q[l]), Cell)
  BY <1>3, <1>4 DEF Injection, IsInjective
<1>6. Cardinality(1 .. Len(q[l])) <= Cardinality(Cell)
  BY <1>5, ListAssumption, FS_Injection
<1>7. Cardinality(1 .. Len(q[l])) = Len(q[l])
  BY <1>1, FS_Interval
<1>8. QED
  BY <1>6, <1>7, ListAssumption, FS_CardinalityType

LEMMA VisitsPlaces ==
  ASSUME IInv, NEW q, Holds(q), NEW l \in List
  PROVE  \A i \in Nat : i <= Len(q[l]) => Visits(l)[i] = At(q, l, i + 1)
<1> DEFINE N == Cardinality(Cell)
           step(f, i) == IF i = 0 THEN next[head(l)] ELSE IF f[i - 1] = NULL THEN NULL ELSE next[f[i - 1]]
           seen == [i \in 0 .. N |-> IF i <= Len(q[l]) THEN At(q, l, i + 1) ELSE NULL]
<1>1. N \in Nat /\ Len(q[l]) \in Nat /\ Len(q[l]) <= N
  BY ListsAreShort, Places
<1>2. next[tail(l)] = NULL /\ At(q, l, Len(q[l]) + 1) = tail(l) /\ At(q, l, 0) = head(l)
  BY Places DEF IInv, LinksAreTwoWay
<1>3. Visits(l) = CHOOSE f : f = [i \in 0 .. N |-> step(f, i)]
  BY DEF Visits
<1> HIDE DEF N
<1>4. seen = [i \in 0 .. N |-> step(seen, i)]
  <2>1. ASSUME NEW i \in 0 .. N PROVE seen[i] = step(seen, i)
    <3>1. CASE i = 0
      <4>1. next[head(l)] = At(q, l, 0 + 1)
        BY <1>1, <1>2, Places
      <4>2. QED
        BY <1>1, <3>1, <4>1
    <3>2. CASE i \in 1 .. Len(q[l]) + 1
      <4>1. PICK j \in Nat : j = i - 1
        BY <3>2
      <4>2. i = j + 1 /\ j <= Len(q[l]) /\ j \in 0 .. N /\ i # 0
        BY <1>1, <3>2, <4>1
      <4>3. seen[j] = At(q, l, i) /\ At(q, l, i) # NULL
        <5>1. At(q, l, i) \in Cell
          BY <1>1, <3>2, Places
        <5>2. QED
          BY <4>2, <5>1, NullIsNoCell
      <4>4. step(seen, i) = next[At(q, l, i)]
        BY <4>1, <4>2, <4>3
      <4>5. CASE i <= Len(q[l])
        <5>1. next[At(q, l, i)] = At(q, l, i + 1)
          BY <3>2, <4>5, Places
        <5>2. QED
          BY <4>4, <4>5, <5>1
      <4>6. CASE i = Len(q[l]) + 1
        <5>1. ~ i <= Len(q[l])
          BY <1>1, <4>6
        <5>2. seen[i] = NULL
          BY <5>1
        <5>3. next[At(q, l, i)] = NULL
          BY <1>2, <4>6
        <5>4. QED
          BY <4>4, <5>2, <5>3, Zenon
      <4>7. QED
        BY <1>1, <3>2, <4>5, <4>6
    <3>3. CASE i > Len(q[l]) + 1
      <4>1. i - 1 \in 0 .. N /\ ~ i - 1 <= Len(q[l]) /\ ~ i <= Len(q[l]) /\ i # 0
        BY <1>1, <3>3
      <4>2. seen[i - 1] = NULL /\ seen[i] = NULL
        BY <4>1
      <4>3. QED
        BY <4>1, <4>2
    <3>4. QED
      BY <1>1, <3>1, <3>2, <3>3
  <2>2. QED
    BY <2>1, Zenon
<1>5. Visits(l) = [i \in 0 .. N |-> step(Visits(l), i)]
  <2> DEFINE fits(f) == f = [i \in 0 .. N |-> step(f, i)]
  <2>1. fits(seen)
    BY <1>4
  <2>2. Visits(l) = CHOOSE f : fits(f)
    BY <1>3
  <2> HIDE DEF fits
  <2>3. fits(Visits(l))
    BY <2>1, <2>2
  <2>4. QED
    BY <2>3 DEF fits
<1>6. \A i \in 0 .. N : Visits(l)[i] = step(Visits(l), i)
  BY <1>5
<1> DEFINE S == {i \in Nat : i <= Len(q[l]) => Visits(l)[i] = At(q, l, i + 1)}
<1>7. 0 \in S
  <2>1. Visits(l)[0] = next[head(l)] /\ next[head(l)] = At(q, l, 0 + 1)
    BY <1>1, <1>2, <1>6, Places
  <2>2. QED
    BY <2>1
<1>8. ASSUME NEW i \in Nat, i \in S PROVE i + 1 \in S
  <2> SUFFICES ASSUME i + 1 <= Len(q[l]) PROVE Visits(l)[i + 1] = At(q, l, i + 1 + 1)
    OBVIOUS
  <2>1. PICK j \in Nat : j = i + 1
    OBVIOUS
  <2>2. j - 1 = i /\ i <= Len(q[l]) /\ j \in 0 .. N /\ j # 0 /\ j <= Len(q[l]) + 1 /\ j <= Len(q[l])
    BY <1>1, <2>1
  <2>3. Visits(l)[i] = At(q, l, j)
    BY <1>8, <2>1, <2>2
  <2>4. At(q, l, j) # NULL /\ next[At(q, l, j)] = At(q, l, j + 1)
    BY <2>2, Places, NullIsNoCell
  <2>5. Visits(l)[j] = next[At(q, l, j)]
    BY <1>6, <2>2, <2>3, <2>4
  <2>6. QED
    BY <2>1, <2>4, <2>5
<1>9. \A i \in Nat : i \in S
  <2> HIDE DEF S
  <2>1. QED
    BY <1>7, <1>8, Induction
<1>10. QED
  BY <1>9

\* So what a list contains is the sequence.
LEMMA ContentsAreHeld ==
  ASSUME IInv, NEW q, Holds(q)
  PROVE  \A l \in List : Contents(l) = q[l]
<1> SUFFICES ASSUME NEW l \in List PROVE Contents(l) = q[l]
  OBVIOUS
<1> DEFINE N == Cardinality(Cell)
           ends(i) == /\ Visits(l)[i] = tail(l) \/ i = N
                      /\ \A j \in 0 .. i - 1 : Visits(l)[j] # tail(l)
<1>1. N \in Nat /\ Len(q[l]) \in Nat /\ Len(q[l]) <= N /\ q[l] \in Seq(Node)
  BY ListsAreShort, Places
<1>2. \A i \in Nat : i <= Len(q[l]) => Visits(l)[i] = At(q, l, i + 1)
  BY VisitsPlaces
<1>3. Visits(l)[Len(q[l])] = tail(l)
  BY <1>1, <1>2, Places
<1>4. \A j \in 0 .. Len(q[l]) - 1 : Visits(l)[j] = q[l][j + 1] /\ Visits(l)[j] # tail(l)
  <2> SUFFICES ASSUME NEW j \in 0 .. Len(q[l]) - 1
               PROVE  Visits(l)[j] = q[l][j + 1] /\ Visits(l)[j] # tail(l)
    OBVIOUS
  <2>1. j \in Nat /\ j <= Len(q[l]) /\ j + 1 \in Nat /\ j + 1 \in 1 .. Len(q[l])
    BY <1>1
  <2>2. Visits(l)[j] = At(q, l, j + 1)
    BY <1>2, <2>1
  <2>3. At(q, l, j + 1) = q[l][j + 1] /\ q[l][j + 1] \in Node
    BY <2>1, Places
  <2>4. QED
    BY <2>2, <2>3, Ends
<1> HIDE DEF N
<1>5. ends(Len(q[l]))
  BY <1>3, <1>4
<1>6. ASSUME NEW i \in 0 .. N, ends(i) PROVE i = Len(q[l])
  <2>1. CASE i < Len(q[l])
    <3>1. i \in 0 .. Len(q[l]) - 1 /\ i # N
      BY <1>1, <2>1
    <3>2. QED
      BY <1>4, <1>6, <3>1
  <2>2. CASE i > Len(q[l])
    <3>1. Len(q[l]) \in 0 .. i - 1
      BY <1>1, <2>2
    <3>2. QED
      BY <1>3, <1>6, <3>1
  <2>3. QED
    BY <1>1, <2>1, <2>2
<1>7. list_size(l) = CHOOSE i \in 0 .. N : ends(i)
  BY DEF list_size, N
<1> HIDE DEF ends
<1>8. list_size(l) = Len(q[l])
  <2>1. Len(q[l]) \in 0 .. N
    BY <1>1
  <2>2. QED
    BY <1>5, <1>6, <1>7, <2>1
<1>9. Contents(l) = [i \in 1 .. Len(q[l]) |-> Visits(l)[i - 1]]
  BY <1>8 DEF Contents
<1>10. ASSUME NEW i \in 1 .. Len(q[l]) PROVE Visits(l)[i - 1] = q[l][i]
  <2>1. i - 1 \in 0 .. Len(q[l]) - 1 /\ i - 1 + 1 = i
    BY <1>1
  <2>2. QED
    BY <1>4, <2>1
<1>11. q[l] = [i \in 1 .. Len(q[l]) |-> q[l][i]]
  BY <1>1, LenProperties
<1>12. QED
  BY <1>9, <1>10, <1>11

\* The sequences held, before and after a step.
QueueStep(q, t) ==
  \/ t = q
  \/ \E l \in List, i \in Nat, node \in Node :
       /\ i <= Len(q[l]) /\ t = Inserted(q, l, i + 1, node)
       /\ \A m \in List : \A k \in 1 .. Len(q[m]) : q[m][k] # node
  \/ \E l \in List : \E i \in 1 .. Len(q[l]) : t = Deleted(q, l, i)

LEMMA InsertBeforeStep ==
  ASSUME IInv, NEW q, Holds(q), NEW anchor \in Cell, NEW node \in Node, prev[anchor] # NULL,
         Unlinked(node), list_insert_before(anchor, node)
  PROVE  \E t : Holds(t)' /\ QueueStep(q, t)
<1>1. \E l \in List, i \in Nat : i <= Len(q[l]) /\ anchor = At(q, l, i + 1)
  <2>1. CASE anchor \in Tails
    BY <2>1, Ends, Places
  <2>2. CASE anchor \in Node
    <3>1. Linked(anchor)
      BY DEF Linked
    <3>2. PICK l \in List : \E i \in 1 .. Len(q[l]) : q[l][i] = anchor
      BY <2>2, <3>1 DEF Holds
    <3>3. PICK i \in 1 .. Len(q[l]) : q[l][i] = anchor
      BY <3>2
    <3>4. At(q, l, i) = anchor /\ Len(q[l]) \in Nat
      BY <3>3, Places
    <3>5. PICK j \in Nat : j + 1 = i /\ j <= Len(q[l])
      BY <3>4
    <3>6. QED
      BY <3>4, <3>5
  <2>3. CASE anchor \in Heads
    BY <2>3, Ends DEF IInv, LinksAreTwoWay
  <2>4. QED
    BY <2>1, <2>2, <2>3 DEF Cell
<1>2. PICK l \in List, i \in Nat : i <= Len(q[l]) /\ anchor = At(q, l, i + 1)
  BY <1>1
<1>3. prev[anchor] = At(q, l, i)
  BY <1>2, Places
<1>4. Holds(Inserted(q, l, i + 1, node))'
  BY <1>2, <1>3, InsertHolds DEF list_insert_before
<1>5. \A m \in List : \A k \in 1 .. Len(q[m]) : q[m][k] # node
  BY UnlinkedIsInNone
<1>6. QED
  BY <1>2, <1>4, <1>5 DEF QueueStep

LEMMA InsertAfterStep ==
  ASSUME IInv, NEW q, Holds(q), NEW anchor \in Cell, NEW node \in Node, next[anchor] # NULL,
         Unlinked(node), list_insert_after(anchor, node)
  PROVE  \E t : Holds(t)' /\ QueueStep(q, t)
<1>1. \E l \in List, i \in Nat : i <= Len(q[l]) /\ anchor = At(q, l, i)
  <2>1. CASE anchor \in Heads
    <3>1. PICK l \in List : anchor = head(l)
      BY <2>1, Ends
    <3>2. 0 <= Len(q[l]) /\ anchor = At(q, l, 0)
      BY <3>1, Places
    <3>3. QED
      BY <3>2
  <2>2. CASE anchor \in Node
    <3>1. Linked(anchor)
      BY DEF Linked
    <3>2. PICK l \in List : \E i \in 1 .. Len(q[l]) : q[l][i] = anchor
      BY <2>2, <3>1 DEF Holds
    <3>3. PICK i \in 1 .. Len(q[l]) : q[l][i] = anchor
      BY <3>2
    <3>4. At(q, l, i) = anchor /\ i \in Nat /\ i <= Len(q[l])
      BY <3>3, Places
    <3>5. QED
      BY <3>4
  <2>3. CASE anchor \in Tails
    BY <2>3, Ends DEF IInv, LinksAreTwoWay
  <2>4. QED
    BY <2>1, <2>2, <2>3 DEF Cell
<1>2. PICK l \in List, i \in Nat : i <= Len(q[l]) /\ anchor = At(q, l, i)
  BY <1>1
<1>3. next[anchor] = At(q, l, i + 1)
  BY <1>2, Places
<1>4. Holds(Inserted(q, l, i + 1, node))'
  BY <1>2, <1>3, InsertHolds DEF list_insert_after
<1>5. \A m \in List : \A k \in 1 .. Len(q[m]) : q[m][k] # node
  BY UnlinkedIsInNone
<1>6. QED
  BY <1>2, <1>4, <1>5 DEF QueueStep

LEMMA RemoveStep ==
  ASSUME IInv, NEW q, Holds(q), NEW node \in Cell, list_remove(node)
  PROVE  \E t : Holds(t)' /\ QueueStep(q, t)
<1>1. node \in Node /\ Linked(node)
  BY Ends DEF IInv, LinksAreTwoWay, list_remove, Linked, Cell
<1>2. PICK l \in List : \E i \in 1 .. Len(q[l]) : q[l][i] = node
  BY <1>1 DEF Holds
<1>3. PICK i \in 1 .. Len(q[l]) : q[l][i] = node
  BY <1>2
<1>4. Holds(Deleted(q, l, i))'
  BY <1>1, <1>3, RemoveHolds
<1>5. QED
  BY <1>3, <1>4 DEF QueueStep

LEMMA StepHolds ==
  ASSUME IInv, NEW q, Holds(q), [Next]_vars
  PROVE  \E t : Holds(t)' /\ QueueStep(q, t)
<1>1. \A l \in List : /\ head(l) \in Cell /\ tail(l) \in Cell
                      /\ next[head(l)] \in Cell /\ next[head(l)] # NULL
                      /\ prev[tail(l)] \in Cell /\ prev[tail(l)] # NULL
  BY Ends DEF IInv, TypeOK, LinksAreTwoWay
<1>2. CASE \E l \in List : list_pop(l) \/ list_popback(l)
  BY <1>1, <1>2, RemoveStep DEF list_pop, list_popback
<1>3. CASE \E l \in List, node \in Node : list_push(l, node) \/ list_pushback(l, node)
  <2>1. PICK l \in List, node \in Node : list_push(l, node) \/ list_pushback(l, node)
    BY <1>3
  <2>2. CASE list_push(l, node)
    BY <1>1, <2>2, InsertAfterStep DEF list_push
  <2>3. CASE list_pushback(l, node)
    BY <1>1, <2>3, InsertBeforeStep DEF list_pushback
  <2>4. QED
    BY <2>1, <2>2, <2>3
<1>4. CASE \E anchor \in Cell, node \in Node : InsertBefore(anchor, node) \/ InsertAfter(anchor, node)
  BY <1>4, InsertBeforeStep, InsertAfterStep DEF InsertBefore, InsertAfter
<1>5. CASE \E node \in Node : Linked(node) /\ list_remove(node)
  BY <1>5, RemoveStep DEF Cell
<1>6. CASE UNCHANGED vars
  BY <1>6 DEF vars, Holds, QueueStep, Linked
<1>7. QED
  BY <1>2, <1>3, <1>4, <1>5, <1>6 DEF Next

-----------------------------------------------------------------------------
(* The refinement.                                                           *)

QueueInv == IInv /\ \E q : Holds(q)

Lists == [l \in List |-> Contents(l)]

ListsAreWhatIsHeld == \A q : IInv /\ Holds(q) => Lists = q

LEMMA ListsAreHeld == ListsAreWhatIsHeld
BY ContentsAreHeld DEF ListsAreWhatIsHeld, Lists, Holds

LEMMA QueuesBegin == Init => QueueInv /\ Nodes!Init
<1> SUFFICES ASSUME Init PROVE QueueInv /\ Nodes!Init
  OBVIOUS
<1> DEFINE q == [l \in List |-> <<>>]
<1>1. IInv
  BY InitHolds
<1>2. \A l \in List : q[l] = <<>> /\ Len(q[l]) = 0
  OBVIOUS
<1>3. q \in [List -> Seq(Node)] /\ Apart(q)
  BY <1>2 DEF Apart
<1>4. ASSUME NEW l \in List, NEW i \in Nat, i <= Len(q[l]) PROVE next[At(q, l, i)] = At(q, l, i + 1)
  <2>1. At(q, l, 0) = head(l) /\ At(q, l, 0 + 1) = tail(l) /\ i = 0
    BY <1>2, <1>4 DEF At
  <2>2. head(l) \in Cell /\ head(l) \in Heads /\ head(l)[1] = l
    BY Ends
  <2>3. next[head(l)] = tail(l)
    BY <2>2 DEF Init
  <2>4. QED
    BY <2>1, <2>3
<1>5. \A n \in Node : ~ Linked(n)
  BY Ends DEF Init, Linked
<1>6. Holds(q)
  BY <1>3, <1>4, <1>5 DEF Holds
<1>7. Lists = q
  BY <1>1, <1>6, ListsAreHeld DEF ListsAreWhatIsHeld
<1>8. QED
  BY <1>1, <1>6, <1>7 DEF QueueInv, Lists, Nodes!Init

LEMMA QueuesStep ==
  ASSUME QueueInv, [Next]_vars
  PROVE  QueueInv' /\ [Nodes!Next]_Lists
<1>1. IInv /\ IInv'
  BY NextKeeps DEF QueueInv
<1>2. PICK q : Holds(q)
  BY DEF QueueInv
<1>3. PICK t : Holds(t)' /\ QueueStep(q, t)
  BY <1>1, <1>2, StepHolds
<1>4. Lists = q
  BY <1>1, <1>2, ListsAreHeld DEF ListsAreWhatIsHeld
<1>5. Lists' = t
  <2>1. ListsAreWhatIsHeld'
    BY ListsAreHeld, PTL
  <2>2. QED
    BY <1>1, <1>3, <2>1 DEF ListsAreWhatIsHeld
<1>6. QueueInv'
  BY <1>1, <1>3 DEF QueueInv
<1>7. q \in [List -> Seq(Node)]
  BY <1>2 DEF Holds
<1>8. CASE t = q
  BY <1>4, <1>5, <1>6, <1>8
<1>9. CASE \E l \in List, i \in Nat, node \in Node :
             /\ i <= Len(q[l]) /\ t = Inserted(q, l, i + 1, node)
             /\ \A m \in List : \A k \in 1 .. Len(q[m]) : q[m][k] # node
  <2>1. PICK l \in List, i \in Nat, node \in Node :
             /\ i <= Len(q[l]) /\ t = Inserted(q, l, i + 1, node)
             /\ \A m \in List : \A k \in 1 .. Len(q[m]) : q[m][k] # node
    BY <1>9
  <2>2. PICK j : j = i + 1
    OBVIOUS
  <2>3. j \in 1 .. Len(q[l]) + 1
    BY <1>7, <2>1, <2>2
  <2>4. t = [q EXCEPT ![l] = Nodes!InsertAt(q[l], j, node)]
    BY <2>1, <2>2 DEF Inserted
  <2>5. node \notin UNION {Nodes!Range(q[m]) : m \in List}
    <3>1. \A m \in List : DOMAIN q[m] = 1 .. Len(q[m])
      BY <1>7
    <3>2. QED
      BY <2>1, <3>1 DEF Nodes!Range
  <2>6. Nodes!Insert(l, j, node)
    BY <1>4, <1>5, <2>4, <2>5 DEF Lists, Nodes!Insert, Nodes!Listed
  <2>7. QED
    BY <1>4, <1>6, <2>3, <2>6 DEF Lists, Nodes!Next
<1>10. CASE \E l \in List : \E i \in 1 .. Len(q[l]) : t = Deleted(q, l, i)
  <2>1. PICK l \in List : \E i \in 1 .. Len(q[l]) : t = Deleted(q, l, i)
    BY <1>10
  <2>2. PICK i \in 1 .. Len(q[l]) : t = Deleted(q, l, i)
    BY <2>1
  <2>3. i \in DOMAIN q[l]
    BY <1>7
  <2>4. Nodes!Delete(l, i)
    BY <1>4, <1>5, <2>2 DEF Lists, Nodes!Delete, Deleted
  <2>5. QED
    BY <1>4, <1>6, <2>3, <2>4 DEF Lists, Nodes!Next
<1>11. QED
  BY <1>3, <1>8, <1>9, <1>10 DEF QueueStep

\* A loop over a list visits the nodes put into it, in order, each once, and a node is in one
\* list at most: the links of list.c implement sequences of nodes.
THEOREM ListsAreQueues == Spec => IsQueues
<1>1. Init => QueueInv /\ Nodes!Init
  BY QueuesBegin
<1>2. QueueInv /\ [Next]_vars => QueueInv' /\ [Nodes!Next]_Lists
  BY QueuesStep
<1>3. QED
  BY <1>1, <1>2, PTL DEF Spec, IsQueues, Nodes!Spec, Lists
=============================================================================
