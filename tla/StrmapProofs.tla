---------------------------- MODULE StrmapProofs ----------------------------
(***************************************************************************)
(* Proofs about the map of strmap.c, for any hashes, values and number of  *)
(* nodes.  First binary search trees made of nodes and links: what a       *)
(* search finds, and what putting in a node, cutting out a subtree and     *)
(* hanging one in do to a tree.  A tree is said to be one without a word   *)
(* about recursion: every link has its way from the top, and of two ways   *)
(* one goes on where the other ends, or they part.                         *)
(***************************************************************************)
EXTENDS Strmap, Induction, FiniteSetTheorems, SequenceTheorems

-----------------------------------------------------------------------------
(***************************************************************************)
(* Search trees.  N is a set of nodes below the link top, d[k] the node    *)
(* that the link k holds, or NULL, hs[n] the hash of the node n, and up[k] *)
(* the links on the way from top to k, both included.                      *)
(***************************************************************************)
Sides == {"l", "r"}
LinksOf(N, top) == {top} \cup {Side(n, s) : n \in N, s \in Sides}

(* A search for h takes the links U. *)
Meets(hs, top, h, U) ==
  \A j \in U \ {top} : h # hs[j.of] /\ (j.side = "l" <=> h < hs[j.of])

(* U and V part at a node. *)
Part(U, V) == \E a : \E s, t \in Sides : s # t /\ Side(a, s) \in U /\ Side(a, t) \in V

Ways(N, top, d, up) ==
  /\ NULL \notin N /\ top.of \notin N /\ top \notin {Side(n, s) : n \in N \cup {NULL}, s \in Sides}
  /\ up[top] = {top}
  /\ \A k \in LinksOf(N, top) : up[k] \subseteq LinksOf(N, top) /\ k \in up[k] /\ top \in up[k]
  /\ \A k \in LinksOf(N, top) : \A j \in up[k] :
       /\ up[j] \subseteq up[k]
       /\ j = k \/ \E s \in Sides : Side(d[j], s) \in up[k]
  /\ \A k, j \in LinksOf(N, top) : up[k] \subseteq up[j] \/ up[j] \subseteq up[k] \/ Part(up[k], up[j])

Holds(N, top, d, hs, up) ==
  /\ \A k \in LinksOf(N, top) : d[k] # NULL =>
       /\ d[k] \in N /\ Meets(hs, top, hs[d[k]], up[k])
       /\ \A s \in Sides : up[Side(d[k], s)] = up[k] \cup {Side(d[k], s)}
  /\ \A n \in N : hs[n] \in Nat /\ \E k \in LinksOf(N, top) : d[k] = n
  /\ \A k, j \in LinksOf(N, top) : d[k] = d[j] /\ d[k] # NULL => k = j

Tree(N, top, d, hs, up) == Ways(N, top, d, up) /\ Holds(N, top, d, hs, up)

LEMMA SideFacts ==
  /\ \A n, s : Side(n, s).of = n /\ Side(n, s).side = s
  /\ \A n, m, s, t : Side(n, s) = Side(m, t) => n = m /\ s = t
BY DEF Side

LEMMA LinkCases ==
  ASSUME NEW N, NEW top
  PROVE  /\ \A k \in LinksOf(N, top) : k = top \/ \E n \in N, s \in Sides : k = Side(n, s)
         /\ top \in LinksOf(N, top) /\ \A n \in N, s \in Sides : Side(n, s) \in LinksOf(N, top)
BY DEF LinksOf

(* A link on the way to another holds a node. *)
LEMMA Inner ==
  ASSUME NEW N, NEW top, NEW d, NEW hs, NEW up, Tree(N, top, d, hs, up),
         NEW k \in LinksOf(N, top), NEW j \in up[k]
  PROVE  /\ j \in LinksOf(N, top)
         /\ j # k => d[j] \in N /\ d[j] # NULL /\ \E s \in Sides : Side(d[j], s) \in up[k]
<1>1. up[k] \subseteq LinksOf(N, top) /\ NULL \notin N
      /\ (j = k \/ \E s \in Sides : Side(d[j], s) \in up[k])
  BY DEF Tree, Ways
<1>2. ASSUME j # k PROVE d[j] \in N /\ d[j] # NULL
  <2>1. PICK s \in Sides : Side(d[j], s) \in up[k]
    BY <1>1, <1>2
  <2>2. d[j] # NULL
    <3> SUFFICES ASSUME d[j] = NULL PROVE FALSE
      OBVIOUS
    <3>1. Side(NULL, s) \in LinksOf(N, top)
      BY <1>1, <2>1
    <3>2. Side(NULL, s) # top
      BY DEF Tree, Ways
    <3>3. PICK n \in N, t \in Sides : Side(NULL, s) = Side(n, t)
      BY <3>1, <3>2, LinkCases
    <3> QED BY <1>1, <3>3, SideFacts
  <2>3. j \in LinksOf(N, top)
    BY <1>1
  <2> QED BY <2>2, <2>3 DEF Tree, Holds
<1> QED BY <1>1, <1>2

(* No way takes both links of a node. *)
LEMMA OneSide ==
  ASSUME NEW N, NEW top, NEW d, NEW hs, NEW up, Tree(N, top, d, hs, up),
         NEW k \in LinksOf(N, top), NEW n, NEW s \in Sides, NEW t \in Sides,
         Side(n, s) \in up[k], Side(n, t) \in up[k]
  PROVE  s = t
<1> SUFFICES ASSUME s # t PROVE FALSE
  OBVIOUS
<1>1. up[k] \subseteq LinksOf(N, top) /\ top \notin {Side(m, x) : m \in N, x \in Sides} /\ top.of \notin N
      /\ up[top] = {top}
  BY DEF Tree, Ways
<1>2. n \in N
  <2>1. Side(n, s) # top \/ Side(n, t) # top
    BY SideFacts
  <2> QED BY <1>1, <2>1, LinkCases, SideFacts
<1>3. Side(n, s) # top /\ Side(n, t) # top
  BY <1>1, <1>2
<1>4. k # top
  BY <1>1, <1>3
<1>5. PICK m \in N, x \in Sides : k = Side(m, x)
  BY <1>4, LinkCases
<1>6. PICK i \in LinksOf(N, top) : d[i] = m
  BY DEF Tree, Holds
<1>7. m # NULL
  BY DEF Tree, Ways
<1>8. up[k] = up[i] \cup {Side(m, x)} /\ Meets(hs, top, hs[m], up[i])
  BY <1>5, <1>6, <1>7 DEF Tree, Holds
<1>9. \A y \in Sides : Side(n, y) \in up[i] => hs[m] # hs[n] /\ (y = "l" <=> hs[m] < hs[n])
  BY <1>1, <1>2, <1>8, SideFacts DEF Meets
<1>10. CASE n = m
  BY <1>8, <1>9, <1>10, SideFacts
<1>11. CASE n # m
  <2>1. Side(n, s) \in up[i] /\ Side(n, t) \in up[i]
    BY <1>8, <1>11, SideFacts
  <2>2. (s = "l" <=> hs[m] < hs[n]) /\ (t = "l" <=> hs[m] < hs[n])
    BY <1>9, <2>1
  <2> QED BY <2>2 DEF Sides
<1> QED BY <1>10, <1>11

(* Going down on the side of h. *)
LEMMA Down ==
  ASSUME NEW N, NEW top, NEW d, NEW hs, NEW up, Tree(N, top, d, hs, up),
         NEW k \in LinksOf(N, top), d[k] # NULL, NEW h, Meets(hs, top, h, up[k]), h # hs[d[k]],
         NEW s \in Sides, s = "l" <=> h < hs[d[k]]
  PROVE  Side(d[k], s) \in LinksOf(N, top) /\ Meets(hs, top, h, up[Side(d[k], s)])
<1>1. d[k] \in N /\ up[Side(d[k], s)] = up[k] \cup {Side(d[k], s)}
  BY DEF Tree, Holds
<1>2. Side(d[k], s) \in LinksOf(N, top)
  BY <1>1, LinkCases
<1>3. Meets(hs, top, h, up[Side(d[k], s)])
  BY <1>1, SideFacts DEF Meets
<1> QED BY <1>2, <1>3

(* No search takes two ways that part. *)
LEMMA NoPart ==
  ASSUME NEW N, NEW top, NEW d, NEW hs, NEW up, Tree(N, top, d, hs, up),
         NEW i \in LinksOf(N, top), NEW k \in LinksOf(N, top), Part(up[i], up[k]),
         NEW h, Meets(hs, top, h, up[i]), Meets(hs, top, h, up[k])
  PROVE  FALSE
<1>1. PICK a : \E s, t \in Sides : s # t /\ Side(a, s) \in up[i] /\ Side(a, t) \in up[k]
  BY DEF Part
<1>2. PICK s \in Sides, t \in Sides : s # t /\ Side(a, s) \in up[i] /\ Side(a, t) \in up[k]
  BY <1>1
<1>3. up[i] \subseteq LinksOf(N, top) /\ up[k] \subseteq LinksOf(N, top)
      /\ top \notin {Side(m, x) : m \in N, x \in Sides}
  BY DEF Tree, Ways
<1>4. a \in N
  <2>1. Side(a, s) # top \/ Side(a, t) # top
    BY <1>2, SideFacts
  <2> QED BY <1>2, <1>3, <2>1, LinkCases, SideFacts
<1>5. (s = "l" <=> h < hs[a]) /\ (t = "l" <=> h < hs[a])
  BY <1>2, <1>3, <1>4, SideFacts DEF Meets
<1> QED BY <1>2, <1>5 DEF Sides

(* Where a search ends at NULL, there is no node of that hash. *)
LEMMA Absent ==
  ASSUME NEW N, NEW top, NEW d, NEW hs, NEW up, Tree(N, top, d, hs, up),
         NEW k \in LinksOf(N, top), d[k] = NULL, NEW h, Meets(hs, top, h, up[k])
  PROVE  \A n \in N : hs[n] # h
<1> SUFFICES ASSUME NEW n \in N, hs[n] = h PROVE FALSE
  OBVIOUS
<1>1. NULL \notin N /\ top \notin {Side(m, x) : m \in N, x \in Sides} /\ top.of \notin N
      /\ \A i \in LinksOf(N, top) : up[i] \subseteq LinksOf(N, top) /\ i \in up[i]
  BY DEF Tree, Ways
<1>2. PICK i \in LinksOf(N, top) : d[i] = n
  BY DEF Tree, Holds
<1>3. Meets(hs, top, h, up[i]) /\ i # k
  BY <1>1, <1>2 DEF Tree, Holds
<1>4. CASE up[k] \subseteq up[i]
  <2>1. k \in up[i]
    BY <1>1, <1>4
  <2> QED BY <1>1, <1>3, <2>1, Inner
<1>5. CASE up[i] \subseteq up[k]
  <2>1. i \in up[k]
    BY <1>1, <1>5
  <2>2. PICK s \in Sides : Side(n, s) \in up[k]
    BY <1>2, <1>3, <2>1, Inner
  <2>3. Side(n, s) # top
    BY <1>1
  <2> QED BY <2>2, <2>3, SideFacts DEF Meets
<1>6. CASE Part(up[i], up[k])
  BY <1>2, <1>3, <1>6, NoPart
<1>7. up[i] \subseteq up[k] \/ up[k] \subseteq up[i] \/ Part(up[i], up[k])
  BY <1>2 DEF Tree, Ways
<1> QED BY <1>4, <1>5, <1>6, <1>7

(* No two nodes have the same hash. *)
LEMMA Distinct ==
  ASSUME NEW N, NEW top, NEW d, NEW hs, NEW up, Tree(N, top, d, hs, up),
         NEW n \in N, NEW m \in N, hs[n] = hs[m]
  PROVE  n = m
<1> SUFFICES ASSUME n # m PROVE FALSE
  OBVIOUS
<1>1. NULL \notin N /\ top \notin {Side(a, x) : a \in N, x \in Sides}
      /\ \A i \in LinksOf(N, top) : up[i] \subseteq LinksOf(N, top) /\ i \in up[i]
  BY DEF Tree, Ways
<1>2. PICK i \in LinksOf(N, top) : d[i] = n
  BY DEF Tree, Holds
<1>3. PICK k \in LinksOf(N, top) : d[k] = m
  BY DEF Tree, Holds
<1> DEFINE h == hs[n]
<1>4. Meets(hs, top, h, up[i]) /\ Meets(hs, top, h, up[k]) /\ i # k
  BY <1>1, <1>2, <1>3 DEF Tree, Holds
<1>5. ASSUME NEW x \in {n, m}, NEW y \in LinksOf(N, top), NEW z \in LinksOf(N, top), d[y] = x,
             y \in up[z], y # z, Meets(hs, top, h, up[z])
      PROVE  FALSE
  <2>1. PICK s \in Sides : Side(x, s) \in up[z]
    BY <1>5, Inner
  <2>2. Side(x, s) # top
    BY <1>1
  <2> QED BY <1>5, <2>1, <2>2, SideFacts DEF Meets
<1>6. CASE up[k] \subseteq up[i]
  BY <1>1, <1>2, <1>3, <1>4, <1>5, <1>6
<1>7. CASE up[i] \subseteq up[k]
  BY <1>1, <1>2, <1>3, <1>4, <1>5, <1>7
<1>8. CASE Part(up[i], up[k])
  BY <1>2, <1>3, <1>4, <1>8, NoPart
<1>9. up[i] \subseteq up[k] \/ up[k] \subseteq up[i] \/ Part(up[i], up[k])
  BY <1>2, <1>3 DEF Tree, Ways
<1> QED BY <1>6, <1>7, <1>8, <1>9

LEMMA MeetsSame ==
  ASSUME NEW N, NEW top, NEW hs, NEW ht, \A n \in N : ht[n] = hs[n],
         NEW U, U \subseteq LinksOf(N, top), NEW h
  PROVE  Meets(hs, top, h, U) <=> Meets(ht, top, h, U)
<1>1. \A j \in U \ {top} : j.of \in N
  BY LinkCases, SideFacts
<1> QED BY <1>1 DEF Meets

(* A new node with no children, put where the search for its hash ended. *)
Inserted(N, top, d, hs, up, k0, x, dd, ht) ==
  /\ k0 \in LinksOf(N, top) /\ d[k0] = NULL
  /\ x \notin N /\ x # NULL /\ x # top.of
  /\ dd[k0] = x /\ \A k \in LinksOf(N, top) \ {k0} : dd[k] = d[k]
  /\ \A s \in Sides : dd[Side(x, s)] = NULL
  /\ ht[x] \in Nat /\ \A n \in N : ht[n] = hs[n]
  /\ Meets(hs, top, ht[x], up[k0])

LEMMA Insert ==
  ASSUME NEW N, NEW top, NEW d, NEW hs, NEW up, Tree(N, top, d, hs, up),
         NEW k0, NEW x, NEW dd, NEW ht, Inserted(N, top, d, hs, up, k0, x, dd, ht)
  PROVE  \E uu : Tree(N \cup {x}, top, dd, ht, uu)
<1> USE DEF Inserted
<1> DEFINE M == N \cup {x}
           K == LinksOf(N, top)
           L == LinksOf(M, top)
           uu == [k \in L |-> IF k \in K THEN up[k] ELSE up[k0] \cup {k}]
<1>1. /\ NULL \notin N /\ top.of \notin N /\ top \notin {Side(n, s) : n \in N \cup {NULL}, s \in Sides}
      /\ up[top] = {top}
      /\ \A k \in K : up[k] \subseteq K /\ k \in up[k] /\ top \in up[k]
      /\ \A k \in K : \A j \in up[k] : up[j] \subseteq up[k]
      /\ \A k, j \in K : up[k] \subseteq up[j] \/ up[j] \subseteq up[k] \/ Part(up[k], up[j])
  BY DEF Tree, Ways
<1>2. /\ \A k \in K : d[k] # NULL =>
           /\ d[k] \in N /\ Meets(hs, top, hs[d[k]], up[k])
           /\ \A s \in Sides : up[Side(d[k], s)] = up[k] \cup {Side(d[k], s)}
      /\ \A n \in N : hs[n] \in Nat /\ \E k \in K : d[k] = n
      /\ \A k, j \in K : d[k] = d[j] /\ d[k] # NULL => k = j
  BY DEF Tree, Holds
<1>3. /\ K \subseteq L /\ \A s \in Sides : Side(x, s) \in L \ K
      /\ \A k \in L : k \in K \/ \E s \in Sides : k = Side(x, s)
  <2>1. K \subseteq L
    BY DEF LinksOf
  <2>2. \A k \in L : k \in K \/ \E s \in Sides : k = Side(x, s)
    BY DEF LinksOf
  <2>3. ASSUME NEW s \in Sides PROVE Side(x, s) \in L /\ Side(x, s) \notin K
    <3>1. Side(x, s) \in L
      BY LinkCases
    <3>2. Side(x, s) # top
      BY SideFacts
    <3> QED BY <3>1, <3>2, LinkCases, SideFacts
  <2> QED BY <2>1, <2>2, <2>3
<1>4. /\ \A k \in K : uu[k] = up[k]
      /\ \A s \in Sides : uu[Side(x, s)] = up[k0] \cup {Side(x, s)}
  BY <1>3
<1>5. top \in K /\ k0 \in K
  BY LinkCases
<1> HIDE DEF K, L, uu
<1>6. ASSUME NEW k \in K, NEW j \in up[k]
      PROVE  j \in K /\ (j # k => j # k0 /\ dd[j] = d[j] /\ \E s \in Sides : Side(dd[j], s) \in up[k])
  <2>1. j \in K
    BY <1>1
  <2>2. ASSUME j # k PROVE j # k0 /\ dd[j] = d[j] /\ \E s \in Sides : Side(dd[j], s) \in up[k]
    <3>1. d[j] # NULL /\ \E s \in Sides : Side(d[j], s) \in up[k]
      BY <2>2, Inner DEF K
    <3> QED BY <2>1, <3>1 DEF K
  <2> QED BY <2>1, <2>2
<1>7. /\ NULL \notin M /\ top.of \notin M /\ top \notin {Side(n, s) : n \in M \cup {NULL}, s \in Sides}
      /\ uu[top] = {top}
  BY <1>1, <1>4, <1>5, SideFacts
<1>8. ASSUME NEW k \in L PROVE uu[k] \subseteq L /\ k \in uu[k] /\ top \in uu[k]
  BY <1>1, <1>3, <1>4, <1>5
<1>9. ASSUME NEW k \in L, NEW j \in uu[k]
      PROVE  uu[j] \subseteq uu[k] /\ (j = k \/ \E s \in Sides : Side(dd[j], s) \in uu[k])
  <2>1. CASE k \in K
    BY <1>1, <1>4, <1>6, <2>1
  <2>2. CASE k \notin K
    <3>1. PICK s \in Sides : k = Side(x, s)
      BY <1>3, <2>2
    <3>2. uu[k] = up[k0] \cup {k}
      BY <1>4, <3>1
    <3>3. CASE j = k
      BY <3>3
    <3>4. CASE j \in up[k0]
      <4>1. uu[j] \subseteq uu[k]
        BY <1>1, <1>4, <1>5, <1>6, <3>2, <3>4
      <4>2. CASE j = k0
        BY <3>1, <3>2, <4>1, <4>2
      <4>3. CASE j # k0
        BY <1>5, <1>6, <3>2, <3>4, <4>1, <4>3
      <4> QED BY <4>2, <4>3
    <3> QED BY <3>2, <3>3, <3>4
  <2> QED BY <2>1, <2>2
<1>10. ASSUME NEW k \in L, NEW j \in L
       PROVE  uu[k] \subseteq uu[j] \/ uu[j] \subseteq uu[k] \/ Part(uu[k], uu[j])
  <2>1. ASSUME NEW i \in K, NEW n \in L, n \notin K
        PROVE  uu[i] \subseteq uu[n] \/ (Part(uu[i], uu[n]) /\ Part(uu[n], uu[i]))
    <3>1. uu[i] = up[i] /\ up[k0] \subseteq uu[n]
      BY <1>3, <1>4, <2>1
    <3>2. CASE up[i] \subseteq up[k0]
      BY <3>1, <3>2
    <3>3. CASE up[k0] \subseteq up[i]
      <4>1. k0 \in up[i]
        BY <1>1, <1>5, <3>3
      <4>2. k0 = i
        BY <1>6, <4>1
      <4> QED BY <3>1, <4>2
    <3>4. CASE Part(up[i], up[k0])
      <4>1. Part(uu[i], uu[n]) /\ Part(uu[n], uu[i])
        BY <3>1, <3>4 DEF Part
      <4> QED BY <4>1
    <3> QED BY <1>1, <1>5, <3>2, <3>3, <3>4
  <2>2. CASE k \in K /\ j \in K
    BY <1>1, <1>4, <2>2
  <2>3. CASE k \notin K /\ j \notin K
    <3>1. PICK s \in Sides, t \in Sides : k = Side(x, s) /\ j = Side(x, t)
      BY <1>3, <2>3
    <3>2. CASE s = t
      BY <3>1, <3>2
    <3>3. CASE s # t
      <4>1. Side(x, s) \in uu[k] /\ Side(x, t) \in uu[j]
        BY <1>4, <3>1
      <4> QED BY <3>3, <4>1 DEF Part
    <3> QED BY <3>2, <3>3
  <2> QED BY <2>1, <2>2, <2>3
<1>11. Ways(M, top, dd, uu)
  <2>1. \A k \in L : uu[k] \subseteq L /\ k \in uu[k] /\ top \in uu[k]
    BY <1>8
  <2>2. \A k \in L : \A j \in uu[k] :
          uu[j] \subseteq uu[k] /\ (j = k \/ \E s \in Sides : Side(dd[j], s) \in uu[k])
    BY <1>9
  <2>3. \A k, j \in L : uu[k] \subseteq uu[j] \/ uu[j] \subseteq uu[k] \/ Part(uu[k], uu[j])
    BY <1>10
  <2> HIDE DEF M
  <2> QED BY <1>7, <2>1, <2>2, <2>3 DEF Ways, L
<1>12. \A k \in K : \A h : Meets(hs, top, h, up[k]) => Meets(ht, top, h, up[k])
  BY <1>1, MeetsSame DEF K
<1>13. \A s \in Sides : dd[Side(x, s)] = NULL
  OBVIOUS
<1>14. ASSUME NEW k \in L, dd[k] # NULL
       PROVE  /\ k \in K /\ (k # k0 => d[k] = dd[k] /\ d[k] \in N)
              /\ dd[k] \in M /\ Meets(ht, top, ht[dd[k]], uu[k])
              /\ \A s \in Sides : uu[Side(dd[k], s)] = uu[k] \cup {Side(dd[k], s)}
  <2>1. k \in K
    BY <1>3, <1>13, <1>14
  <2>2. CASE k = k0
    BY <1>4, <1>12, <2>1, <2>2
  <2>3. CASE k # k0
    <3>1. dd[k] = d[k] /\ d[k] \in N
      BY <1>2, <1>14, <2>1, <2>3 DEF K
    <3>2. \A s \in Sides : Side(d[k], s) \in K
      BY <3>1, LinkCases DEF K
    <3> QED BY <1>2, <1>4, <1>12, <1>14, <2>1, <3>1, <3>2
  <2> QED BY <2>1, <2>2, <2>3
<1>15. \A n \in M : ht[n] \in Nat /\ \E k \in L : dd[k] = n
  <2>1. ASSUME NEW n \in N PROVE ht[n] \in Nat /\ \E k \in L : dd[k] = n
    <3>1. PICK k \in K : d[k] = n
      BY <1>2
    <3>2. k # k0
      BY <1>1, <3>1
    <3> QED BY <1>2, <1>3, <3>1, <3>2 DEF K
  <2>2. ht[x] \in Nat /\ \E k \in L : dd[k] = x
    BY <1>3, <1>5
  <2> QED BY <2>1, <2>2
<1>16. ASSUME NEW k \in L, NEW j \in L, dd[k] = dd[j], dd[k] # NULL PROVE k = j
  BY <1>2, <1>14, <1>16
<1>17. Holds(M, top, dd, ht, uu)
  BY <1>14, <1>15, <1>16 DEF Holds, L
<1> QED BY <1>4, <1>11, <1>17 DEF Tree, K

-----------------------------------------------------------------------------
(***************************************************************************)
(* Cutting a tree at the link k0 to the node v: what is left of it, and    *)
(* the two trees under v.                                                  *)
(***************************************************************************)
Under(N, top, d, up, v, s) == {n \in N : \E k \in LinksOf(N, top) : d[k] = n /\ Side(v, s) \in up[k]}
Rest(N, top, d, up, k0) == {n \in N : \E k \in LinksOf(N, top) : d[k] = n /\ k0 \notin up[k]}

(* A tree in which k0 holds v. *)
TreeAt(N, top, d, hs, up, k0, v) ==
  Tree(N, top, d, hs, up) /\ k0 \in LinksOf(N, top) /\ d[k0] = v /\ v # NULL

LEMMA AtFacts ==
  ASSUME NEW N, NEW top, NEW d, NEW hs, NEW up, NEW k0, NEW v, TreeAt(N, top, d, hs, up, k0, v)
  PROVE  /\ v \in N /\ v # top.of
         /\ up[k0] \subseteq LinksOf(N, top) /\ k0 \in up[k0] /\ top \in up[k0]
         /\ \A s \in Sides : /\ Side(v, s) \in LinksOf(N, top) /\ Side(v, s) \notin up[k0]
                             /\ up[Side(v, s)] = up[k0] \cup {Side(v, s)}
         /\ \A s \in Sides : \A k \in LinksOf(N, top) : Side(v, s) \in up[k] =>
              up[k0] \subseteq up[k] /\ k0 \in up[k] /\ k # k0 /\ k \notin up[k0]
<1>1. /\ v \in N /\ Meets(hs, top, hs[v], up[k0])
      /\ \A s \in Sides : up[Side(v, s)] = up[k0] \cup {Side(v, s)}
  BY DEF TreeAt, Tree, Holds
<1>2. /\ top.of \notin N /\ top \notin {Side(n, s) : n \in N, s \in Sides}
      /\ \A k \in LinksOf(N, top) : up[k] \subseteq LinksOf(N, top) /\ k \in up[k] /\ top \in up[k]
      /\ \A k \in LinksOf(N, top) : \A j \in up[k] : up[j] \subseteq up[k]
      /\ k0 \in LinksOf(N, top)
  BY DEF TreeAt, Tree, Ways
<1>3. ASSUME NEW s \in Sides PROVE Side(v, s) \in LinksOf(N, top) /\ Side(v, s) \notin up[k0]
  <2>1. Side(v, s) \in LinksOf(N, top) /\ Side(v, s) # top
    BY <1>1, <1>2, LinkCases
  <2>2. Side(v, s) \in up[k0] => hs[v] # hs[v]
    BY <1>1, <2>1, SideFacts DEF Meets
  <2> QED BY <2>1, <2>2
<1>4. ASSUME NEW s \in Sides, NEW k \in LinksOf(N, top), Side(v, s) \in up[k]
      PROVE  up[k0] \subseteq up[k] /\ k0 \in up[k] /\ k # k0 /\ k \notin up[k0]
  <2>1. up[Side(v, s)] \subseteq up[k]
    BY <1>2, <1>4
  <2>2. up[k0] \subseteq up[k] /\ k0 \in up[k]
    BY <1>1, <1>2, <2>1
  <2>3. k \notin up[k0]
    BY <1>2, <1>3, <1>4
  <2> QED BY <1>2, <2>2, <2>3
<1> QED BY <1>1, <1>2, <1>3, <1>4

(* The link to a node, and the links of the node. *)
LEMMA LinkTo ==
  ASSUME NEW N, NEW top, NEW d, NEW hs, NEW up, Tree(N, top, d, hs, up), NEW n \in N
  PROVE  \E k \in LinksOf(N, top) :
           /\ d[k] = n /\ n # NULL /\ \A j \in LinksOf(N, top) : d[j] = n => j = k
           /\ Meets(hs, top, hs[n], up[k])
           /\ \A s \in Sides : up[Side(n, s)] = up[k] \cup {Side(n, s)}
<1>1. PICK k \in LinksOf(N, top) : d[k] = n
  BY DEF Tree, Holds
<1>2. n # NULL
  BY DEF Tree, Ways
<1> QED BY <1>1, <1>2 DEF Tree, Holds

LEMMA CutNodes ==
  ASSUME NEW N, NEW top, NEW d, NEW hs, NEW up, NEW k0, NEW v, TreeAt(N, top, d, hs, up, k0, v)
  PROVE  /\ \A n \in N : \/ n = v \/ n \in Rest(N, top, d, up, k0)
                         \/ \E s \in Sides : n \in Under(N, top, d, up, v, s)
         /\ v \notin Rest(N, top, d, up, k0)
         /\ \A s \in Sides : v \notin Under(N, top, d, up, v, s)
         /\ \A s \in Sides : \A n \in Under(N, top, d, up, v, s) : n \notin Rest(N, top, d, up, k0)
         /\ \A s, t \in Sides : \A n \in Under(N, top, d, up, v, s) :
              n \in Under(N, top, d, up, v, t) => s = t
<1> DEFINE K == LinksOf(N, top)
<1>1. Tree(N, top, d, hs, up) /\ k0 \in K /\ d[k0] = v /\ v # NULL
  BY DEF TreeAt
<1>2. /\ v \in N /\ k0 \in up[k0]
      /\ \A s \in Sides : Side(v, s) \notin up[k0]
      /\ \A s \in Sides : \A k \in K : Side(v, s) \in up[k] => k0 \in up[k] /\ k # k0
  BY AtFacts
<1>3. \A i, j \in K : d[i] = d[j] /\ d[i] # NULL => i = j
  BY <1>1 DEF Tree, Holds
<1>4. NULL \notin N
  BY <1>1 DEF Tree, Ways
<1>5. ASSUME NEW n \in N
      PROVE  \/ n = v \/ n \in Rest(N, top, d, up, k0) \/ \E s \in Sides : n \in Under(N, top, d, up, v, s)
  <2>1. PICK k \in K : d[k] = n
    BY <1>1 DEF Tree, Holds
  <2>2. CASE k0 \notin up[k]
    BY <2>1, <2>2 DEF Rest
  <2>3. CASE k0 \in up[k]
    <3>1. CASE k = k0
      BY <1>1, <2>1, <3>1
    <3>2. CASE k # k0
      <4>1. \E s \in Sides : Side(v, s) \in up[k]
        BY <1>1, <2>3, <3>2, Inner
      <4> QED BY <2>1, <4>1 DEF Under
    <3> QED BY <3>1, <3>2
  <2> QED BY <2>2, <2>3
<1>6. v \notin Rest(N, top, d, up, k0)
  BY <1>1, <1>2, <1>3 DEF Rest
<1>7. \A s \in Sides : v \notin Under(N, top, d, up, v, s)
  BY <1>1, <1>2, <1>3 DEF Under
<1>8. ASSUME NEW s \in Sides, NEW n \in Under(N, top, d, up, v, s)
      PROVE  n \notin Rest(N, top, d, up, k0)
  BY <1>2, <1>3, <1>4 DEF Under, Rest
<1>9. ASSUME NEW s \in Sides, NEW t \in Sides, NEW n \in Under(N, top, d, up, v, s),
             n \in Under(N, top, d, up, v, t)
      PROVE  s = t
  <2>1. PICK k \in K : d[k] = n /\ Side(v, s) \in up[k]
    BY DEF Under
  <2>2. n \in N
    BY DEF Under
  <2>3. Side(v, t) \in up[k]
    BY <1>3, <1>4, <1>9, <2>1, <2>2 DEF Under
  <2> QED BY <1>1, <2>1, <2>3, OneSide
<1> QED BY <1>5, <1>6, <1>7, <1>8, <1>9

(* The tree without the node v and what is under it. *)
LEMMA CutRest ==
  ASSUME NEW N, NEW top, NEW d, NEW hs, NEW up, NEW k0, NEW v, TreeAt(N, top, d, hs, up, k0, v),
         NEW dd, dd[k0] = NULL, \A k \in LinksOf(N, top) \ {k0} : dd[k] = d[k]
  PROVE  Tree(Rest(N, top, d, up, k0), top, dd, hs, up)
<1> DEFINE K == LinksOf(N, top)
           M == Rest(N, top, d, up, k0)
           L == LinksOf(M, top)
<1>1. Tree(N, top, d, hs, up) /\ k0 \in K /\ d[k0] = v /\ v # NULL
  BY DEF TreeAt
<1>2. /\ v \in N /\ k0 \in up[k0] /\ \A s \in Sides : Side(v, s) \notin up[k0]
  BY AtFacts
<1>3. /\ NULL \notin N /\ top.of \notin N /\ top \notin {Side(n, s) : n \in N \cup {NULL}, s \in Sides}
      /\ up[top] = {top}
      /\ \A k \in K : up[k] \subseteq K /\ k \in up[k] /\ top \in up[k]
      /\ \A k \in K : \A j \in up[k] : up[j] \subseteq up[k]
      /\ \A k, j \in K : up[k] \subseteq up[j] \/ up[j] \subseteq up[k] \/ Part(up[k], up[j])
  BY <1>1 DEF Tree, Ways
<1>4. M \subseteq N /\ \A n \in M : \E k \in K : d[k] = n /\ k0 \notin up[k]
  BY DEF Rest
<1>5. \A n \in N : \A k \in K : d[k] = n /\ k0 \notin up[k] => n \in M
  BY DEF Rest
<1>6. ASSUME NEW k \in L PROVE k \in K /\ (k = k0 \/ k0 \notin up[k])
  <2>1. CASE k = top
    BY <1>3, <2>1, LinkCases
  <2>2. CASE k # top
    <3>1. PICK n \in M, s \in Sides : k = Side(n, s)
      BY <2>2, LinkCases
    <3>2. PICK i \in K : d[i] = n /\ k0 \notin up[i]
      BY <1>4
    <3>3. up[k] = up[i] \cup {k}
      BY <1>1, <1>3, <1>4, <3>1, <3>2 DEF Tree, Holds
    <3>4. k \in K
      BY <1>4, <3>1, LinkCases
    <3> QED BY <3>2, <3>3, <3>4
  <2> QED BY <2>1, <2>2
<1>7. ASSUME NEW k \in K, k = k0 \/ k0 \notin up[k] PROVE up[k] \subseteq L
  <2> SUFFICES ASSUME NEW j \in up[k], j # top PROVE j \in L
    BY LinkCases
  <2>1. PICK a \in N, s \in Sides : j = Side(a, s)
    BY <1>3, LinkCases
  <2>2. PICK i \in K : d[i] = a /\ up[j] = up[i] \cup {j}
    BY <1>1, <2>1, LinkTo
  <2>3. up[i] \subseteq up[k] /\ j \in up[k]
    BY <1>3, <2>2
  <2>4. k0 \notin up[i]
    <3> SUFFICES ASSUME k0 \in up[i] PROVE FALSE
      OBVIOUS
    <3>1. k = k0
      BY <1>7, <2>3
    <3>2. CASE i = k0
      BY <1>1, <1>2, <2>1, <2>2, <2>3, <3>1, <3>2
    <3>3. CASE i # k0
      <4>1. \E t \in Sides : Side(v, t) \in up[i]
        BY <1>1, <3>3, Inner
      <4> QED BY <1>2, <2>3, <3>1, <4>1
    <3> QED BY <3>2, <3>3
  <2>5. a \in M
    BY <1>5, <2>2, <2>4
  <2> QED BY <2>1, <2>5, LinkCases
<1> HIDE DEF K, L, M
<1>8. ASSUME NEW k \in L, NEW j \in up[k]
      PROVE  up[j] \subseteq up[k] /\ (j = k \/ \E s \in Sides : Side(dd[j], s) \in up[k])
  <2>1. k \in K /\ j \in K /\ up[j] \subseteq up[k]
    BY <1>3, <1>6
  <2>2. ASSUME j # k PROVE \E s \in Sides : Side(dd[j], s) \in up[k]
    <3>1. j # k0
      BY <1>6, <2>2
    <3>2. dd[j] = d[j]
      BY <2>1, <3>1 DEF K
    <3> QED BY <1>1, <2>1, <2>2, <3>2, Inner DEF K
  <2> QED BY <2>1, <2>2
<1>9. Ways(M, top, dd, up)
  <2>1. \A k \in L : up[k] \subseteq L /\ k \in up[k] /\ top \in up[k]
    BY <1>3, <1>6, <1>7
  <2>2. \A k \in L : \A j \in up[k] :
          up[j] \subseteq up[k] /\ (j = k \/ \E s \in Sides : Side(dd[j], s) \in up[k])
    BY <1>8
  <2>3. \A k, j \in L : up[k] \subseteq up[j] \/ up[j] \subseteq up[k] \/ Part(up[k], up[j])
    BY <1>3, <1>6
  <2>4. /\ NULL \notin M /\ top.of \notin M /\ top \notin {Side(n, s) : n \in M \cup {NULL}, s \in Sides}
        /\ up[top] = {top}
    BY <1>3, <1>4
  <2> QED BY <2>1, <2>2, <2>3, <2>4 DEF Ways, L
<1>10. ASSUME NEW k \in L, dd[k] # NULL
       PROVE  /\ k \in K /\ dd[k] = d[k] /\ d[k] \in M /\ Meets(hs, top, hs[d[k]], up[k])
              /\ \A s \in Sides : up[Side(d[k], s)] = up[k] \cup {Side(d[k], s)}
  <2>1. k # k0 /\ k \in K
    BY <1>6, <1>10
  <2>2. dd[k] = d[k]
    BY <2>1 DEF K
  <2>3. /\ d[k] \in N /\ Meets(hs, top, hs[d[k]], up[k])
        /\ \A s \in Sides : up[Side(d[k], s)] = up[k] \cup {Side(d[k], s)}
    BY <1>1, <1>10, <2>1, <2>2 DEF Tree, Holds, K
  <2>4. d[k] \in M
    BY <1>5, <1>6, <2>1, <2>3
  <2> QED BY <2>1, <2>2, <2>3, <2>4
<1>11. ASSUME NEW n \in M PROVE hs[n] \in Nat /\ \E k \in L : dd[k] = n
  <2>1. PICK k \in K : d[k] = n /\ k0 \notin up[k]
    BY <1>4
  <2>2. k # k0 /\ k \in L
    BY <1>2, <1>3, <1>7, <2>1
  <2>3. hs[n] \in Nat
    BY <1>1, <1>4 DEF Tree, Holds
  <2> QED BY <2>1, <2>2, <2>3 DEF K
<1>12. \A k, j \in L : dd[k] = dd[j] /\ dd[k] # NULL => k = j
  <2>1. \A k, j \in K : d[k] = d[j] /\ d[k] # NULL => k = j
    BY <1>1 DEF Tree, Holds, K
  <2> QED BY <1>10, <2>1
<1>13. Holds(M, top, dd, hs, up)
  <2>1. \A k \in L : dd[k] # NULL =>
       /\ dd[k] \in M /\ Meets(hs, top, hs[dd[k]], up[k])
       /\ \A s \in Sides : up[Side(dd[k], s)] = up[k] \cup {Side(dd[k], s)}
    BY <1>10
  <2>2. \A n \in M : hs[n] \in Nat /\ \E k \in L : dd[k] = n
    BY <1>11
  <2> QED BY <1>12, <2>1, <2>2 DEF Holds, L
<1> QED BY <1>9, <1>13 DEF Tree, M

(* What is under v on one side is a tree. *)
LEMMA CutUnder ==
  ASSUME NEW N, NEW top, NEW d, NEW hs, NEW up, NEW k0, NEW v, TreeAt(N, top, d, hs, up, k0, v),
         NEW s \in Sides
  PROVE  \E us : Tree(Under(N, top, d, up, v, s), Side(v, s), d, hs, us)
<1> DEFINE K == LinksOf(N, top)
           T == Side(v, s)
           M == Under(N, top, d, up, v, s)
           L == LinksOf(M, T)
           us == [k \in L |-> up[k] \ up[k0]]
<1>1. Tree(N, top, d, hs, up) /\ k0 \in K /\ d[k0] = v /\ v # NULL
  BY DEF TreeAt
<1>2. /\ v \in N /\ k0 \in up[k0] /\ top \in up[k0]
      /\ T \in K /\ T \notin up[k0] /\ up[T] = up[k0] \cup {T}
      /\ \A k \in K : T \in up[k] => up[k0] \subseteq up[k] /\ k0 \in up[k] /\ k # k0 /\ k \notin up[k0]
  BY AtFacts
<1>3. /\ NULL \notin N /\ top.of \notin N /\ top \notin {Side(n, x) : n \in N \cup {NULL}, x \in Sides}
      /\ \A k \in K : up[k] \subseteq K /\ k \in up[k] /\ top \in up[k]
      /\ \A k \in K : \A j \in up[k] : up[j] \subseteq up[k]
      /\ \A k, j \in K : up[k] \subseteq up[j] \/ up[j] \subseteq up[k] \/ Part(up[k], up[j])
  BY <1>1 DEF Tree, Ways
<1>4. M \subseteq N /\ \A n \in M : \E k \in K : d[k] = n /\ T \in up[k]
  BY DEF Under
<1>5. \A n \in N : \A k \in K : d[k] = n /\ T \in up[k] => n \in M
  BY DEF Under
<1>6. v \notin M
  BY CutNodes
<1>7. ASSUME NEW k \in L PROVE k \in K /\ T \in up[k]
  <2>1. CASE k = T
    BY <1>2, <2>1
  <2>2. CASE k # T
    <3>1. PICK n \in M, x \in Sides : k = Side(n, x)
      BY <2>2, LinkCases
    <3>2. PICK i \in K : d[i] = n /\ T \in up[i]
      BY <1>4
    <3>3. up[k] = up[i] \cup {k}
      BY <1>1, <1>3, <1>4, <3>1, <3>2 DEF Tree, Holds
    <3>4. k \in K
      BY <1>4, <3>1, LinkCases
    <3> QED BY <3>2, <3>3, <3>4
  <2> QED BY <2>1, <2>2
<1>8. ASSUME NEW k \in K, T \in up[k], NEW j \in up[k], j \notin up[k0] PROVE j \in L
  <2>1. j # top /\ j \in K
    BY <1>2, <1>3, <1>8
  <2>2. PICK a \in N, x \in Sides : j = Side(a, x)
    BY <2>1, LinkCases
  <2>3. PICK i \in K : d[i] = a /\ up[j] = up[i] \cup {j}
    BY <1>1, <2>2, LinkTo
  <2>4. up[i] \subseteq up[k] /\ up[k0] \subseteq up[k] /\ i \in up[i]
    BY <1>2, <1>3, <1>8, <2>3
  <2>5. CASE i = k0
    <3>1. j = Side(v, x)
      BY <1>1, <2>2, <2>3, <2>5
    <3>2. x = s
      BY <1>1, <1>8, <3>1, OneSide
    <3> QED BY <3>1, <3>2, LinkCases
  <2>6. CASE i # k0
    <3>1. CASE Part(up[i], up[k0])
      <4>1. PICK b : \E y, z \in Sides : y # z /\ Side(b, y) \in up[i] /\ Side(b, z) \in up[k0]
        BY <3>1 DEF Part
      <4>2. PICK y \in Sides, z \in Sides : y # z /\ Side(b, y) \in up[i] /\ Side(b, z) \in up[k0]
        BY <4>1
      <4>3. Side(b, y) \in up[k] /\ Side(b, z) \in up[k]
        BY <2>4, <4>2
      <4> QED BY <1>1, <4>2, <4>3, OneSide
    <3>2. CASE up[i] \subseteq up[k0]
      <4>1. i \in up[k0]
        BY <2>4, <3>2
      <4>2. PICK y \in Sides : Side(a, y) \in up[k0]
        BY <1>1, <2>3, <2>6, <4>1, Inner
      <4>3. y = x
        BY <1>1, <2>2, <2>4, <4>2, OneSide
      <4> QED BY <1>8, <2>2, <4>2, <4>3
    <3>3. CASE up[k0] \subseteq up[i]
      <4>1. k0 \in up[i]
        BY <1>2, <3>3
      <4>2. PICK y \in Sides : Side(v, y) \in up[i]
        BY <1>1, <2>6, <4>1, Inner
      <4>3. y = s
        BY <1>1, <1>8, <2>4, <4>2, OneSide
      <4>4. a \in M
        BY <1>5, <2>3, <4>2, <4>3
      <4> QED BY <2>2, <4>4, LinkCases
    <3> QED BY <1>1, <1>3, <3>1, <3>2, <3>3
  <2> QED BY <2>5, <2>6
<1>9. \A k \in L : us[k] = up[k] \ up[k0]
  OBVIOUS
<1>10. T \in L
  BY LinkCases
<1> HIDE DEF K, L, M, T, us
<1>11. ASSUME NEW k \in L PROVE us[k] \subseteq L /\ k \in us[k] /\ T \in us[k]
  BY <1>2, <1>3, <1>7, <1>8, <1>9
<1>12. ASSUME NEW k \in L, NEW j \in us[k]
       PROVE  us[j] \subseteq us[k] /\ (j = k \/ \E x \in Sides : Side(d[j], x) \in us[k])
  <2>1. k \in K /\ T \in up[k] /\ j \in up[k] /\ j \notin up[k0] /\ j \in L /\ j \in K
    BY <1>7, <1>9, <1>11
  <2>2. us[j] \subseteq us[k]
    BY <1>3, <1>9, <2>1
  <2>3. ASSUME j # k PROVE \E x \in Sides : Side(d[j], x) \in us[k]
    <3>1. PICK x \in Sides : Side(d[j], x) \in up[k]
      BY <1>1, <2>1, <2>3, Inner DEF K
    <3>2. d[j] \in N /\ d[j] # NULL
      BY <1>1, <2>1, <2>3, Inner DEF K
    <3>3. up[Side(d[j], x)] = up[j] \cup {Side(d[j], x)}
      BY <1>1, <2>1, <3>2 DEF Tree, Holds, K
    <3>4. Side(d[j], x) \notin up[k0]
      BY <1>1, <1>3, <2>1, <3>3
    <3> QED BY <1>9, <3>1, <3>4
  <2> QED BY <2>2, <2>3
<1>13. ASSUME NEW k \in L, NEW j \in L
       PROVE  us[k] \subseteq us[j] \/ us[j] \subseteq us[k] \/ Part(us[k], us[j])
  <2>1. /\ k \in K /\ j \in K /\ us[k] = up[k] \ up[k0] /\ us[j] = up[j] \ up[k0]
        /\ up[k0] \subseteq up[k] /\ up[k0] \subseteq up[j]
    BY <1>2, <1>7, <1>9
  <2>2. CASE Part(up[k], up[j])
    <3>1. PICK b : \E y, z \in Sides : y # z /\ Side(b, y) \in up[k] /\ Side(b, z) \in up[j]
      BY <2>2 DEF Part
    <3>2. PICK y \in Sides, z \in Sides : y # z /\ Side(b, y) \in up[k] /\ Side(b, z) \in up[j]
      BY <3>1
    <3>3. Side(b, y) \notin up[j] /\ Side(b, z) \notin up[k]
      BY <1>1, <2>1, <3>2, OneSide DEF K
    <3>4. Side(b, y) \in us[k] /\ Side(b, z) \in us[j]
      BY <2>1, <3>2, <3>3
    <3> QED BY <3>2, <3>4 DEF Part
  <2>3. up[k] \subseteq up[j] \/ up[j] \subseteq up[k] \/ Part(up[k], up[j])
    BY <1>3, <2>1
  <2> QED BY <2>1, <2>2, <2>3
<1>14. /\ NULL \notin M /\ T.of \notin M /\ T \notin {Side(n, x) : n \in M \cup {NULL}, x \in Sides}
       /\ us[T] = {T}
  <2>1. T.of = v
    BY SideFacts DEF T
  <2>2. us[T] = {T}
    BY <1>2, <1>9, <1>10
  <2>3. T \notin {Side(n, x) : n \in M \cup {NULL}, x \in Sides}
    BY <1>1, <1>6, SideFacts DEF T
  <2> QED BY <1>3, <1>4, <1>6, <2>1, <2>2, <2>3
<1>15. Ways(M, T, d, us)
  <2>1. \A k \in L : us[k] \subseteq L /\ k \in us[k] /\ T \in us[k]
    BY <1>11
  <2>2. \A k \in L : \A j \in us[k] :
          us[j] \subseteq us[k] /\ (j = k \/ \E x \in Sides : Side(d[j], x) \in us[k])
    BY <1>12
  <2>3. \A k, j \in L : us[k] \subseteq us[j] \/ us[j] \subseteq us[k] \/ Part(us[k], us[j])
    BY <1>13
  <2> QED BY <1>14, <2>1, <2>2, <2>3 DEF Ways, L
<1>16. ASSUME NEW k \in L, d[k] # NULL
       PROVE  /\ d[k] \in M /\ Meets(hs, T, hs[d[k]], us[k])
              /\ \A x \in Sides : us[Side(d[k], x)] = us[k] \cup {Side(d[k], x)}
  <2>1. k \in K /\ T \in up[k] /\ us[k] = up[k] \ up[k0] /\ k \notin up[k0]
    BY <1>2, <1>7, <1>9
  <2>2. /\ d[k] \in N /\ Meets(hs, top, hs[d[k]], up[k])
        /\ \A x \in Sides : up[Side(d[k], x)] = up[k] \cup {Side(d[k], x)}
    BY <1>1, <1>16, <2>1 DEF Tree, Holds, K
  <2>3. d[k] \in M
    BY <1>5, <2>1, <2>2
  <2>4. Meets(hs, T, hs[d[k]], us[k])
    BY <1>2, <2>1, <2>2 DEF Meets
  <2>5. ASSUME NEW x \in Sides PROVE us[Side(d[k], x)] = us[k] \cup {Side(d[k], x)}
    <3>1. Side(d[k], x) \in L
      BY <2>3, LinkCases DEF L
    <3>2. Side(d[k], x) \notin up[k0]
      BY <1>1, <1>3, <2>1, <2>2
    <3> QED BY <1>9, <2>1, <2>2, <3>1, <3>2
  <2> QED BY <2>3, <2>4, <2>5
<1>17. ASSUME NEW n \in M PROVE hs[n] \in Nat /\ \E k \in L : d[k] = n
  <2>1. PICK k \in K : d[k] = n /\ T \in up[k]
    BY <1>4
  <2>2. k \in up[k] /\ k \notin up[k0]
    BY <1>2, <1>3, <2>1
  <2>3. k \in L
    BY <1>8, <2>1, <2>2
  <2>4. hs[n] \in Nat
    BY <1>1, <1>4 DEF Tree, Holds
  <2> QED BY <2>1, <2>3, <2>4
<1>18. \A k, j \in L : d[k] = d[j] /\ d[k] # NULL => k = j
  <2>1. \A k, j \in K : d[k] = d[j] /\ d[k] # NULL => k = j
    BY <1>1 DEF Tree, Holds, K
  <2> QED BY <1>7, <2>1
<1>19. Holds(M, T, d, hs, us)
  <2>1. \A k \in L : d[k] # NULL =>
       /\ d[k] \in M /\ Meets(hs, T, hs[d[k]], us[k])
       /\ \A x \in Sides : us[Side(d[k], x)] = us[k] \cup {Side(d[k], x)}
    BY <1>16
  <2>2. \A n \in M : hs[n] \in Nat /\ \E k \in L : d[k] = n
    BY <1>17
  <2> QED BY <1>18, <2>1, <2>2 DEF Holds, L
<1> QED BY <1>15, <1>19 DEF Tree, M, T

(* h and w on the same side of g *)
SameSide(h, w, g) == h # g /\ (h < g <=> w < g)

(* A node that is not under v has all that is under v on one side. *)
LEMMA CutApart ==
  ASSUME NEW N, NEW top, NEW d, NEW hs, NEW up, NEW k0, NEW v, TreeAt(N, top, d, hs, up, k0, v),
         NEW s \in Sides, NEW n \in Under(N, top, d, up, v, s)
  PROVE  /\ hs[n] # hs[v] /\ (s = "l" <=> hs[n] < hs[v])
         /\ \A m \in Rest(N, top, d, up, k0) : SameSide(hs[n], hs[v], hs[m])
<1> DEFINE K == LinksOf(N, top)
           g == hs[n]
           w == hs[v]
<1>1. Tree(N, top, d, hs, up) /\ k0 \in K /\ d[k0] = v /\ v # NULL
  BY DEF TreeAt
<1>2. /\ v \in N /\ k0 \in up[k0] /\ v # top.of
      /\ \A k \in K : Side(v, s) \in up[k] => up[k0] \subseteq up[k]
  BY AtFacts
<1>3. n \in N /\ \E k \in K : d[k] = n /\ Side(v, s) \in up[k]
  BY DEF Under
<1>4. PICK k \in K : d[k] = n /\ Side(v, s) \in up[k]
  BY <1>3
<1>5. /\ NULL \notin N /\ top \notin {Side(a, x) : a \in N, x \in Sides}
      /\ \A i \in K : up[i] \subseteq K /\ i \in up[i]
      /\ \A i, j \in K : up[i] \subseteq up[j] \/ up[j] \subseteq up[i] \/ Part(up[i], up[j])
  BY <1>1 DEF Tree, Ways
<1>6. Meets(hs, top, g, up[k]) /\ Meets(hs, top, w, up[k0]) /\ \A a \in N : hs[a] \in Nat
  BY <1>1, <1>3, <1>4, <1>5 DEF Tree, Holds
<1>7. Meets(hs, top, g, up[k0])
  BY <1>2, <1>4, <1>6 DEF Meets
<1>8. g # w /\ (s = "l" <=> g < w)
  <2>1. Side(v, s) # top
    BY <1>2, SideFacts
  <2> QED BY <1>4, <1>6, <2>1, SideFacts DEF Meets
<1>9. ASSUME NEW m \in Rest(N, top, d, up, k0), ~ SameSide(g, w, hs[m]) PROVE FALSE
  <2> DEFINE h == hs[m]
  <2>1. m \in N /\ \E i \in K : d[i] = m /\ k0 \notin up[i]
    BY DEF Rest
  <2>2. PICK i \in K : d[i] = m /\ k0 \notin up[i]
    BY <2>1
  <2>3. h \in Nat /\ g \in Nat /\ w \in Nat
    BY <1>2, <1>3, <1>6, <2>1
  <2>4. Meets(hs, top, h, up[i])
    BY <1>1, <1>5, <2>1, <2>2 DEF Tree, Holds
  <2>5. ASSUME NEW j \in up[k0] \ {top} PROVE h # hs[j.of] /\ (j.side = "l" <=> h < hs[j.of])
    <3> DEFINE b == hs[j.of]
    <3>1. j.of \in N
      BY <1>1, <1>5, <2>5, LinkCases, SideFacts
    <3>2. b \in Nat
      BY <1>6, <3>1
    <3>3. g # b /\ (j.side = "l" <=> g < b) /\ w # b /\ (j.side = "l" <=> w < b)
      BY <1>6, <1>7 DEF Meets
    <3>4. ~ (g # h /\ (g < h <=> w < h))
      BY <1>9 DEF SameSide
    <3> HIDE DEF b, g, w, h
    <3>5. h # b /\ (j.side = "l" <=> h < b)
      BY <2>3, <3>2, <3>3, <3>4
    <3> QED BY <3>5 DEF b, h
  <2>6. Meets(hs, top, h, up[k0])
    BY <2>5 DEF Meets
  <2>7. CASE Part(up[k0], up[i])
    BY <1>1, <2>2, <2>4, <2>6, <2>7, NoPart
  <2>8. CASE up[k0] \subseteq up[i]
    BY <1>2, <2>2, <2>8
  <2>9. CASE up[i] \subseteq up[k0]
    <3>1. i \in up[k0] /\ i # k0
      BY <1>2, <1>5, <2>2, <2>9
    <3>2. PICK x \in Sides : Side(m, x) \in up[k0]
      BY <1>1, <2>2, <3>1, Inner
    <3>3. Side(m, x) # top
      BY <1>5, <2>1
    <3> QED BY <2>6, <3>2, <3>3, SideFacts DEF Meets
  <2> QED BY <1>1, <1>5, <2>7, <2>8, <2>9
<1> QED BY <1>8, <1>9

-----------------------------------------------------------------------------
(***************************************************************************)
(* Hanging the tree below the link T at a link k0 that held NULL.          *)
(***************************************************************************)
Hung(N, top, d, hs, up, k0, M, T, dd) ==
  /\ k0 \in LinksOf(N, top) /\ d[k0] = NULL /\ d[T] # NULL
  /\ \A n \in M : n \notin N /\ n # top.of
  /\ dd[k0] = d[T] /\ \A k \in LinksOf(N, top) \ {k0} : dd[k] = d[k]
  /\ \A n \in M, s \in Sides : dd[Side(n, s)] = d[Side(n, s)]
  /\ \A n \in M : Meets(hs, top, hs[n], up[k0])

LEMMA Graft ==
  ASSUME NEW N, NEW top, NEW d, NEW hs, NEW up, Tree(N, top, d, hs, up),
         NEW M, NEW T, NEW um, Tree(M, T, d, hs, um),
         NEW k0, NEW dd, Hung(N, top, d, hs, up, k0, M, T, dd)
  PROVE  \E uu : Tree(N \cup M, top, dd, hs, uu)
<1> USE DEF Hung
<1> DEFINE B == N \cup M
           K == LinksOf(N, top)
           KM == LinksOf(M, T)
           L == LinksOf(B, top)
           S == {Side(n, s) : n \in M, s \in Sides}
           t == d[T]
           uu == [k \in L |-> IF k \in K THEN up[k] ELSE up[k0] \cup (um[k] \ {T})]
<1>1. /\ NULL \notin N /\ top.of \notin N /\ top \notin {Side(n, s) : n \in N \cup {NULL}, s \in Sides}
      /\ up[top] = {top}
      /\ \A k \in K : up[k] \subseteq K /\ k \in up[k] /\ top \in up[k]
      /\ \A k \in K : \A j \in up[k] : up[j] \subseteq up[k]
      /\ \A k, j \in K : up[k] \subseteq up[j] \/ up[j] \subseteq up[k] \/ Part(up[k], up[j])
  BY DEF Tree, Ways
<1>2. /\ \A k \in K : d[k] # NULL =>
           /\ d[k] \in N /\ Meets(hs, top, hs[d[k]], up[k])
           /\ \A s \in Sides : up[Side(d[k], s)] = up[k] \cup {Side(d[k], s)}
      /\ \A n \in N : hs[n] \in Nat /\ \E k \in K : d[k] = n
      /\ \A k, j \in K : d[k] = d[j] /\ d[k] # NULL => k = j
  BY DEF Tree, Holds
<1>3. /\ NULL \notin M /\ T.of \notin M /\ T \notin {Side(n, s) : n \in M \cup {NULL}, s \in Sides}
      /\ um[T] = {T}
      /\ \A k \in KM : um[k] \subseteq KM /\ k \in um[k] /\ T \in um[k]
      /\ \A k \in KM : \A j \in um[k] :
           um[j] \subseteq um[k] /\ (j = k \/ \E s \in Sides : Side(d[j], s) \in um[k])
      /\ \A k, j \in KM : um[k] \subseteq um[j] \/ um[j] \subseteq um[k] \/ Part(um[k], um[j])
  BY DEF Tree, Ways
<1>4. /\ \A k \in KM : d[k] # NULL =>
           /\ d[k] \in M /\ Meets(hs, T, hs[d[k]], um[k])
           /\ \A s \in Sides : um[Side(d[k], s)] = um[k] \cup {Side(d[k], s)}
      /\ \A n \in M : hs[n] \in Nat /\ \E k \in KM : d[k] = n
      /\ \A k, j \in KM : d[k] = d[j] /\ d[k] # NULL => k = j
  BY DEF Tree, Holds
<1>5. /\ KM = S \cup {T} /\ T \notin S /\ L = K \cup S
      /\ \A k \in S : k \in KM /\ k # T /\ k \in L /\ k \notin K
      /\ K \subseteq L
  <2>1. KM = S \cup {T} /\ T \notin S
    BY <1>3 DEF LinksOf
  <2>2. L = K \cup S
    BY DEF LinksOf
  <2>3. ASSUME NEW k \in S PROVE k \notin K
    <3>1. PICK n \in M, s \in Sides : k = Side(n, s)
      OBVIOUS
    <3>2. n \notin N /\ k # top
      BY <3>1, SideFacts
    <3> QED BY <3>1, <3>2, LinkCases, SideFacts
  <2> HIDE DEF S, K, KM, L
  <2> QED BY <2>1, <2>2, <2>3
<1>6. /\ \A k \in K : uu[k] = up[k]
      /\ \A k \in S : uu[k] = up[k0] \cup (um[k] \ {T})
  <2> HIDE DEF S, K, KM, L
  <2>1. \A k \in L : uu[k] = IF k \in K THEN up[k] ELSE up[k0] \cup (um[k] \ {T})
    OBVIOUS
  <2> HIDE DEF uu
  <2> QED BY <1>5, <2>1
<1>7. top \in K /\ k0 \in K /\ T \in KM /\ t # NULL /\ t \in M /\ dd[k0] = t
      /\ \A k \in S : dd[k] = d[k]
  BY <1>4, LinkCases
<1>8. \A n \in M, s \in Sides : Side(n, s) \in S
  OBVIOUS
<1> HIDE DEF B, K, KM, L, S, t, uu
<1>9. ASSUME NEW k \in K, NEW j \in up[k]
      PROVE  j \in K /\ (j # k => j # k0 /\ dd[j] = d[j] /\ \E s \in Sides : Side(dd[j], s) \in up[k])
  <2>1. j \in K
    BY <1>1
  <2>2. ASSUME j # k PROVE j # k0 /\ dd[j] = d[j] /\ \E s \in Sides : Side(dd[j], s) \in up[k]
    <3>1. d[j] # NULL /\ \E s \in Sides : Side(d[j], s) \in up[k]
      BY <2>2, Inner DEF K
    <3> QED BY <2>1, <3>1 DEF K
  <2> QED BY <2>1, <2>2
<1>10. /\ NULL \notin B /\ top.of \notin B /\ top \notin {Side(n, s) : n \in B \cup {NULL}, s \in Sides}
       /\ uu[top] = {top}
  <2>1. top.of \notin M
    OBVIOUS
  <2>2. top \notin {Side(n, s) : n \in B \cup {NULL}, s \in Sides}
    BY <1>1, <2>1, SideFacts DEF B
  <2> QED BY <1>1, <1>3, <1>6, <1>7, <2>1, <2>2 DEF B
<1>11. ASSUME NEW k \in L PROVE uu[k] \subseteq L /\ k \in uu[k] /\ top \in uu[k]
  <2>1. CASE k \in K
    BY <1>1, <1>5, <1>6, <2>1
  <2>2. CASE k \in S
    <3>1. um[k] \subseteq S \cup {T} /\ k \in um[k] /\ k # T
      BY <1>3, <1>5, <2>2
    <3>2. uu[k] = up[k0] \cup (um[k] \ {T})
      BY <1>6, <2>2
    <3>3. up[k0] \subseteq K /\ top \in up[k0]
      BY <1>1, <1>7
    <3> QED BY <1>5, <3>1, <3>2, <3>3
  <2> QED BY <1>5, <2>1, <2>2
<1>12. ASSUME NEW k \in L, NEW j \in uu[k]
       PROVE  uu[j] \subseteq uu[k] /\ (j = k \/ \E s \in Sides : Side(dd[j], s) \in uu[k])
  <2>1. CASE k \in K
    BY <1>1, <1>6, <1>9, <2>1
  <2>2. CASE k \in S
    <3>1. uu[k] = up[k0] \cup (um[k] \ {T}) /\ k \in KM /\ k # T
      BY <1>5, <1>6, <2>2
    <3>2. CASE j \in up[k0]
      <4>1. uu[j] \subseteq uu[k]
        BY <1>1, <1>6, <1>7, <1>9, <3>1, <3>2
      <4>2. CASE j = k0
        <5>1. PICK s \in Sides : Side(t, s) \in um[k]
          BY <1>3, <3>1 DEF t
        <5>2. Side(t, s) # T
          BY <1>3, <1>7
        <5> QED BY <1>7, <3>1, <4>1, <4>2, <5>1, <5>2
      <4>3. CASE j # k0
        BY <1>7, <1>9, <3>1, <3>2, <4>1, <4>3
      <4> QED BY <4>2, <4>3
    <3>3. CASE j \in um[k] /\ j # T
      <4>1. j \in S /\ j \in KM /\ um[j] \subseteq um[k]
        BY <1>3, <1>5, <3>1, <3>3
      <4>2. uu[j] \subseteq uu[k]
        BY <1>6, <3>1, <4>1
      <4>3. ASSUME j # k PROVE \E s \in Sides : Side(dd[j], s) \in uu[k]
        <5>1. d[j] \in M /\ \E s \in Sides : Side(d[j], s) \in um[k]
          BY <3>1, <3>3, <4>3, Inner DEF KM
        <5>2. PICK s \in Sides : Side(d[j], s) \in um[k]
          BY <5>1
        <5>3. Side(d[j], s) # T
          BY <1>3, <5>1
        <5> QED BY <1>7, <3>1, <4>1, <5>2, <5>3
      <4> QED BY <4>2, <4>3
    <3> QED BY <3>1, <3>2, <3>3
  <2> QED BY <1>5, <2>1, <2>2
<1>13. ASSUME NEW k \in L, NEW j \in L
       PROVE  uu[k] \subseteq uu[j] \/ uu[j] \subseteq uu[k] \/ Part(uu[k], uu[j])
  <2>1. ASSUME NEW i \in K, NEW n \in S
        PROVE  uu[i] \subseteq uu[n] \/ (Part(uu[i], uu[n]) /\ Part(uu[n], uu[i]))
    <3>1. uu[i] = up[i] /\ up[k0] \subseteq uu[n]
      BY <1>6
    <3>2. CASE up[i] \subseteq up[k0]
      BY <3>1, <3>2
    <3>3. CASE up[k0] \subseteq up[i]
      <4>1. k0 \in up[i]
        BY <1>1, <1>7, <3>3
      <4>2. k0 = i
        BY <1>9, <4>1
      <4> QED BY <3>1, <4>2
    <3>4. CASE Part(up[i], up[k0])
      <4>1. Part(uu[i], uu[n]) /\ Part(uu[n], uu[i])
        BY <3>1, <3>4 DEF Part
      <4> QED BY <4>1
    <3> QED BY <1>1, <1>7, <3>2, <3>3, <3>4
  <2>2. CASE k \in K /\ j \in K
    BY <1>1, <1>6, <2>2
  <2>3. CASE k \in S /\ j \in S
    <3>1. uu[k] = up[k0] \cup (um[k] \ {T}) /\ uu[j] = up[k0] \cup (um[j] \ {T}) /\ k \in KM /\ j \in KM
      BY <1>5, <1>6, <2>3
    <3>2. CASE Part(um[k], um[j])
      <4>1. PICK b : \E y, z \in Sides : y # z /\ Side(b, y) \in um[k] /\ Side(b, z) \in um[j]
        BY <3>2 DEF Part
      <4>2. PICK y \in Sides, z \in Sides : y # z /\ Side(b, y) \in um[k] /\ Side(b, z) \in um[j]
        BY <4>1
      <4>3. Side(b, y) \in KM /\ Side(b, z) \in KM
        BY <1>3, <3>1, <4>2
      <4>4. b \in M
        <5>1. Side(b, y) # T \/ Side(b, z) # T
          BY <4>2, SideFacts
        <5> QED BY <4>3, <5>1, LinkCases, SideFacts DEF KM
      <4>5. Side(b, y) # T /\ Side(b, z) # T
        BY <1>3, <4>4
      <4> QED BY <3>1, <4>2, <4>5 DEF Part
    <3>3. um[k] \subseteq um[j] \/ um[j] \subseteq um[k] \/ Part(um[k], um[j])
      BY <1>3, <3>1
    <3> QED BY <3>1, <3>2, <3>3
  <2> QED BY <1>5, <2>1, <2>2, <2>3
<1>14. Ways(B, top, dd, uu)
  <2>1. \A k \in L : uu[k] \subseteq L /\ k \in uu[k] /\ top \in uu[k]
    BY <1>11
  <2>2. \A k \in L : \A j \in uu[k] :
          uu[j] \subseteq uu[k] /\ (j = k \/ \E s \in Sides : Side(dd[j], s) \in uu[k])
    BY <1>12
  <2>3. \A k, j \in L : uu[k] \subseteq uu[j] \/ uu[j] \subseteq uu[k] \/ Part(uu[k], uu[j])
    BY <1>13
  <2> QED BY <1>10, <2>1, <2>2, <2>3 DEF Ways, L
<1>15. ASSUME NEW k \in K, k # k0, dd[k] # NULL
       PROVE  /\ d[k] = dd[k] /\ dd[k] \in N /\ Meets(hs, top, hs[dd[k]], uu[k])
              /\ \A s \in Sides : uu[Side(dd[k], s)] = uu[k] \cup {Side(dd[k], s)}
  <2>1. dd[k] = d[k]
    BY <1>15 DEF K
  <2>2. \A s \in Sides : Side(d[k], s) \in K
    BY <1>2, <1>15, <2>1, LinkCases DEF K
  <2> QED BY <1>2, <1>6, <1>15, <2>1, <2>2
<1>16. /\ dd[k0] \in M /\ Meets(hs, top, hs[dd[k0]], uu[k0])
       /\ \A s \in Sides : uu[Side(dd[k0], s)] = uu[k0] \cup {Side(dd[k0], s)}
  <2>1. dd[k0] = t /\ uu[k0] = up[k0] /\ Meets(hs, top, hs[t], up[k0])
    BY <1>6, <1>7
  <2>2. ASSUME NEW s \in Sides PROVE uu[Side(t, s)] = up[k0] \cup {Side(t, s)}
    <3>1. um[Side(t, s)] = {T} \cup {Side(t, s)}
      BY <1>3, <1>4, <1>7 DEF t
    <3>2. uu[Side(t, s)] = up[k0] \cup (um[Side(t, s)] \ {T}) /\ Side(t, s) # T
      BY <1>5, <1>6, <1>7, <1>8
    <3> QED BY <3>1, <3>2
  <2> QED BY <1>7, <2>1, <2>2
<1>17. ASSUME NEW k \in S, dd[k] # NULL
       PROVE  /\ d[k] = dd[k] /\ dd[k] \in M /\ Meets(hs, top, hs[dd[k]], uu[k])
              /\ \A s \in Sides : uu[Side(dd[k], s)] = uu[k] \cup {Side(dd[k], s)}
  <2>1. dd[k] = d[k] /\ k \in KM /\ uu[k] = up[k0] \cup (um[k] \ {T})
    BY <1>5, <1>6, <1>7
  <2>2. /\ d[k] \in M /\ Meets(hs, T, hs[d[k]], um[k])
        /\ \A s \in Sides : um[Side(d[k], s)] = um[k] \cup {Side(d[k], s)}
    BY <1>4, <1>17, <2>1
  <2>3. Meets(hs, top, hs[d[k]], up[k0])
    BY <2>2
  <2>4. Meets(hs, top, hs[d[k]], uu[k])
    BY <2>1, <2>2, <2>3 DEF Meets
  <2>5. ASSUME NEW s \in Sides PROVE uu[Side(d[k], s)] = uu[k] \cup {Side(d[k], s)}
    <3>1. Side(d[k], s) \in S /\ Side(d[k], s) # T
      BY <1>5, <1>8, <2>2
    <3>2. uu[Side(d[k], s)] = up[k0] \cup (um[Side(d[k], s)] \ {T})
      BY <1>6, <3>1
    <3> QED BY <2>1, <2>2, <3>1, <3>2
  <2> QED BY <2>1, <2>2, <2>4, <2>5
<1>18. \A k \in L : k = k0 \/ (k \in K /\ k # k0) \/ k \in S
  BY <1>5
<1>19. \A k \in L : dd[k] # NULL =>
         /\ dd[k] \in B /\ Meets(hs, top, hs[dd[k]], uu[k])
         /\ \A s \in Sides : uu[Side(dd[k], s)] = uu[k] \cup {Side(dd[k], s)}
  BY <1>15, <1>16, <1>17, <1>18 DEF B
<1>20. ASSUME NEW n \in B PROVE hs[n] \in Nat /\ \E k \in L : dd[k] = n
  <2>1. CASE n \in N
    <3>1. PICK k \in K : d[k] = n
      BY <1>2, <2>1
    <3>2. k # k0
      BY <1>1, <2>1, <3>1 DEF K
    <3> QED BY <1>2, <1>5, <2>1, <3>1, <3>2 DEF K
  <2>2. CASE n \in M
    <3>1. PICK k \in KM : d[k] = n
      BY <1>4, <2>2
    <3>2. CASE k = T
      BY <1>4, <1>5, <1>7, <2>2, <3>1, <3>2 DEF t
    <3>3. CASE k \in S
      BY <1>4, <1>5, <1>7, <2>2, <3>1, <3>3
    <3> QED BY <1>5, <3>2, <3>3
  <2> QED BY <2>1, <2>2 DEF B
<1>21. ASSUME NEW k \in L, NEW j \in L, dd[k] = dd[j], dd[k] # NULL PROVE k = j
  <2>1. \A n \in M : n \notin N
    OBVIOUS
  <2>2. \A i \in S : dd[i] # NULL => d[i] # t
    BY <1>4, <1>5, <1>7 DEF t
  <2>3. CASE k = k0 \/ j = k0
    BY <1>7, <1>15, <1>16, <1>17, <1>18, <1>21, <2>1, <2>2, <2>3
  <2>4. CASE k \in S /\ j \in S
    BY <1>4, <1>5, <1>17, <1>21, <2>4
  <2>5. CASE k \in K \ {k0} /\ j \in K \ {k0}
    BY <1>2, <1>15, <1>21, <2>5
  <2>6. CASE (k \in S /\ j \in K \ {k0}) \/ (j \in S /\ k \in K \ {k0})
    BY <1>15, <1>17, <1>21, <2>1, <2>6
  <2> QED BY <1>18, <2>3, <2>4, <2>5, <2>6
<1>22. Holds(B, top, dd, hs, uu)
  <2>1. \A n \in B : hs[n] \in Nat /\ \E k \in L : dd[k] = n
    BY <1>20
  <2>2. \A k, j \in L : dd[k] = dd[j] /\ dd[k] # NULL => k = j
    BY <1>21
  <2> HIDE DEF B
  <2> QED BY <1>19, <2>1, <2>2 DEF Holds, L
<1> QED BY <1>6, <1>14, <1>22 DEF Tree, K, B

(* The tree depends on its own links and nodes only. *)
LEMMA TreeSame ==
  ASSUME NEW N, NEW top, NEW d, NEW hs, NEW up, Tree(N, top, d, hs, up),
         NEW dd, \A k \in LinksOf(N, top) : dd[k] = d[k],
         NEW ht, \A n \in N : ht[n] = hs[n]
  PROVE  Tree(N, top, dd, ht, up)
<1> DEFINE K == LinksOf(N, top)
<1>1. Ways(N, top, d, up) /\ \A k \in K : dd[k] = d[k]
  BY DEF Tree
<1>2. \A k \in K : up[k] \subseteq K
  BY <1>1 DEF Ways
<1>3. Ways(N, top, dd, up)
  <2> HIDE DEF K
  <2>1. \A k \in K : \A j \in up[k] : dd[j] = d[j]
    BY <1>1, <1>2
  <2>2. \A k \in K : \A j \in up[k] :
          up[j] \subseteq up[k] /\ (j = k \/ \E s \in Sides : Side(d[j], s) \in up[k])
    BY <1>1 DEF Ways, K
  <2>3. \A k \in K : \A j \in up[k] :
          up[j] \subseteq up[k] /\ (j = k \/ \E s \in Sides : Side(dd[j], s) \in up[k])
    BY <2>1, <2>2
  <2> QED BY <1>1, <2>3 DEF Ways, K
<1>4. /\ \A k \in K : d[k] # NULL =>
           /\ d[k] \in N /\ Meets(hs, top, hs[d[k]], up[k])
           /\ \A s \in Sides : up[Side(d[k], s)] = up[k] \cup {Side(d[k], s)}
      /\ \A n \in N : hs[n] \in Nat /\ \E k \in K : d[k] = n
      /\ \A k, j \in K : d[k] = d[j] /\ d[k] # NULL => k = j
  BY DEF Tree, Holds
<1>5. \A k \in K : \A h : Meets(hs, top, h, up[k]) => Meets(ht, top, h, up[k])
  BY <1>2, MeetsSame
<1>6. Holds(N, top, dd, ht, up)
  <2> HIDE DEF K
  <2>1. \A k \in K : dd[k] # NULL =>
           /\ dd[k] \in N /\ Meets(ht, top, ht[dd[k]], up[k])
           /\ \A s \in Sides : up[Side(dd[k], s)] = up[k] \cup {Side(dd[k], s)}
    BY <1>1, <1>4, <1>5
  <2>2. \A n \in N : ht[n] \in Nat /\ \E k \in K : dd[k] = n
    BY <1>1, <1>4
  <2>3. \A k, j \in K : dd[k] = dd[j] /\ dd[k] # NULL => k = j
    BY <1>1, <1>4
  <2> QED BY <2>1, <2>2, <2>3 DEF Holds, K
<1> QED BY <1>3, <1>6 DEF Tree

(* A tree below a link that holds NULL is empty. *)
LEMMA Bare ==
  ASSUME NEW N, NEW top, NEW d, NEW hs, NEW up, Tree(N, top, d, hs, up), d[top] = NULL
  PROVE  N = {}
<1> SUFFICES ASSUME NEW n \in N PROVE FALSE
  OBVIOUS
<1>1. PICK k \in LinksOf(N, top) : d[k] = n /\ n # NULL
  BY LinkTo
<1>2. top \in up[k]
  BY DEF Tree, Ways
<1> QED BY <1>1, <1>2, Inner

(* A link that holds NULL is a tree. *)
LEMMA Bud ==
  ASSUME NEW top, NEW d, NEW hs, d[top] = NULL, top \notin {Side(NULL, s) : s \in Sides}
  PROVE  \E up : Tree({}, top, d, hs, up) /\ up[top] = {top}
<1> DEFINE up == [k \in {top} |-> {top}]
<1>1. LinksOf({}, top) = {top} /\ up[top] = {top}
  BY DEF LinksOf
<1> HIDE DEF up
<1>2. Tree({}, top, d, hs, up)
  BY <1>1 DEF Tree, Ways, Holds
<1> QED BY <1>1, <1>2

LEMMA LinksFinite ==
  ASSUME NEW N, IsFiniteSet(N), NEW top
  PROVE  IsFiniteSet(LinksOf(N, top))
<1> DEFINE T(s) == {Side(n, s) : n \in N}
<1>1. ASSUME NEW s PROVE IsFiniteSet(T(s))
  <2> DEFINE f == [n \in N |-> Side(n, s)]
  <2>1. f \in Surjection(N, T(s))
    BY DEF Surjection, Range
  <2> HIDE DEF f
  <2> QED BY <2>1, FS_Surjection
<1>2. IsFiniteSet(T("l") \cup T("r"))
  <2>1. IsFiniteSet(T("l")) /\ IsFiniteSet(T("r"))
    BY <1>1
  <2> HIDE DEF T
  <2> QED BY <2>1, FS_Union
<1>3. LinksOf(N, top) = (T("l") \cup T("r")) \cup {top}
  BY DEF LinksOf, Sides
<1> HIDE DEF T
<1> QED BY <1>2, <1>3, FS_AddElement

(* Every node of a tree is reached from its top. *)
LEMMA Reached ==
  ASSUME NEW N, NEW top, NEW d, NEW hs, NEW up, Tree(N, top, d, hs, up), IsFiniteSet(N),
         NEW S, d[top] \in S \cup {NULL}, \A n \in S \cap N, s \in Sides : d[Side(n, s)] \in S \cup {NULL}
  PROVE  N \subseteq S
<1> DEFINE K == LinksOf(N, top)
           W == {up[k] : k \in {j \in K : d[j] \in N \ S}}
           R == StrictSubsetOrdering(K)
<1> SUFFICES ASSUME NEW m \in N, m \notin S PROVE FALSE
  OBVIOUS
<1>1. IsWellFoundedOn(R, FiniteSubsetsOf(K))
  BY FS_StrictSubsetOrderingWellFounded
<1>2. \A k \in K : up[k] \subseteq K /\ top \in up[k]
  BY DEF Tree, Ways
<1>3. IsFiniteSet(K)
  BY LinksFinite
<1>4. \A k \in K : IsFiniteSet(up[k])
  <2> HIDE DEF K
  <2> QED BY <1>2, <1>3, FS_Subset
<1>5. W \subseteq FiniteSubsetsOf(K)
  BY <1>2, <1>4 DEF FiniteSubsetsOf
<1>6. W # {}
  <2>1. PICK k \in K : d[k] = m
    BY LinkTo
  <2> QED BY <2>1
<1>7. PICK U \in W : \A V \in W : ~ (<<V, U>> \in R)
  <2> HIDE DEF W, R, K
  <2> QED BY <1>1, <1>5, <1>6, WFMin
<1>8. PICK k \in K : d[k] \in N \ S /\ U = up[k]
  OBVIOUS
<1>9. NULL \notin N /\ top.of \notin N /\ top \notin {Side(n, s) : n \in N, s \in Sides}
  BY DEF Tree, Ways
<1>10. k # top
  BY <1>8, <1>9
<1>11. PICK a \in N, s \in Sides : k = Side(a, s)
  BY <1>10, LinkCases
<1>12. PICK i \in K : d[i] = a /\ Meets(hs, top, hs[a], up[i]) /\ up[k] = up[i] \cup {k}
  BY <1>11, LinkTo
<1>13. k \notin up[i]
  BY <1>10, <1>11, <1>12, SideFacts DEF Meets
<1>14. a \in S
  <2> SUFFICES ASSUME a \notin S PROVE FALSE
    OBVIOUS
  <2>1. up[i] \in W
    BY <1>12
  <2>2. <<up[i], U>> \in R
    BY <1>2, <1>8, <1>12, <1>13 DEF StrictSubsetOrdering
  <2> QED BY <1>7, <2>1, <2>2
<1> QED BY <1>8, <1>9, <1>11, <1>14

-----------------------------------------------------------------------------
(***************************************************************************)
(* Forests: own[n] is the link below which the node n is.                  *)
(***************************************************************************)
Below(A, own, k) == {n \in A : own[n] = k}

(* Every node of A is in the tree below one of the links P. *)
Forest(A, P, d, hs, own, ups) ==
  /\ \A n \in A : own[n] \in P
  /\ \A k \in P : Tree(Below(A, own, k), k, d, hs, ups[k])

(* The nodes below a link of v are on one side of it, and a node that is   *)
(* below top has them and v on one side.                                   *)
Split(v, A, top, hs, own) ==
  /\ \A n \in A : hs[n] # hs[v]
  /\ \A n \in A, s \in Sides : own[n] = Side(v, s) => (s = "l" <=> hs[n] < hs[v])
  /\ \A n, m \in A : own[n] # top /\ own[m] = top => SameSide(hs[n], hs[v], hs[m])

(* The links below v are not the link to it. *)
LEMMA CutOther ==
  ASSUME NEW N, NEW top, NEW d, NEW hs, NEW up, NEW k0, NEW v, TreeAt(N, top, d, hs, up, k0, v),
         NEW s \in Sides, NEW k \in LinksOf(Under(N, top, d, up, v, s), Side(v, s))
  PROVE  k # k0 /\ k \in LinksOf(N, top)
<1>1. /\ v \in N /\ k0 \in up[k0] /\ Side(v, s) \in LinksOf(N, top) /\ Side(v, s) \notin up[k0]
  BY AtFacts
<1>2. CASE k = Side(v, s)
  BY <1>1, <1>2
<1>3. CASE k # Side(v, s)
  <2>1. PICK n \in Under(N, top, d, up, v, s), x \in Sides : k = Side(n, x)
    BY <1>3, LinkCases
  <2>2. PICK i \in LinksOf(N, top) : d[i] = n /\ Side(v, s) \in up[i] /\ n \in N
    BY DEF Under
  <2>3. up[k] = up[i] \cup {k}
    BY <2>1, <2>2, LinkTo DEF TreeAt
  <2> QED BY <1>1, <2>1, <2>2, <2>3, LinkCases
<1> QED BY <1>2, <1>3

(* Cutting the node v out of the tree, at the link k0. *)
Parts(A, top, d, hs, up, v, dd, own, ups) ==
  /\ \A n \in A : own[n] = top \/ \E s \in Sides : own[n] = Side(v, s) /\ d[Side(v, s)] # NULL
  /\ Tree(Below(A, own, top), top, dd, hs, ups[top]) /\ ups[top] = up
  /\ \A s \in Sides : Tree(Below(A, own, Side(v, s)), Side(v, s), dd, hs, ups[Side(v, s)])
  /\ Split(v, A, top, hs, own)

Unlinks(N, top, d, k0, dd) == dd[k0] = NULL /\ \A k \in LinksOf(N, top) \ {k0} : dd[k] = d[k]

LEMMA Cut ==
  ASSUME NEW N, NEW top, NEW d, NEW hs, NEW up, NEW k0, NEW v, TreeAt(N, top, d, hs, up, k0, v),
         NEW dd, Unlinks(N, top, d, k0, dd)
  PROVE  \E own, ups : Parts(N \ {v}, top, d, hs, up, v, dd, own, ups)
<1> USE DEF Unlinks
<1> DEFINE R == Rest(N, top, d, up, k0)
           U(s) == Under(N, top, d, up, v, s)
           l == Side(v, "l")
           r == Side(v, "r")
           own == [n \in N |-> IF n \in R THEN top ELSE IF n \in U("l") THEN l ELSE r]
<1>1. /\ v \in N /\ Tree(N, top, d, hs, up) /\ top \notin {l, r} /\ l # r
      /\ \A s \in Sides : s = "l" \/ s = "r"
      /\ "l" \in Sides /\ "r" \in Sides
  <2>1. v \in N
    BY AtFacts
  <2>2. Tree(N, top, d, hs, up)
    BY DEF TreeAt
  <2> QED BY <2>1, <2>2, SideFacts DEF Tree, Ways, Sides
<1>2. /\ \A n \in N : n = v \/ n \in R \/ n \in U("l") \/ n \in U("r")
      /\ v \notin R /\ v \notin U("l") /\ v \notin U("r")
      /\ \A n \in U("l") : n \notin R /\ n \notin U("r") /\ n \in N
      /\ \A n \in U("r") : n \notin R /\ n \in N
      /\ R \subseteq N
  <2>1. R \subseteq N /\ \A s \in Sides : U(s) \subseteq N
    BY DEF Rest, Under
  <2>2. \A n \in N : n = v \/ n \in R \/ \E s \in Sides : n \in U(s)
    BY CutNodes
  <2>3. v \notin R /\ \A s \in Sides : v \notin U(s)
    BY CutNodes
  <2>4. \A s \in Sides : \A n \in U(s) : n \notin R
    BY CutNodes
  <2>5. \A s, t \in Sides : \A n \in U(s) : n \in U(t) => s = t
    BY CutNodes
  <2> HIDE DEF U, R
  <2> QED BY <1>1, <2>1, <2>2, <2>3, <2>4, <2>5
<1>3. Tree(R, top, dd, hs, up)
  BY CutRest
<1>4. \A s \in Sides : \E us : Tree(U(s), Side(v, s), dd, hs, us)
  <2> TAKE s \in Sides
  <2>1. PICK us : Tree(U(s), Side(v, s), d, hs, us)
    BY CutUnder
  <2>2. \A k \in LinksOf(U(s), Side(v, s)) : dd[k] = d[k]
    BY CutOther
  <2> HIDE DEF U
  <2> QED BY <2>1, <2>2, TreeSame
<1>5. PICK ul : Tree(U("l"), l, dd, hs, ul)
  <2> HIDE DEF U
  <2> QED BY <1>1, <1>4
<1>6. PICK ur : Tree(U("r"), r, dd, hs, ur)
  <2> HIDE DEF U
  <2> QED BY <1>1, <1>4
<1>7. /\ \A s \in Sides : \A n \in U(s) : hs[n] # hs[v] /\ (s = "l" <=> hs[n] < hs[v])
      /\ \A s \in Sides : \A n \in U(s) : \A m \in R : SameSide(hs[n], hs[v], hs[m])
  BY CutApart
<1>8. \A s \in Sides : d[Side(v, s)] = NULL => U(s) = {}
  <2> TAKE s \in Sides
  <2>1. PICK us : Tree(U(s), Side(v, s), d, hs, us)
    BY CutUnder
  <2> HIDE DEF U
  <2> QED BY <2>1, Bare
<1>9. \A n \in N : n # v => hs[n] # hs[v]
  BY <1>1, Distinct
<1> DEFINE ups == [k \in {top, l, r} |-> IF k = top THEN up ELSE IF k = l THEN ul ELSE ur]
           A == N \ {v}
<1> HIDE DEF U, R
<1>10. ups[top] = up /\ ups[l] = ul /\ ups[r] = ur
  BY <1>1
<1>11. /\ \A n \in R : own[n] = top
       /\ \A n \in U("l") : own[n] = l
       /\ \A n \in U("r") : own[n] = r
  BY <1>2
<1> HIDE DEF own, ups
<1>12. Below(A, own, top) = R /\ Below(A, own, l) = U("l") /\ Below(A, own, r) = U("r")
  <2> HIDE DEF l, r
  <2> QED BY <1>1, <1>2, <1>11 DEF Below
<1>13. \A n \in A : own[n] = top \/ \E s \in Sides : own[n] = Side(v, s) /\ d[Side(v, s)] # NULL
  <2>1. \A n \in U("l") : d[l] # NULL
    BY <1>1, <1>8
  <2>2. \A n \in U("r") : d[r] # NULL
    BY <1>1, <1>8
  <2> QED BY <1>1, <1>2, <1>11, <2>1, <2>2
<1>14. \A s \in Sides : Tree(Below(A, own, Side(v, s)), Side(v, s), dd, hs, ups[Side(v, s)])
  BY <1>1, <1>5, <1>6, <1>10, <1>12
<1>15. Split(v, A, top, hs, own)
  <2>1. \A n \in A : hs[n] # hs[v]
    BY <1>9
  <2>2. ASSUME NEW n \in A, NEW s \in Sides, own[n] = Side(v, s) PROVE s = "l" <=> hs[n] < hs[v]
    <3>1. n \in U(s)
      <4>1. n \in Below(A, own, Side(v, s))
        BY <2>2 DEF Below
      <4> QED BY <1>1, <1>12, <4>1
    <3> QED BY <1>7, <3>1
  <2>3. ASSUME NEW n \in A, NEW m \in A, own[n] # top, own[m] = top PROVE SameSide(hs[n], hs[v], hs[m])
    <3>1. m \in R
      BY <1>12, <2>3 DEF Below
    <3>2. n \in U("l") \/ n \in U("r")
      BY <1>2, <1>11, <2>3
    <3> QED BY <1>1, <1>7, <3>1, <3>2
  <2> QED BY <2>1, <2>2, <2>3 DEF Split
<1>16. Parts(A, top, d, hs, up, v, dd, own, ups)
  <2> HIDE DEF A
  <2> QED BY <1>3, <1>10, <1>12, <1>13, <1>14, <1>15 DEF Parts
<1> QED BY <1>16

(* Hanging the tree below the link T into the tree below top, at k0. *)
Handed(A, own, T, top) == [n \in A |-> IF own[n] = T THEN top ELSE own[n]]

(* The trees below the links P are as they were. *)
Left(A, P, own, d, dd) == \A k \in P : \A j \in LinksOf(Below(A, own, k), k) : dd[j] = d[j]

LEMMA Hang ==
  ASSUME NEW A, NEW P, NEW d, NEW hs, NEW own, NEW ups, Forest(A, P, d, hs, own, ups),
         NEW top \in P, NEW T \in P, T # top,
         NEW k0, NEW dd, Hung(Below(A, own, top), top, d, hs, ups[top], k0, Below(A, own, T), T, dd),
         Left(A, P \ {top, T}, own, d, dd)
  PROVE  \E us : Forest(A, P \ {T}, dd, hs, Handed(A, own, T, top), us)
<1> USE DEF Left, Handed
<1> DEFINE N == Below(A, own, top)
           M == Below(A, own, T)
           on == Handed(A, own, T, top)
<1>1. Tree(N, top, d, hs, ups[top]) /\ Tree(M, T, d, hs, ups[T])
  BY DEF Forest
<1>2. PICK uu : Tree(N \cup M, top, dd, hs, uu)
  <2>1. Hung(N, top, d, hs, ups[top], k0, M, T, dd)
    OBVIOUS
  <2> HIDE DEF N, M
  <2> QED BY <1>1, <2>1, Graft
<1> DEFINE us == [k \in P |-> IF k = top THEN uu ELSE ups[k]]
<1>3. Below(A, on, top) = N \cup M
  BY DEF Below
<1>4. \A k \in P \ {top, T} : Below(A, on, k) = Below(A, own, k)
  BY DEF Below
<1>5. \A n \in A : on[n] \in P \ {T}
  BY DEF Forest
<1>6. us[top] = uu /\ \A k \in P \ {top, T} : us[k] = ups[k]
  OBVIOUS
<1> HIDE DEF N, M, us
<1>7. ASSUME NEW k \in P \ {T} PROVE Tree(Below(A, on, k), k, dd, hs, us[k])
  <2>1. CASE k = top
    BY <1>2, <1>3, <1>6, <2>1
  <2>2. CASE k # top
    <3>1. Tree(Below(A, own, k), k, d, hs, ups[k])
      BY DEF Forest
    <3>2. \A j \in LinksOf(Below(A, own, k), k) : dd[j] = d[j]
      BY <2>2
    <3>3. Tree(Below(A, own, k), k, dd, hs, ups[k])
      BY <3>1, <3>2, TreeSame
    <3> QED BY <1>4, <1>6, <2>2, <3>3
  <2> QED BY <2>1, <2>2
<1> QED BY <1>5, <1>7 DEF Forest

(* The search for one node of the tree hung in is the search for all. *)
LEMMA SameWay ==
  ASSUME NEW A, NEW hs, NEW own, NEW top, NEW v, NEW s \in Sides, Split(v, A, top, hs, own),
         Side(v, s) # top, \A n \in A : hs[n] \in Nat, hs[v] \in Nat,
         NEW x \in A, NEW y \in A, own[x] = Side(v, s), own[y] = Side(v, s),
         NEW U, U \subseteq LinksOf(Below(A, own, top), top), Meets(hs, top, hs[x], U)
  PROVE  Meets(hs, top, hs[y], U)
<1> SUFFICES ASSUME NEW j \in U \ {top}
             PROVE  hs[y] # hs[j.of] /\ (j.side = "l" <=> hs[y] < hs[j.of])
  BY DEF Meets
<1>1. j.of \in A /\ own[j.of] = top
  <2>1. PICK m \in Below(A, own, top), t \in Sides : j = Side(m, t)
    BY LinkCases
  <2> QED BY <2>1, SideFacts DEF Below
<1>2. SameSide(hs[x], hs[v], hs[j.of]) /\ SameSide(hs[y], hs[v], hs[j.of])
  BY <1>1 DEF Split
<1>3. hs[x] # hs[j.of] /\ (j.side = "l" <=> hs[x] < hs[j.of])
  BY DEF Meets
<1> QED BY <1>2, <1>3 DEF SameSide

(* The nodes hung in lie on the side of v they were on. *)
LEMMA SplitHung ==
  ASSUME NEW A, NEW hs, NEW own, NEW top, NEW v, NEW s \in Sides, Split(v, A, top, hs, own),
         \A t \in Sides : Side(v, t) # top,
         \A n \in A : hs[n] \in Nat /\ (own[n] = top \/ \E t \in Sides : own[n] = Side(v, t)), hs[v] \in Nat,
         NEW on, on = Handed(A, own, Side(v, s), top)
  PROVE  Split(v, A, top, hs, on)
<1> USE DEF Handed
<1>1. \A n \in A : hs[n] # hs[v]
  BY DEF Split
<1>2. ASSUME NEW n \in A, NEW t \in Sides, on[n] = Side(v, t) PROVE t = "l" <=> hs[n] < hs[v]
  <2>1. own[n] = Side(v, t)
    BY <1>2
  <2> QED BY <2>1 DEF Split
<1>3. ASSUME NEW n \in A, NEW m \in A, on[n] # top, on[m] = top PROVE SameSide(hs[n], hs[v], hs[m])
  <2>1. own[n] # top /\ own[n] # Side(v, s) /\ (own[m] = top \/ own[m] = Side(v, s))
    BY <1>3
  <2>2. CASE own[m] = top
    BY <2>1, <2>2 DEF Split
  <2>3. CASE own[m] = Side(v, s)
    <3>1. PICK t \in Sides : own[n] = Side(v, t)
      BY <2>1
    <3>2. t # s
      BY <2>1, <3>1
    <3>3. (t = "l" <=> hs[n] < hs[v]) /\ (s = "l" <=> hs[m] < hs[v])
      BY <2>3, <3>1 DEF Split
    <3>4. hs[n] # hs[v] /\ hs[m] # hs[v] /\ hs[n] \in Nat /\ hs[m] \in Nat /\ hs[v] \in Nat
      BY <1>1
    <3>5. \/ hs[n] < hs[v] /\ hs[v] < hs[m]
          \/ hs[m] < hs[v] /\ hs[v] < hs[n]
      BY <3>2, <3>3, <3>4 DEF Sides
    <3> QED BY <3>4, <3>5 DEF SameSide
  <2> QED BY <2>1, <2>2, <2>3
<1> QED BY <1>1, <1>2, <1>3 DEF Split

(* Taking the node v from the top of a tree leaves the two trees under it. *)
LEMMA Open ==
  ASSUME NEW A, NEW P, NEW d, NEW hs, NEW own, NEW ups, Forest(A, P, d, hs, own, ups),
         NEW top \in P, NEW v, d[top] = v, v # NULL, \A k \in P : k.of \notin A
  PROVE  /\ v \in A
         /\ \E on, us : Forest(A \ {v}, (P \ {top}) \cup {Side(v, "l"), Side(v, "r")}, d, hs, on, us)
<1> DEFINE N == Below(A, own, top)
           up == ups[top]
           U(s) == Under(N, top, d, up, v, s)
           l == Side(v, "l")
           r == Side(v, "r")
           on == [n \in A |-> IF own[n] # top THEN own[n] ELSE IF n \in U("l") THEN l ELSE r]
<1>1. Tree(N, top, d, hs, up) /\ \A n \in A : own[n] \in P
  BY DEF Forest
<1>2. v \in N /\ TreeAt(N, top, d, hs, up, top, v)
  BY <1>1, LinkCases DEF TreeAt, Tree, Holds
<1>3. v \in A /\ own[v] = top /\ \A n \in N : n \in A /\ own[n] = top
  BY <1>2 DEF Below
<1>4. l # r /\ l \notin P /\ r \notin P /\ "l" \in Sides /\ "r" \in Sides /\ \A s \in Sides : s = "l" \/ s = "r"
  BY <1>3, SideFacts DEF Sides
<1>5. Rest(N, top, d, up, top) = {}
  BY <1>1 DEF Rest, Tree, Ways
<1>6. /\ \A n \in N : n = v \/ n \in U("l") \/ n \in U("r")
      /\ v \notin U("l") /\ v \notin U("r")
      /\ \A n \in U("l") : n \notin U("r")
      /\ U("l") \subseteq N /\ U("r") \subseteq N
  <2>1. \A s \in Sides : U(s) \subseteq N
    BY DEF Under
  <2>2. \A n \in N : n = v \/ \E s \in Sides : n \in U(s)
    BY <1>2, <1>5, CutNodes
  <2>3. \A s \in Sides : v \notin U(s)
    BY <1>2, CutNodes
  <2>4. \A s, t \in Sides : \A n \in U(s) : n \in U(t) => s = t
    BY <1>2, CutNodes
  <2> HIDE DEF U, N
  <2> QED BY <1>4, <2>1, <2>2, <2>3, <2>4
<1>7. PICK ul : Tree(U("l"), l, d, hs, ul)
  BY <1>2, <1>4, CutUnder
<1>8. PICK ur : Tree(U("r"), r, d, hs, ur)
  BY <1>2, <1>4, CutUnder
<1> DEFINE B == A \ {v}
           us == [k \in P \cup {l, r} |-> IF k = l THEN ul ELSE IF k = r THEN ur ELSE ups[k]]
<1>9. us[l] = ul /\ us[r] = ur /\ \A k \in P : us[k] = ups[k]
  BY <1>4
<1> HIDE DEF U, us, l, r
<1>10. /\ \A n \in A : own[n] # top => on[n] = own[n]
       /\ \A n \in U("l") : on[n] = l
       /\ \A n \in U("r") : on[n] = r
  BY <1>3, <1>6
<1> HIDE DEF on
<1>11. Below(B, on, l) = U("l") /\ Below(B, on, r) = U("r")
  <2>1. \A n \in B : own[n] = top => n \in U("l") \/ n \in U("r")
    BY <1>6 DEF Below
  <2>2. \A n \in B : own[n] # top => on[n] # l /\ on[n] # r
    BY <1>1, <1>4, <1>10
  <2>3. U("l") \subseteq B /\ U("r") \subseteq B
    BY <1>3, <1>6
  <2> QED BY <1>4, <1>10, <2>1, <2>2, <2>3 DEF Below
<1>12. \A k \in P \ {top} : Below(B, on, k) = Below(A, own, k)
  <2>1. \A n \in B : own[n] = top => on[n] = l \/ on[n] = r
    BY <1>6, <1>10 DEF Below
  <2> QED BY <1>3, <1>4, <1>10, <2>1 DEF Below
<1>13. \A n \in B : on[n] \in (P \ {top}) \cup {l, r}
  <2>1. \A n \in B : own[n] = top => on[n] = l \/ on[n] = r
    BY <1>6, <1>10 DEF Below
  <2> QED BY <1>1, <1>10, <2>1
<1>14. ASSUME NEW k \in (P \ {top}) \cup {l, r} PROVE Tree(Below(B, on, k), k, d, hs, us[k])
  <2>1. CASE k \in P \ {top}
    <3>1. Tree(Below(A, own, k), k, d, hs, ups[k])
      BY <2>1 DEF Forest
    <3> QED BY <1>9, <1>12, <2>1, <3>1
  <2>2. CASE k \in {l, r}
    BY <1>7, <1>8, <1>9, <1>11, <2>2
  <2> QED BY <2>1, <2>2
<1>15. Forest(B, (P \ {top}) \cup {l, r}, d, hs, on, us)
  <2> HIDE DEF B
  <2> QED BY <1>13, <1>14 DEF Forest
<1> QED BY <1>3, <1>15 DEF l, r

(* A link that holds NULL has nothing below it. *)
LEMMA Shut ==
  ASSUME NEW A, NEW P, NEW d, NEW hs, NEW own, NEW ups, Forest(A, P, d, hs, own, ups),
         NEW top \in P, d[top] = NULL
  PROVE  Forest(A, P \ {top}, d, hs, own, ups)
<1>1. Below(A, own, top) = {}
  BY Bare DEF Forest
<1> QED BY <1>1 DEF Forest, Below

-----------------------------------------------------------------------------
(***************************************************************************)
(* The map.                                                                *)
(***************************************************************************)
Alloc == DOMAIN nodes
D  == [k \in Links |-> Deref(k)]
Hs == [n \in Alloc |-> nodes[n].hash]

-----------------------------------------------------------------------------
(* The invariant.  While a key is sought all the nodes are one tree, and   *)
(* its search from the root comes to the link reached.                     *)
Searching == call.op \in {"set", "get", "del", "del_all"}

Stands ==
  call.op = "none" \/ Searching =>
    /\ \A n \in Alloc : nodes[n].held
    /\ \E up : /\ Tree(Alloc, Root, D, Hs, up)
               /\ Searching => at \in LinksOf(Alloc, Root) /\ Meets(Hs, Root, call.hash, up[at])

(* While the subtrees of a node that was unlinked are hung back in, each   *)
(* still to hang is a tree of its own.  Its nodes are on one side of the   *)
(* victim, and a node of the main tree has them and the victim on one side.*)
Moving == call.op \in {"release", "add"}
Orders == {<<>>, <<"l">>, <<"r">>, <<"l", "r">>}
Among(q) == {q[i] : i \in 1..Len(q)}
Pending == Among(call.sides)
Others == Alloc \ {call.victim}
Tops == {Root} \cup {Side(call.victim, s) : s \in Pending}

Reaches(v, A, own, ups) ==
  /\ \A s \in Pending : D[Side(v, s)] # NULL
  /\ call.sides # <<>> =>
       /\ at \in LinksOf(Below(A, own, Root), Root)
       /\ Meets(Hs, Root, Hs[D[Side(v, Head(call.sides))]], ups[Root][at])

Mends ==
  Moving =>
    /\ call.victim \in Alloc
    /\ \A n \in Others : nodes[n].held
    /\ call.op = "release" => nodes[call.victim].held
    /\ call.sides \in Orders
    /\ \E own, ups : /\ Forest(Others, Tops, D, Hs, own, ups)
                     /\ Split(call.victim, Others, Root, Hs, own)
                     /\ Reaches(call.victim, Others, own, ups)

(* While the tree is freed, the nodes not yet visited are trees below the  *)
(* links that the functions on the stack have still to visit, and the keys *)
(* given back are those of the nodes on the stack that did it.             *)
Entry == [node : Addr, next : {"l", "r", "free"}]
Unique(q) == \A i, j \in 1..Len(q) : q[i].node = q[j].node => i = j

Stack == {e.node : e \in Among(todo)}
Owed == {Side(e.node, "l") : e \in {f \in Among(todo) : f.next = "l"}}
        \cup {Side(e.node, "r") : e \in {f \in Among(todo) : f.next # "free"}}

Falls ==
  Freeing =>
    /\ Stack \subseteq Alloc /\ Unique(todo)
    /\ call.op = "free_fn" =>
         /\ \A n \in Alloc \ Stack : nodes[n].held
         /\ \A e \in Among(todo) : nodes[e.node].held <=> e.next = "l"
    /\ \E own, ups : Forest(Alloc \ Stack, Owed, D, Hs, own, ups)

Typed == StrmapTypeOK /\ nodes \in [Alloc -> Node] /\ todo \in Seq(Entry)

StrmapInv == Typed /\ Stands /\ Mends /\ Falls /\ misuse = FALSE

-----------------------------------------------------------------------------
(* What the links hold. *)
LinksRead ==
  /\ Links = LinksOf(Alloc, Root)
  /\ D[Root] = root
  /\ \A n \in Alloc, s \in Sides : D[Side(n, s)] = nodes[n][s]
  /\ \A k \in Links : D[k] = Deref(k)
  /\ \A n \in Alloc : nodes[n] \in Node /\ Hs[n] = nodes[n].hash /\ Hs[n] \in Hash /\ Hs[n] \in Nat
  /\ NULL \notin Alloc /\ IsFiniteSet(Alloc) /\ Alloc \subseteq Addr
  /\ Root.of = NULL /\ Root.side = "root" /\ \A n, s : s \in Sides => Side(n, s) # Root

LEMMA LinkFacts == Typed => LinksRead
<1> SUFFICES ASSUME Typed PROVE LinksRead
  OBVIOUS
<1>1. Links = LinksOf(Alloc, Root)
  BY DEF Links, LinksOf, Sides, Alloc
<1>2. Root.of = NULL /\ Root.side = "root" /\ \A n, s : s \in Sides => Side(n, s) # Root
  BY SideFacts DEF Root, Sides, Side
<1>3. \A k \in Links : D[k] = Deref(k)
  BY DEF D
<1>4. Root \in Links /\ \A n \in Alloc, s \in Sides : Side(n, s) \in Links
  BY <1>1, LinkCases
<1>5. D[Root] = root
  BY <1>2, <1>3, <1>4 DEF Deref
<1>6. ASSUME NEW n \in Alloc, NEW s \in Sides PROVE D[Side(n, s)] = nodes[n][s]
  <2>1. Side(n, s).side # "root"
    BY SideFacts DEF Sides
  <2> QED BY <1>3, <1>4, <2>1, SideFacts DEF Deref
<1>7. Alloc \subseteq Addr /\ MaxNodes \in Nat
  BY StrmapAssumption DEF Typed, StrmapTypeOK, Alloc
<1>8. NULL \notin Alloc /\ IsFiniteSet(Alloc)
  <2>1. IsFiniteSet(1..MaxNodes)
    BY <1>7, FS_Interval
  <2>2. IsFiniteSet(Alloc)
    BY <1>7, <2>1, FS_Subset DEF Addr
  <2> QED BY <1>7, <2>2 DEF Addr, NULL
<1>9. ASSUME NEW n \in Alloc
      PROVE  nodes[n] \in Node /\ Hs[n] = nodes[n].hash /\ Hs[n] \in Hash /\ Hs[n] \in Nat
  <2>1. nodes[n] \in Node
    BY DEF Typed
  <2>2. nodes[n].hash \in Hash
    BY <2>1 DEF Node
  <2> QED BY <2>1, <2>2, StrmapAssumption DEF Hs
<1> QED BY <1>1, <1>2, <1>3, <1>4, <1>5, <1>6, <1>7, <1>8, <1>9 DEF LinksRead

LEMMA LinkFactsNext == Typed' => LinksRead'
<1>1. (Typed => LinksRead)'
  BY LinkFacts, PTL
<1> QED BY <1>1

LEMMA Kept ==
  ASSUME UNCHANGED <<nodes, root>>
  PROVE  Alloc' = Alloc /\ D' = D /\ Hs' = Hs /\ Links' = Links /\ (Typed => nodes' \in [Alloc' -> Node])
<1>1. Alloc' = Alloc /\ Links' = Links
  BY DEF Alloc, Links
<1>2. D' = D /\ Hs' = Hs
  BY <1>1 DEF D, Hs, Deref
<1> QED BY <1>1, <1>2 DEF Typed

(* A link written. *)
LEMMA Stored ==
  ASSUME Typed, NEW k \in Links, NEW n \in Alloc \cup {NULL}, Store(k, n)
  PROVE  /\ Alloc' = Alloc /\ Hs' = Hs /\ Links' = Links
         /\ D'[k] = n /\ \A j \in Links \ {k} : D'[j] = D[j]
         /\ nodes' \in [Alloc' -> Node] /\ root' \in Alloc \cup {NULL, root}
         /\ \A m \in Alloc : /\ nodes'[m].held = nodes[m].held /\ nodes'[m].hash = nodes[m].hash
                            /\ nodes'[m].val = nodes[m].val
<1> USE LinkFacts DEF LinksRead
<1>1. n \in Addr \cup {NULL}
  OBVIOUS
<1>2. CASE k = Root
  <2>1. root' = n /\ nodes' = nodes
    BY <1>2 DEF Store
  <2>2. Alloc' = Alloc /\ Hs' = Hs /\ Links' = Links
    BY <2>1 DEF Alloc, Links, Hs
  <2>3. D'[k] = n
    BY <1>2, <2>1, <2>2 DEF D, Deref
  <2>4. ASSUME NEW j \in Links \ {k} PROVE D'[j] = D[j]
    <3>1. PICK m \in Alloc, s \in Sides : j = Side(m, s)
      BY <1>2, LinkCases
    <3>2. j.side # "root"
      BY <3>1, SideFacts DEF Sides
    <3> QED BY <2>1, <2>2, <3>2 DEF D, Deref
  <2> QED BY <2>1, <2>2, <2>3, <2>4 DEF Typed
<1>3. CASE k # Root
  <2>1. PICK a \in Alloc, x \in Sides : k = Side(a, x)
    BY <1>3, LinkCases
  <2>2. k.side = x /\ k.of = a /\ x # "root"
    BY <2>1, SideFacts DEF Sides
  <2>3. nodes' = [nodes EXCEPT ![a][x] = n] /\ root' = root
    BY <2>2 DEF Store
  <2>4. nodes \in [Alloc -> Node]
    BY DEF Typed
  <2>5. nodes' \in [Alloc -> Node]
    <3>1. [nodes[a] EXCEPT ![x] = n] \in Node
      <4>1. CASE x = "l"
        BY <1>1, <4>1 DEF Node
      <4>2. CASE x = "r"
        BY <1>1, <4>2 DEF Node
      <4> QED BY <4>1, <4>2 DEF Sides
    <3> QED BY <2>3, <2>4, <3>1
  <2>6. Alloc' = Alloc /\ Links' = Links
    BY <2>3, <2>4 DEF Alloc, Links
  <2>7. \A m \in Alloc : /\ nodes'[m].held = nodes[m].held /\ nodes'[m].hash = nodes[m].hash
                         /\ nodes'[m].val = nodes[m].val
    <3> SUFFICES ASSUME NEW m \in Alloc
                 PROVE  /\ nodes'[m].held = nodes[m].held /\ nodes'[m].hash = nodes[m].hash
                        /\ nodes'[m].val = nodes[m].val
      OBVIOUS
    <3>1. CASE m # a
      BY <2>3, <2>4, <3>1
    <3>2. CASE m = a
      <4>1. nodes'[m] = [nodes[a] EXCEPT ![x] = n] /\ nodes[a] \in Node
        BY <2>3, <2>4, <3>2
      <4>2. CASE x = "l"
        BY <3>2, <4>1, <4>2 DEF Node
      <4>3. CASE x = "r"
        BY <3>2, <4>1, <4>3 DEF Node
      <4> QED BY <4>2, <4>3 DEF Sides
    <3> QED BY <3>1, <3>2
  <2>8. Hs' = Hs
    BY <2>6, <2>7 DEF Hs
  <2>9. ASSUME NEW j \in Links PROVE D'[j] = IF j = k THEN n ELSE D[j]
    <3>1. D'[j] = Deref(j)'
      BY <2>6 DEF D
    <3>2. CASE j = Root
      BY <1>3, <2>3, <3>1, <3>2 DEF Deref
    <3>3. CASE j # Root
      <4>1. PICK b \in Alloc, y \in Sides : j = Side(b, y)
        BY <3>3, LinkCases
      <4>2. j.side = y /\ j.of = b /\ y # "root"
        BY <4>1, SideFacts DEF Sides
      <4>3. D'[j] = nodes'[b][y] /\ D[j] = nodes[b][y]
        BY <3>1, <4>1, <4>2 DEF Deref
      <4>4. CASE b # a
        BY <2>1, <2>3, <2>4, <4>1, <4>3, <4>4, SideFacts
      <4>5. CASE b = a
        <5>1. nodes'[b] = [nodes[a] EXCEPT ![x] = n] /\ nodes[a] \in Node
          BY <2>3, <2>4, <4>5
        <5>2. nodes'[b][y] = IF y = x THEN n ELSE nodes[a][y]
          BY <5>1 DEF Node, Sides
        <5> QED BY <2>1, <4>1, <4>3, <4>5, <5>2, SideFacts
      <4> QED BY <4>4, <4>5
    <3> QED BY <3>2, <3>3
  <2> QED BY <2>3, <2>5, <2>6, <2>7, <2>8, <2>9
<1> QED BY <1>2, <1>3

-----------------------------------------------------------------------------
(* Calls and links have their types. *)
CallsRead ==
  /\ call.op = "none" => call = Idle
  /\ Searching => call \in Requests /\ call.hash \in Hash
  /\ call.op = "set" => call.val \in Val
  /\ Moving => call.victim \in Addr /\ call.sides \in Seq({"l", "r"})
               /\ call \in [op : {"release", "add"}, victim : Addr, sides : Seq({"l", "r"})]
  /\ \/ call.op = "none" /\ ~ Searching /\ ~ Moving /\ ~ Freeing
     \/ Searching /\ call.op # "none" /\ ~ Moving /\ ~ Freeing
     \/ Moving /\ call.op # "none" /\ ~ Searching /\ ~ Freeing
     \/ Freeing /\ call.op # "none" /\ ~ Searching /\ ~ Moving /\ call \in Frees

LEMMA CallFacts == Typed => CallsRead
<1> SUFFICES ASSUME Typed PROVE CallsRead
  OBVIOUS
<1>1. call \in Requests \cup Frees \cup {Idle}
             \cup [op : {"release", "add"}, victim : Addr, sides : Seq({"l", "r"})]
  BY DEF Typed, StrmapTypeOK
<1> DEFINE Q == Seq({"l", "r"})
<1> HIDE DEF Q
<1>2. CASE call \in Requests
  BY <1>2 DEF Requests, CallsRead, Searching, Moving, Freeing
<1>3. CASE call \in Frees
  BY <1>3 DEF Frees, CallsRead, Searching, Moving, Freeing
<1>4. CASE call = Idle
  BY <1>4 DEF Idle, CallsRead, Searching, Moving, Freeing
<1>5. CASE call \in [op : {"release", "add"}, victim : Addr, sides : Q]
  BY <1>5 DEF CallsRead, Searching, Moving, Freeing, Q
<1> QED BY <1>1, <1>2, <1>3, <1>4, <1>5 DEF Q

LEMMA CallFactsNext == Typed' => CallsRead'
<1>1. (Typed => CallsRead)'
  BY CallFacts, PTL
<1> QED BY <1>1

LEMMA LinkTyped ==
  ASSUME NEW N, N \subseteq Addr
  PROVE  LinksOf(N, Root) \subseteq Link
BY DEF LinksOf, Sides, Root, Side, Link, NULL

(* A step that searches on, or comes back with nothing changed in the tree. *)
LEMMA SearchStep ==
  ASSUME StrmapInv, UNCHANGED <<nodes, root, todo, misuse>>, call.op = "none" \/ Searching,
         call' \in Requests \cup {Idle}, result' \in Val \cup {NoVal},
         \A up : Tree(Alloc, Root, D, Hs, up)
                 /\ (Searching => at \in LinksOf(Alloc, Root) /\ Meets(Hs, Root, call.hash, up[at]))
                 => /\ at' \in LinksOf(Alloc, Root)
                    /\ call'.op # "none" => Meets(Hs, Root, call'.hash, up[at'])
  PROVE  StrmapInv'
<1>1. Typed /\ Stands /\ misuse = FALSE
  BY DEF StrmapInv
<1>2. LinksRead /\ CallsRead
  BY <1>1, LinkFacts, CallFacts
<1>3. Alloc' = Alloc /\ D' = D /\ Hs' = Hs /\ Links' = Links /\ nodes' \in [Alloc' -> Node]
  BY <1>1, Kept
<1>4. /\ \A n \in Alloc : nodes[n].held
      /\ \E up : /\ Tree(Alloc, Root, D, Hs, up)
                 /\ Searching => at \in LinksOf(Alloc, Root) /\ Meets(Hs, Root, call.hash, up[at])
  BY <1>1 DEF Stands
<1>5. PICK up : /\ Tree(Alloc, Root, D, Hs, up)
                /\ Searching => at \in LinksOf(Alloc, Root) /\ Meets(Hs, Root, call.hash, up[at])
  BY <1>4
<1>6. at' \in LinksOf(Alloc, Root) /\ (call'.op # "none" => Meets(Hs, Root, call'.hash, up[at']))
  BY <1>5
<1>7. at' \in Link
  BY <1>2, <1>6, LinkTyped DEF LinksRead
<1>8. Typed'
  BY <1>1, <1>3, <1>7 DEF Typed, StrmapTypeOK, Alloc
<1>9. call'.op # "none" => call' \in Requests
  BY DEF Idle
<1>10. ~ Moving' /\ ~ Freeing' /\ (Searching' => call'.op # "none")
  BY DEF Requests, Idle, Moving, Freeing, Searching
<1>11. Stands'
  BY <1>3, <1>4, <1>5, <1>6, <1>10 DEF Stands
<1>12. Mends' /\ Falls'
  BY <1>10 DEF Mends, Falls
<1> QED BY <1>1, <1>8, <1>11, <1>12 DEF StrmapInv

LEMMA BeginOK == StrmapInv /\ Begin => StrmapInv'
<1> SUFFICES ASSUME StrmapInv, Begin PROVE StrmapInv'
  OBVIOUS
<1>1. UNCHANGED <<nodes, root, todo, misuse, result>> /\ call.op = "none" /\ call' \in Requests /\ at' = Root
  BY DEF Begin, Idle
<1>2. result' \in Val \cup {NoVal}
  BY <1>1 DEF StrmapInv, Typed, StrmapTypeOK
<1>3. ASSUME NEW up, Tree(Alloc, Root, D, Hs, up)
      PROVE  at' \in LinksOf(Alloc, Root) /\ (call'.op # "none" => Meets(Hs, Root, call'.hash, up[at']))
  <2>1. up[Root] = {Root}
    BY <1>3 DEF Tree, Ways
  <2> QED BY <1>1, <2>1, LinkCases DEF Meets
<1> QED BY <1>1, <1>2, <1>3, SearchStep

(* GetEnds and DelNone *)
LEMMA BackOK ==
  ASSUME StrmapInv, Searching, UNCHANGED <<nodes, root, todo, misuse>>, call' = Idle, at' = Root,
         result' \in Val \cup {NoVal}
  PROVE  StrmapInv'
<1>1. Root \in LinksOf(Alloc, Root) /\ call'.op = "none"
  BY LinkCases DEF Idle
<1> QED BY <1>1, SearchStep

(* Where a search has come to. *)
LEMMA Reach ==
  ASSUME StrmapInv, Searching
  PROVE  /\ at \in Links /\ D[at] = Deref(at)
         /\ D[at] # NULL => D[at] \in Alloc /\ Hs[D[at]] = nodes[D[at]].hash
<1>1. LinksRead /\ Stands
  BY LinkFacts DEF StrmapInv
<1>2. PICK up : Tree(Alloc, Root, D, Hs, up) /\ at \in LinksOf(Alloc, Root)
  BY <1>1 DEF Stands
<1>3. D[at] # NULL => D[at] \in Alloc
  BY <1>2 DEF Tree, Holds
<1> QED BY <1>1, <1>2, <1>3 DEF LinksRead

(* SetBelow, GetBelow and DelBelow *)
LEMMA BelowOK ==
  ASSUME StrmapInv, Searching, NotThere, Descend(call.hash)
  PROVE  StrmapInv'
<1> DEFINE n == D[at]
           s == Lower(call.hash)
<1>1. LinksRead /\ CallsRead
  BY LinkFacts, CallFacts DEF StrmapInv
<1>2. at \in Links /\ n = Deref(at) /\ n # NULL /\ n \in Alloc /\ Hs[n] = nodes[n].hash /\ Hs[n] # call.hash
  BY Reach DEF NotThere
<1>3. at' = Side(n, s) /\ UNCHANGED <<nodes, root, call, todo, result, misuse>>
  BY <1>2 DEF Descend
<1>4. s \in Sides /\ (s = "l" <=> call.hash < Hs[n])
  BY <1>2 DEF Lower, Sides
<1>5. call' \in Requests \cup {Idle} /\ result' \in Val \cup {NoVal}
  BY <1>1, <1>3 DEF CallsRead, StrmapInv, Typed, StrmapTypeOK
<1> HIDE DEF n, s
<1>6. ASSUME NEW up, Tree(Alloc, Root, D, Hs, up), at \in LinksOf(Alloc, Root),
             Meets(Hs, Root, call.hash, up[at])
      PROVE  at' \in LinksOf(Alloc, Root) /\ Meets(Hs, Root, call'.hash, up[at'])
  <2> QED BY <1>2, <1>3, <1>4, <1>6, Down DEF n
<1> QED BY <1>3, <1>5, <1>6, SearchStep

(* The address calloc returns. *)
LEMMA FreshNode ==
  ASSUME FreeAddr # {}
  PROVE  (CHOOSE n \in FreeAddr : \A m \in FreeAddr : n <= m) \in FreeAddr
<1>1. FreeAddr \subseteq Nat
  BY StrmapAssumption DEF FreeAddr, Addr
<1>2. \E n \in FreeAddr : \A m \in FreeAddr : n <= m
  BY <1>1, LeastNumber
<1> QED BY <1>2

(* What SetNew writes. *)
LEMMA SetNewWrites ==
  ASSUME StrmapInv, SetNew, Searching
  PROVE  \E n \in Addr \ Alloc :
           /\ nodes' \in [Alloc \cup {n} -> Node] /\ root' \in Alloc \cup {NULL, root, n}
           /\ nodes'[n].hash = call.hash /\ nodes'[n].val = call.val /\ nodes'[n].held
           /\ \A m \in Alloc : /\ nodes'[m].held = nodes[m].held /\ nodes'[m].hash = nodes[m].hash
                               /\ nodes'[m].val = nodes[m].val
           /\ D'[at] = n /\ \A k \in Links \ {at} : D'[k] = D[k]
           /\ \A s \in Sides : D'[Side(n, s)] = NULL
<1> DEFINE n == CHOOSE n \in FreeAddr : \A m \in FreeAddr : n <= m
           x == new_strnode(call.hash, call.val)
           new == [m \in Alloc \cup {n} |-> IF m = n THEN x ELSE nodes[m]]
<1>1. LinksRead /\ CallsRead /\ nodes \in [Alloc -> Node]
  BY LinkFacts, CallFacts DEF StrmapInv, Typed
<1>2. call.op = "set" /\ at \in Links
  BY Reach DEF SetNew
<1>3. n \in Addr \ Alloc
  BY FreshNode DEF SetNew, FreeAddr, Alloc
<1>4. x \in Node /\ x.hash = call.hash /\ x.val = call.val /\ x.held /\ x.l = NULL /\ x.r = NULL
  BY <1>1, <1>2 DEF CallsRead, new_strnode, Node
<1>5. IF at.side = "root" THEN root' = n /\ nodes' = new
      ELSE nodes' = [new EXCEPT ![at.of][at.side] = n] /\ UNCHANGED root
  BY DEF SetNew, Alloc
<1>6. /\ new \in [Alloc \cup {n} -> Node]
      /\ new[n] = x /\ \A m \in Alloc : new[m] = nodes[m]
  BY <1>1, <1>3, <1>4
<1> HIDE DEF n, x, new
<1>7. CASE at = Root
  <2>1. root' = n /\ nodes' = new
    BY <1>1, <1>5, <1>7 DEF LinksRead
  <2>2. Alloc' = Alloc \cup {n} /\ Links' = LinksOf(Alloc \cup {n}, Root)
    BY <1>6, <2>1 DEF Alloc, Links, LinksOf, Sides
  <2>3. Root \in Links' /\ \A m \in Alloc \cup {n}, s \in Sides : Side(m, s) \in Links'
    BY <2>2, LinkCases
  <2>4. D'[at] = n
    BY <1>1, <1>7, <2>1, <2>3 DEF D, Deref, LinksRead
  <2>5. ASSUME NEW m \in Alloc \cup {n}, NEW s \in Sides PROVE D'[Side(m, s)] = new[m][s]
    <3>1. Side(m, s).side = s /\ Side(m, s).of = m /\ s # "root"
      BY SideFacts DEF Sides
    <3> QED BY <2>1, <2>3, <3>1 DEF D, Deref
  <2>6. ASSUME NEW k \in Links \ {at} PROVE D'[k] = D[k]
    <3>1. PICK m \in Alloc, s \in Sides : k = Side(m, s)
      BY <1>1, <1>7, LinkCases DEF LinksRead
    <3> QED BY <1>1, <1>6, <2>5, <3>1 DEF LinksRead
  <2>7. \A s \in Sides : D'[Side(n, s)] = NULL
    BY <1>4, <1>6, <2>5 DEF Sides
  <2> QED BY <1>3, <1>4, <1>6, <2>1, <2>4, <2>6, <2>7
<1>8. CASE at # Root
  <2>1. PICK a \in Alloc, y \in Sides : at = Side(a, y)
    BY <1>1, <1>2, <1>8, LinkCases DEF LinksRead
  <2>2. at.side = y /\ at.of = a /\ y # "root" /\ a # n
    BY <1>3, <2>1, SideFacts DEF Sides
  <2>3. nodes' = [new EXCEPT ![a][y] = n] /\ root' = root
    BY <1>5, <2>2
  <2>4. nodes' = [new EXCEPT ![a] = [new[a] EXCEPT ![y] = n]]
    BY <2>3
  <2>5. /\ [new[a] EXCEPT ![y] = n] \in Node
        /\ [new[a] EXCEPT ![y] = n].hash = new[a].hash
        /\ [new[a] EXCEPT ![y] = n].val = new[a].val
        /\ [new[a] EXCEPT ![y] = n].held = new[a].held
        /\ \A s \in Sides : [new[a] EXCEPT ![y] = n][s] = IF s = y THEN n ELSE new[a][s]
    <3>1. new[a] \in Node
      BY <1>6
    <3>2. CASE y = "l"
      BY <1>3, <3>1, <3>2 DEF Node, Sides
    <3>3. CASE y = "r"
      BY <1>3, <3>1, <3>3 DEF Node, Sides
    <3> QED BY <3>2, <3>3 DEF Sides
  <2>6. /\ nodes' \in [Alloc \cup {n} -> Node]
        /\ nodes'[a] = [new[a] EXCEPT ![y] = n]
        /\ \A m \in (Alloc \cup {n}) \ {a} : nodes'[m] = new[m]
    BY <1>6, <2>4, <2>5
  <2>7. Alloc' = Alloc \cup {n}
    BY <2>6 DEF Alloc
  <2>8. Links' = LinksOf(Alloc \cup {n}, Root)
    BY <2>7 DEF Alloc, Links, LinksOf, Sides
  <2>9. Root \in Links' /\ \A m \in Alloc \cup {n}, s \in Sides : Side(m, s) \in Links'
    BY <2>8, LinkCases
  <2>10. D'[Root] = root
    BY <1>1, <2>3, <2>9 DEF D, Deref, LinksRead
  <2>11. ASSUME NEW m \in Alloc \cup {n}, NEW s \in Sides PROVE D'[Side(m, s)] = nodes'[m][s]
    <3>1. Side(m, s).side = s /\ Side(m, s).of = m /\ s # "root"
      BY SideFacts DEF Sides
    <3> QED BY <2>9, <3>1 DEF D, Deref
  <2>12. D'[at] = n
    <3>1. D'[at] = nodes'[a][y]
      BY <2>1, <2>11
    <3>2. nodes'[a][y] = n
      BY <2>5, <2>6
    <3> QED BY <3>1, <3>2
  <2>13. ASSUME NEW k \in Links \ {at} PROVE D'[k] = D[k]
    <3>1. CASE k = Root
      BY <1>1, <2>10, <3>1 DEF LinksRead
    <3>2. CASE k # Root
      <4>1. PICK m \in Alloc, s \in Sides : k = Side(m, s)
        BY <1>1, <3>2, LinkCases DEF LinksRead
      <4>2. D'[k] = nodes'[m][s] /\ D[k] = nodes[m][s]
        BY <1>1, <2>11, <4>1 DEF LinksRead
      <4>3. CASE m = a
        BY <1>6, <2>1, <2>5, <2>6, <4>1, <4>2, <4>3
      <4>4. CASE m # a
        BY <1>6, <2>6, <4>2, <4>4
      <4> QED BY <4>3, <4>4
    <3> QED BY <3>1, <3>2
  <2>14. \A s \in Sides : D'[Side(n, s)] = NULL
    BY <1>4, <1>6, <2>2, <2>6, <2>11 DEF Sides
  <2>15. nodes'[n] = x /\ root' \in Alloc \cup {NULL, root, n}
    BY <1>6, <2>2, <2>3, <2>6
  <2>16. \A m \in Alloc : /\ nodes'[m].held = nodes[m].held /\ nodes'[m].hash = nodes[m].hash
                          /\ nodes'[m].val = nodes[m].val
    BY <1>6, <2>5, <2>6
  <2> QED BY <1>3, <1>4, <2>6, <2>12, <2>13, <2>14, <2>15, <2>16
<1> QED BY <1>7, <1>8

LEMMA SetNewOK == StrmapInv /\ SetNew => StrmapInv'
<1> SUFFICES ASSUME StrmapInv, SetNew PROVE StrmapInv'
  OBVIOUS
<1>1. Searching
  BY DEF SetNew, Searching
<1>2. LinksRead /\ CallsRead /\ Typed /\ Stands /\ misuse = FALSE
  BY LinkFacts, CallFacts DEF StrmapInv
<1>3. PICK n \in Addr \ Alloc :
           /\ nodes' \in [Alloc \cup {n} -> Node] /\ root' \in Alloc \cup {NULL, root, n}
           /\ nodes'[n].hash = call.hash /\ nodes'[n].val = call.val /\ nodes'[n].held
           /\ \A m \in Alloc : /\ nodes'[m].held = nodes[m].held /\ nodes'[m].hash = nodes[m].hash
                               /\ nodes'[m].val = nodes[m].val
           /\ D'[at] = n /\ \A k \in Links \ {at} : D'[k] = D[k]
           /\ \A s \in Sides : D'[Side(n, s)] = NULL
  BY <1>1, SetNewWrites
<1>4. Deref(at) = NULL /\ call' = Idle /\ at' = Root /\ UNCHANGED <<todo, result, misuse>>
  BY DEF SetNew
<1>5. Alloc' = Alloc \cup {n}
  BY <1>3 DEF Alloc
<1>6. n # NULL /\ n # Root.of
  BY <1>2, <1>3 DEF Addr, NULL, LinksRead
<1>7. \A m \in Alloc : nodes[m].held
  BY <1>1, <1>2 DEF Stands
<1>8. PICK up : Tree(Alloc, Root, D, Hs, up) /\ at \in LinksOf(Alloc, Root)
                /\ Meets(Hs, Root, call.hash, up[at])
  BY <1>1, <1>2 DEF Stands
<1>9. D[at] = NULL
  BY <1>1, <1>4, Reach
<1>10. Hs'[n] = call.hash /\ Hs'[n] \in Nat /\ \A m \in Alloc : Hs'[m] = Hs[m]
  BY <1>1, <1>2, <1>3, <1>5, StrmapAssumption DEF Hs, CallsRead
<1>11. \E uu : Tree(Alloc \cup {n}, Root, D', Hs', uu)
  <2>1. \A k \in LinksOf(Alloc, Root) \ {at} : D'[k] = D[k]
    BY <1>2, <1>3 DEF LinksRead
  <2>2. Meets(Hs, Root, Hs'[n], up[at])
    BY <1>8, <1>10
  <2>3. Inserted(Alloc, Root, D, Hs, up, at, n, D', Hs')
    BY <1>3, <1>6, <1>8, <1>9, <1>10, <2>1, <2>2 DEF Inserted
  <2> QED BY <1>8, <2>3, Insert
<1>12. Typed'
  <2>1. Alloc' \subseteq Addr /\ root' \in Addr \cup {NULL}
    BY <1>2, <1>3, <1>5 DEF LinksRead, Typed, StrmapTypeOK
  <2>2. Root \in Link
    BY DEF Root, Link
  <2> QED BY <1>2, <1>3, <1>4, <1>5, <2>1, <2>2 DEF Typed, StrmapTypeOK, Alloc
<1>13. ~ Moving' /\ ~ Freeing' /\ ~ Searching'
  BY <1>4 DEF Idle, Moving, Freeing, Searching
<1>14. Stands'
  BY <1>3, <1>5, <1>7, <1>11, <1>13 DEF Stands
<1> QED BY <1>2, <1>4, <1>12, <1>13, <1>14 DEF StrmapInv, Mends, Falls

LEMMA SetReplaceOK == StrmapInv /\ SetReplace => StrmapInv'
<1> SUFFICES ASSUME StrmapInv, SetReplace PROVE StrmapInv'
  OBVIOUS
<1> DEFINE n == Deref(at)
<1>1. Searching
  BY DEF SetReplace, Searching
<1>2. LinksRead /\ CallsRead /\ Typed /\ Stands /\ misuse = FALSE
  BY LinkFacts, CallFacts DEF StrmapInv
<1>3. n \in Alloc
  BY <1>1, Reach DEF SetReplace, Found
<1>4. /\ nodes' = [nodes EXCEPT ![n].val = call.val] /\ call.val \in Val
      /\ call' = Idle /\ at' = Root /\ UNCHANGED <<root, todo, result, misuse>>
  BY <1>2 DEF SetReplace, CallsRead
<1> HIDE DEF n
<1>5. nodes \in [Alloc -> Node] /\ nodes[n] \in Node
  BY <1>3 DEF Typed, StrmapInv
<1>6. nodes' = [nodes EXCEPT ![n] = [nodes[n] EXCEPT !.val = call.val]]
      /\ [nodes[n] EXCEPT !.val = call.val] \in Node
  BY <1>4, <1>5 DEF Node
<1>7. nodes' \in [Alloc -> Node] /\ Alloc' = Alloc /\ Links' = Links
  <2>1. nodes' \in [Alloc -> Node]
    BY <1>5, <1>6
  <2>2. Alloc' = Alloc
    BY <2>1 DEF Alloc
  <2> QED BY <2>1, <2>2 DEF Alloc, Links
<1>8. \A m \in Alloc : /\ nodes'[m].hash = nodes[m].hash /\ nodes'[m].held = nodes[m].held
                       /\ nodes'[m].l = nodes[m].l /\ nodes'[m].r = nodes[m].r
  <2> SUFFICES ASSUME NEW m \in Alloc
               PROVE  /\ nodes'[m].hash = nodes[m].hash /\ nodes'[m].held = nodes[m].held
                      /\ nodes'[m].l = nodes[m].l /\ nodes'[m].r = nodes[m].r
    OBVIOUS
  <2>1. CASE m = n
    <3>1. nodes'[m] = [nodes[n] EXCEPT !.val = call.val]
      BY <1>5, <1>6, <2>1
    <3> QED BY <1>5, <2>1, <3>1 DEF Node
  <2>2. CASE m # n
    BY <1>5, <1>6, <2>2
  <2> QED BY <2>1, <2>2
<1>9. Hs' = Hs
  BY <1>7, <1>8 DEF Hs
<1>10. Typed'
  <2>1. Root \in Link
    BY DEF Root, Link
  <2> QED BY <1>2, <1>4, <1>7, <2>1 DEF Typed, StrmapTypeOK, Alloc
<1>11. LinksRead'
  BY <1>10, LinkFactsNext
<1>12. \A k \in LinksOf(Alloc, Root) : D'[k] = D[k]
  <2>1. \A m \in Alloc, s \in Sides : D'[Side(m, s)] = D[Side(m, s)]
    BY <1>2, <1>7, <1>8, <1>11 DEF LinksRead, Sides
  <2>2. D'[Root] = D[Root]
    BY <1>2, <1>4, <1>11 DEF LinksRead
  <2> QED BY <2>1, <2>2, LinkCases
<1>13. \E up : Tree(Alloc, Root, D', Hs', up)
  <2>1. PICK up : Tree(Alloc, Root, D, Hs, up)
    BY <1>1, <1>2 DEF Stands
  <2> QED BY <1>9, <1>12, <2>1, TreeSame
<1>14. ~ Moving' /\ ~ Freeing' /\ ~ Searching'
  BY <1>4 DEF Idle, Moving, Freeing, Searching
<1>15. Stands'
  BY <1>1, <1>2, <1>7, <1>8, <1>13, <1>14 DEF Stands
<1> QED BY <1>2, <1>4, <1>10, <1>14, <1>15 DEF StrmapInv, Mends, Falls

-----------------------------------------------------------------------------
(* The subtrees still to hang. *)
LEMMA OrderFacts ==
  ASSUME NEW q \in Orders
  PROVE  /\ Among(q) \subseteq Sides /\ q \in Seq({"l", "r"}) /\ (q = <<>> => Among(q) = {})
         /\ q # <<>> => /\ Head(q) \in Among(q) /\ Head(q) \in Sides
                        /\ Tail(q) \in Orders /\ Among(Tail(q)) = Among(q) \ {Head(q)}
<1>1. CASE q = <<>>
  BY <1>1 DEF Among
<1>2. CASE q = <<"l">>
  <2>1. Tail(q) = <<>> /\ Head(q) = "l" /\ q # <<>> /\ q \in Seq({"l", "r"})
    BY <1>2
  <2>2. Among(q) = {"l"} /\ Among(Tail(q)) = {}
    BY <1>2, <2>1 DEF Among
  <2> QED BY <2>1, <2>2 DEF Orders, Sides
<1>3. CASE q = <<"r">>
  <2>1. Tail(q) = <<>> /\ Head(q) = "r" /\ q # <<>> /\ q \in Seq({"l", "r"})
    BY <1>3
  <2>2. Among(q) = {"r"} /\ Among(Tail(q)) = {}
    BY <1>3, <2>1 DEF Among
  <2> QED BY <2>1, <2>2 DEF Orders, Sides
<1>4. CASE q = <<"l", "r">>
  <2>1. Tail(q) = <<"r">> /\ Head(q) = "l" /\ q # <<>> /\ q \in Seq({"l", "r"})
    BY <1>4
  <2>2. Among(q) = {"l", "r"} /\ Among(Tail(q)) = {"r"}
    BY <1>4, <2>1 DEF Among
  <2> QED BY <2>1, <2>2 DEF Orders, Sides
<1> QED BY <1>1, <1>2, <1>3, <1>4 DEF Orders

LEMMA SubtreesFacts ==
  ASSUME NEW n
  PROVE  /\ Subtrees(n) \in Orders
         /\ Among(Subtrees(n)) = {s \in Sides : nodes[n][s] # NULL}
<1> DEFINE q == Subtrees(n)
<1>1. CASE nodes[n].l # NULL /\ nodes[n].r # NULL
  <2>1. q = <<"l", "r">>
    <3> DEFINE a == <<"l">>
               b == <<"r">>
    <3>1. q = a \o b
      BY <1>1 DEF Subtrees
    <3>2. a \in Seq({"l", "r"}) /\ b \in Seq({"l", "r"}) /\ Len(a) = 1 /\ Len(b) = 1
          /\ a[1] = "l" /\ b[1] = "r" /\ q \in Seq({"l", "r"})
      BY <3>1
    <3> HIDE DEF a, b, q
    <3>3. Len(q) = 2 /\ q[1] = "l" /\ q[2] = "r"
      BY <3>1, <3>2, ConcatProperties
    <3> QED BY <3>2, <3>3
  <2>2. Among(q) = {"l", "r"}
    BY <2>1 DEF Among
  <2> QED BY <1>1, <2>1, <2>2 DEF Orders, Sides
<1>2. CASE nodes[n].l # NULL /\ nodes[n].r = NULL
  <2>1. q = <<"l">>
    BY <1>2 DEF Subtrees
  <2>2. Among(q) = {"l"}
    BY <2>1 DEF Among
  <2> QED BY <1>2, <2>1, <2>2 DEF Orders, Sides
<1>3. CASE nodes[n].l = NULL /\ nodes[n].r # NULL
  <2>1. q = <<"r">>
    BY <1>3 DEF Subtrees
  <2>2. Among(q) = {"r"}
    BY <2>1 DEF Among
  <2> QED BY <1>3, <2>1, <2>2 DEF Orders, Sides
<1>4. CASE nodes[n].l = NULL /\ nodes[n].r = NULL
  <2>1. q = <<>>
    BY <1>4 DEF Subtrees
  <2>2. Among(q) = {}
    BY <2>1 DEF Among
  <2> QED BY <1>4, <2>1, <2>2 DEF Orders, Sides
<1> QED BY <1>1, <1>2, <1>3, <1>4

LEMMA DelUnlinkOK == StrmapInv /\ DelUnlink => StrmapInv'
<1> SUFFICES ASSUME StrmapInv, DelUnlink PROVE StrmapInv'
  OBVIOUS
<1> DEFINE v == D[at]
           A == Alloc \ {v}
<1>1. Searching
  BY DEF DelUnlink, Deleting, Searching
<1>2. LinksRead /\ CallsRead /\ Typed /\ Stands /\ misuse = FALSE
  BY LinkFacts, CallFacts DEF StrmapInv
<1>3. at \in Links /\ v = Deref(at) /\ v \in Alloc /\ v # NULL
  BY <1>1, Reach DEF DelUnlink, Found
<1>4. Store(at, NULL) /\ call' = Unlinked(v) /\ at' = Root /\ UNCHANGED <<todo, result, misuse>>
  BY <1>3 DEF DelUnlink
<1> HIDE DEF v
<1>5. /\ Alloc' = Alloc /\ Hs' = Hs /\ Links' = Links
      /\ D'[at] = NULL /\ \A k \in Links \ {at} : D'[k] = D[k]
      /\ nodes' \in [Alloc' -> Node] /\ root' \in Alloc \cup {NULL, root}
      /\ \A m \in Alloc : nodes'[m].held = nodes[m].held
  BY <1>2, <1>3, <1>4, Stored
<1>6. /\ call'.op \in {"release", "add"} /\ call'.victim = v
      /\ call'.sides = Subtrees(v) /\ call'.sides \in Orders
      /\ call' \in [op : {"release", "add"}, victim : Addr, sides : Seq({"l", "r"})]
  <2> DEFINE Q == Seq({"l", "r"})
  <2>1. Subtrees(v) \in Orders /\ Subtrees(v) \in Q
    BY SubtreesFacts, OrderFacts
  <2>2. v \in Addr
    BY <1>2, <1>3 DEF LinksRead
  <2> HIDE DEF Q
  <2>3. call' \in [op : {"release", "add"}, victim : Addr, sides : Q]
    BY <1>4, <2>1, <2>2 DEF Unlinked
  <2> QED BY <1>4, <2>1, <2>3 DEF Unlinked, Q
<1>7. Pending' = {s \in Sides : D[Side(v, s)] # NULL}
  <2>1. Pending' = Among(Subtrees(v))
    BY <1>6 DEF Pending
  <2> QED BY <1>2, <1>3, <2>1, SubtreesFacts DEF LinksRead
<1>8. Moving' /\ ~ Searching' /\ ~ Freeing' /\ call'.op # "none" /\ Others' = A
  BY <1>5, <1>6 DEF Moving, Searching, Freeing, Others
<1>9. Typed'
  <2>1. Root \in Link
    BY DEF Root, Link
  <2>2. Alloc' \subseteq Addr /\ root' \in Addr \cup {NULL}
    BY <1>2, <1>5 DEF LinksRead, Typed, StrmapTypeOK
  <2> QED BY <1>2, <1>4, <1>5, <1>6, <2>1, <2>2 DEF Typed, StrmapTypeOK, Alloc
<1>10. \A n \in Alloc : nodes[n].held
  BY <1>1, <1>2 DEF Stands
<1>11. PICK up : Tree(Alloc, Root, D, Hs, up) /\ at \in LinksOf(Alloc, Root)
  BY <1>1, <1>2 DEF Stands
<1>12. TreeAt(Alloc, Root, D, Hs, up, at, v)
  BY <1>3, <1>11 DEF TreeAt, v
<1>13. Unlinks(Alloc, Root, D, at, D')
  BY <1>2, <1>5 DEF LinksRead, Unlinks
<1>14. \E own, ups : Parts(A, Root, D, Hs, up, v, D', own, ups)
  BY <1>12, <1>13, Cut
<1>15. PICK own, ups : Parts(A, Root, D, Hs, up, v, D', own, ups)
  BY <1>14
<1>16. /\ \A n \in A : own[n] = Root \/ \E s \in Sides : own[n] = Side(v, s) /\ D[Side(v, s)] # NULL
       /\ Tree(Below(A, own, Root), Root, D', Hs, ups[Root]) /\ ups[Root] = up
       /\ \A s \in Sides : Tree(Below(A, own, Side(v, s)), Side(v, s), D', Hs, ups[Side(v, s)])
       /\ Split(v, A, Root, Hs, own)
  BY <1>15 DEF Parts
<1>17. Tops' = {Root} \cup {Side(v, s) : s \in Pending'}
  BY <1>6 DEF Tops
<1>18. Forest(A, Tops', D', Hs, own, ups)
  <2>1. \A n \in A : own[n] \in Tops'
    BY <1>7, <1>16, <1>17
  <2>2. \A k \in Tops' : Tree(Below(A, own, k), k, D', Hs, ups[k])
    BY <1>7, <1>16, <1>17
  <2> QED BY <2>1, <2>2 DEF Forest
<1>19. Reaches(call.victim, Others, own, ups)'
  <2>1. \A s \in Sides : Side(v, s) # at
    <3>1. \A s \in Sides : Side(v, s) \notin up[at] /\ at \in up[at]
      BY <1>12, AtFacts
    <3> QED BY <3>1
  <2>2. \A s \in Pending' : D'[Side(v, s)] # NULL
    BY <1>2, <1>3, <1>5, <1>7, <2>1, LinkCases DEF LinksRead
  <2>3. ups[Root] = up /\ up[Root] = {Root}
    BY <1>11, <1>16 DEF Tree, Ways
  <2>4. Root \in LinksOf(Below(A, own, Root), Root)
    BY LinkCases
  <2>5. \A h : Meets(Hs, Root, h, ups[Root][Root])
    BY <2>3 DEF Meets
  <2> QED BY <1>4, <1>5, <1>6, <1>8, <2>2, <2>4, <2>5 DEF Reaches
<1>20. Mends'
  <2>1. \E o, u : /\ Forest(Others', Tops', D', Hs', o, u)
                  /\ Split(call'.victim, Others', Root, Hs', o)
                  /\ Reaches(call.victim, Others, o, u)'
    BY <1>5, <1>6, <1>8, <1>16, <1>18, <1>19
  <2>2. /\ call'.victim \in Alloc' /\ \A n \in Others' : nodes'[n].held
        /\ nodes'[call'.victim].held /\ call'.sides \in Orders
    BY <1>3, <1>5, <1>6, <1>8, <1>10
  <2> QED BY <2>1, <2>2 DEF Mends
<1> QED BY <1>2, <1>4, <1>8, <1>9, <1>20 DEF StrmapInv, Stands, Falls

(* The victim keeps its place; its key and value go. *)
LEMMA Released ==
  ASSUME Typed, NEW n \in Alloc, Release(n)
  PROVE  /\ nodes' \in [Alloc' -> Node] /\ Alloc' = Alloc /\ Hs' = Hs /\ Links' = Links
         /\ \A m \in Alloc : /\ nodes'[m].hash = nodes[m].hash /\ nodes'[m].val = nodes[m].val
                             /\ \A s \in Sides : nodes'[m][s] = nodes[m][s]
                             /\ nodes'[m].held = IF m = n THEN FALSE ELSE nodes[m].held
         /\ root' = root => D' = D
<1>1. nodes \in [Alloc -> Node] /\ nodes' = [nodes EXCEPT ![n].held = FALSE]
  BY DEF Typed, Release
<1>2. nodes' = [nodes EXCEPT ![n] = [nodes[n] EXCEPT !.held = FALSE]] /\ nodes[n] \in Node
      /\ [nodes[n] EXCEPT !.held = FALSE] \in Node
  BY <1>1 DEF Node
<1>3. nodes' \in [Alloc -> Node]
  BY <1>1, <1>2
<1>4. Alloc' = Alloc
  BY <1>3 DEF Alloc
<1>5. Links' = Links
  BY <1>4 DEF Alloc, Links
<1>6. ASSUME NEW m \in Alloc
      PROVE  /\ nodes'[m].hash = nodes[m].hash /\ nodes'[m].val = nodes[m].val
             /\ \A s \in Sides : nodes'[m][s] = nodes[m][s]
             /\ nodes'[m].held = IF m = n THEN FALSE ELSE nodes[m].held
  <2>1. CASE m # n
    <3>1. nodes'[m] = nodes[m] /\ nodes[m].held \in BOOLEAN
      BY <1>1, <1>2, <2>1 DEF Node
    <3> QED BY <2>1, <3>1
  <2>2. CASE m = n
    <3>1. nodes'[m] = [nodes[n] EXCEPT !.held = FALSE]
      BY <1>1, <1>2, <2>2
    <3>2. nodes'[m].hash = nodes[m].hash /\ nodes'[m].val = nodes[m].val /\ nodes'[m].held = FALSE
          /\ nodes'[m].l = nodes[m].l /\ nodes'[m].r = nodes[m].r
      BY <1>2, <2>2, <3>1 DEF Node
    <3> QED BY <2>2, <3>2 DEF Sides
  <2> QED BY <2>1, <2>2
<1>7. Hs' = Hs
  BY <1>4, <1>6 DEF Hs
<1>8. ASSUME root' = root PROVE D' = D
  <2>1. ASSUME NEW k \in Links PROVE Deref(k)' = Deref(k)
    <3>1. CASE k.side = "root"
      BY <1>8, <3>1 DEF Deref
    <3>2. CASE k.side # "root"
      <4>1. k # Root
        BY <3>2 DEF Root
      <4>2. PICK m \in Alloc, s \in Sides : k = Side(m, s)
        BY <4>1, LinkFacts, LinkCases DEF LinksRead
      <4>3. nodes'[m][s] = nodes[m][s]
        BY <1>6
      <4> QED BY <3>2, <4>2, <4>3, SideFacts DEF Deref
    <3> QED BY <3>1, <3>2
  <2> QED BY <1>5, <2>1 DEF D
<1> QED BY <1>3, <1>4, <1>5, <1>6, <1>7, <1>8

LEMMA DelReleaseOK == StrmapInv /\ DelRelease => StrmapInv'
<1> SUFFICES ASSUME StrmapInv, DelRelease PROVE StrmapInv'
  OBVIOUS
<1> DEFINE v == call.victim
           Q == Seq({"l", "r"})
<1>1. Moving /\ LinksRead /\ CallsRead /\ Typed /\ Mends /\ misuse = FALSE
  BY LinkFacts, CallFacts DEF StrmapInv, Moving, DelRelease
<1>2. /\ v \in Alloc /\ nodes[v].held /\ call.sides \in Orders
      /\ \A n \in Others : nodes[n].held
      /\ \E own, ups : /\ Forest(Others, Tops, D, Hs, own, ups)
                       /\ Split(v, Others, Root, Hs, own)
                       /\ Reaches(v, Others, own, ups)
  BY <1>1 DEF Mends, DelRelease
<1>3. Release(v) /\ UNCHANGED <<root, at, todo, result>>
  BY DEF DelRelease
<1>4. call'.op = "add" /\ call'.victim = v /\ call'.sides = call.sides
      /\ call' \in [op : {"release", "add"}, victim : Addr, sides : Q]
  <2>1. call \in [op : {"release", "add"}, victim : Addr, sides : Q] /\ call' = [call EXCEPT !.op = "add"]
    BY <1>1 DEF CallsRead, DelRelease
  <2> HIDE DEF Q
  <2> QED BY <2>1
<1>5. /\ nodes' \in [Alloc' -> Node] /\ Alloc' = Alloc /\ Hs' = Hs /\ D' = D
      /\ \A m \in Alloc : nodes'[m].held = IF m = v THEN FALSE ELSE nodes[m].held
  BY <1>1, <1>2, <1>3, Released
<1>6. misuse' = FALSE
  BY <1>1, <1>2, <1>3 DEF Release
<1>7. Typed'
  BY <1>1, <1>3, <1>4, <1>5, <1>6 DEF Typed, StrmapTypeOK, Alloc
<1>8. Moving' /\ ~ Searching' /\ ~ Freeing' /\ call'.op # "none" /\ Others' = Others /\ Pending' = Pending
      /\ Tops' = Tops /\ v \notin Others
  BY <1>4, <1>5 DEF Moving, Searching, Freeing, Others, Pending, Tops
<1>9. PICK own, ups : /\ Forest(Others, Tops, D, Hs, own, ups)
                      /\ Split(v, Others, Root, Hs, own)
                      /\ Reaches(v, Others, own, ups)
  BY <1>2
<1>10. Reaches(call.victim, Others, own, ups)'
  BY <1>3, <1>4, <1>5, <1>8, <1>9 DEF Reaches
<1>11. Mends'
  <2>1. \A n \in Others' : nodes'[n].held
    BY <1>2, <1>5, <1>8 DEF Others
  <2>2. \E o, u : /\ Forest(Others', Tops', D', Hs', o, u)
                  /\ Split(call'.victim, Others', Root, Hs', o)
                  /\ Reaches(call.victim, Others, o, u)'
    BY <1>4, <1>5, <1>8, <1>9, <1>10
  <2>3. call'.victim \in Alloc' /\ call'.sides \in Orders /\ call'.op # "release"
    BY <1>2, <1>4, <1>5
  <2> QED BY <2>1, <2>2, <2>3 DEF Mends
<1> QED BY <1>6, <1>7, <1>8, <1>11 DEF StrmapInv, Stands, Falls

(* What an addition has at hand. *)
LEMMA AddFacts ==
  ASSUME StrmapInv, call.op = "add", call.sides # <<>>
  PROVE  LET v == call.victim
             h == Head(call.sides)
         IN  /\ v \in Alloc /\ h \in Sides /\ h \in Pending /\ Pending \subseteq Sides
             /\ Side(v, h) \in Tops /\ Side(v, h) # Root
             /\ Hanging = D[Side(v, h)] /\ Hanging \in Others /\ nodes[Hanging].hash = Hs[Hanging]
             /\ at \in Links /\ Deref(at) = D[at]
<1> DEFINE v == call.victim
           h == Head(call.sides)
<1>1. Moving /\ LinksRead /\ Mends
  BY LinkFacts DEF StrmapInv, Moving
<1>2. v \in Alloc /\ call.sides \in Orders
      /\ \E own, ups : Forest(Others, Tops, D, Hs, own, ups) /\ Reaches(v, Others, own, ups)
  BY <1>1 DEF Mends
<1>3. h \in Sides /\ h \in Pending /\ Pending \subseteq Sides
  BY <1>2, OrderFacts DEF Pending
<1>4. Side(v, h) \in Tops /\ Side(v, h) # Root
  BY <1>1, <1>3 DEF Tops, LinksRead
<1>5. Hanging = D[Side(v, h)]
  BY <1>1, <1>2, <1>3 DEF Hanging, LinksRead
<1>6. PICK own, ups : Forest(Others, Tops, D, Hs, own, ups) /\ Reaches(v, Others, own, ups)
  BY <1>2
<1>7. Hanging \in Others
  <2>1. Tree(Below(Others, own, Side(v, h)), Side(v, h), D, Hs, ups[Side(v, h)])
    BY <1>4, <1>6 DEF Forest
  <2>2. D[Side(v, h)] # NULL
    BY <1>3, <1>6 DEF Reaches
  <2>3. D[Side(v, h)] \in Below(Others, own, Side(v, h))
    BY <2>1, <2>2, LinkCases DEF Tree, Holds
  <2> QED BY <1>5, <2>3 DEF Below
<1>8. nodes[Hanging].hash = Hs[Hanging]
  BY <1>1, <1>7 DEF Others, LinksRead
<1>9. at \in Links
  <2>1. at \in LinksOf(Below(Others, own, Root), Root)
    BY <1>6 DEF Reaches
  <2>2. Below(Others, own, Root) \subseteq Alloc
    BY DEF Below, Others
  <2> QED BY <1>1, <2>1, <2>2 DEF LinksOf, LinksRead
<1>10. Deref(at) = D[at]
  BY <1>1, <1>9 DEF LinksRead
<1> QED BY <1>2, <1>3, <1>4, <1>5, <1>7, <1>8, <1>9, <1>10

LEMMA AddBelowOK == StrmapInv /\ AddBelow => StrmapInv'
<1> SUFFICES ASSUME StrmapInv, AddBelow PROVE StrmapInv'
  OBVIOUS
<1> DEFINE v == call.victim
           h == Head(call.sides)
           T == Side(v, h)
           x == Hanging
           m == D[at]
           s == Lower(nodes[x].hash)
<1>1. /\ Moving /\ LinksRead /\ CallsRead /\ Typed /\ Mends /\ misuse = FALSE
      /\ call.op = "add" /\ call.sides # <<>>
  BY LinkFacts, CallFacts DEF StrmapInv, Moving, AddBelow
<1>2. /\ h \in Sides /\ T \in Tops /\ T # Root /\ x = D[T] /\ x \in Others /\ nodes[x].hash = Hs[x]
      /\ at \in Links /\ Deref(at) = m
  BY <1>1, AddFacts
<1>3. at' = Side(m, s) /\ m # NULL /\ UNCHANGED <<nodes, root, call, todo, result, misuse>>
  BY <1>2 DEF AddBelow, Descend
<1>4. s = IF Hs[x] < nodes[m].hash THEN "l" ELSE "r"
  BY <1>2 DEF Lower
<1> HIDE DEF h, m, x, s
<1>5. /\ v \in Alloc /\ call.sides \in Orders /\ \A n \in Others : nodes[n].held
      /\ \E own, ups : /\ Forest(Others, Tops, D, Hs, own, ups)
                       /\ Split(v, Others, Root, Hs, own)
                       /\ Reaches(v, Others, own, ups)
  BY <1>1 DEF Mends
<1>6. PICK own, ups : /\ Forest(Others, Tops, D, Hs, own, ups)
                      /\ Split(v, Others, Root, Hs, own)
                      /\ Reaches(v, Others, own, ups)
  BY <1>5
<1> DEFINE N == Below(Others, own, Root)
<1>7. Tree(N, Root, D, Hs, ups[Root]) /\ at \in LinksOf(N, Root) /\ Meets(Hs, Root, Hs[x], ups[Root][at])
  BY <1>1, <1>2, <1>6 DEF Forest, Tops, Reaches, h
<1>8. m \in N
  BY <1>3, <1>7 DEF Tree, Holds, m
<1>9. own[x] # Root
  <2>1. Tree(Below(Others, own, T), T, D, Hs, ups[T])
    BY <1>2, <1>6 DEF Forest
  <2>2. D[T] # NULL
    BY <1>1, <1>2 DEF Others, LinksRead
  <2>3. x \in Below(Others, own, T)
    BY <1>2, <2>1, <2>2, LinkCases DEF Tree, Holds
  <2> QED BY <1>2, <2>3 DEF Below
<1>10. m \in Others /\ m \in Alloc /\ own[m] = Root
  BY <1>8 DEF Below, Others
<1>11. Hs[x] # Hs[m]
  BY <1>2, <1>6, <1>9, <1>10 DEF Split, SameSide
<1>12. s \in Sides /\ (s = "l" <=> Hs[x] < Hs[m])
  BY <1>1, <1>4, <1>10 DEF Sides, LinksRead
<1>13. at' \in LinksOf(N, Root) /\ Meets(Hs, Root, Hs[x], ups[Root][at'])
  <2>1. Side(D[at], s) \in LinksOf(N, Root) /\ Meets(Hs, Root, Hs[x], ups[Root][Side(D[at], s)])
    <3> HIDE DEF N
    <3> QED BY <1>3, <1>7, <1>11, <1>12, Down DEF m
  <2> QED BY <1>3, <2>1 DEF m
<1>14. Alloc' = Alloc /\ D' = D /\ Hs' = Hs /\ nodes' \in [Alloc' -> Node]
  BY <1>1, <1>3, Kept
<1>15. Others' = Others /\ Pending' = Pending /\ Tops' = Tops
  BY <1>3, <1>14 DEF Others, Pending, Tops
<1>16. Typed'
  <2>1. N \subseteq Addr
    BY <1>1 DEF Below, Others, LinksRead
  <2>2. at' \in Link
    BY <1>13, <2>1, LinkTyped
  <2> QED BY <1>1, <1>3, <1>14, <2>2 DEF Typed, StrmapTypeOK, Alloc
<1>17. Reaches(call.victim, Others, own, ups)'
  BY <1>2, <1>3, <1>6, <1>13, <1>14, <1>15 DEF Reaches, h
<1>18. Mends'
  <2>1. \E o, u : /\ Forest(Others', Tops', D', Hs', o, u)
                  /\ Split(call'.victim, Others', Root, Hs', o)
                  /\ Reaches(call.victim, Others, o, u)'
    BY <1>3, <1>6, <1>14, <1>15, <1>17
  <2> QED BY <1>1, <1>3, <1>5, <1>14, <1>15, <2>1 DEF Mends
<1>19. ~ Searching' /\ ~ Freeing' /\ call'.op # "none"
  BY <1>1, <1>3 DEF Searching, Freeing
<1> QED BY <1>1, <1>3, <1>16, <1>18, <1>19 DEF StrmapInv, Stands, Falls

LEMMA AddHereOK == StrmapInv /\ AddHere => StrmapInv'
<1> SUFFICES ASSUME StrmapInv, AddHere PROVE StrmapInv'
  OBVIOUS
<1> DEFINE v == call.victim
           h == Head(call.sides)
           T == Side(v, h)
           x == Hanging
           Q == Seq({"l", "r"})
<1>1. /\ Moving /\ LinksRead /\ CallsRead /\ Typed /\ Mends /\ misuse = FALSE
      /\ call.op = "add" /\ call.sides # <<>>
  BY LinkFacts, CallFacts DEF StrmapInv, Moving, AddHere
<1>2. /\ h \in Sides /\ h \in Pending /\ Pending \subseteq Sides /\ T \in Tops /\ T # Root
      /\ x = D[T] /\ x \in Others /\ at \in Links /\ Deref(at) = D[at]
  BY <1>1, AddFacts
<1>3. Store(at, x) /\ D[at] = NULL /\ at' = Root /\ UNCHANGED <<todo, result, misuse>>
  BY <1>2 DEF AddHere
<1>4. call'.op = "add" /\ call'.victim = v /\ call'.sides = Tail(call.sides)
  <2>1. call \in [op : {"release", "add"}, victim : Addr, sides : Q]
        /\ call' = [call EXCEPT !.sides = Tail(call.sides)]
    BY <1>1 DEF CallsRead, AddHere
  <2> HIDE DEF Q
  <2> QED BY <1>1, <2>1
<1> HIDE DEF h, x
<1>5. /\ v \in Alloc /\ call.sides \in Orders /\ \A n \in Others : nodes[n].held
      /\ \E own, ups : /\ Forest(Others, Tops, D, Hs, own, ups)
                       /\ Split(v, Others, Root, Hs, own)
                       /\ Reaches(v, Others, own, ups)
  BY <1>1 DEF Mends
<1>6. call'.sides \in Orders /\ Pending' = Pending \ {h}
  BY <1>1, <1>4, <1>5, OrderFacts DEF Pending, h
<1>7. /\ Alloc' = Alloc /\ Hs' = Hs /\ Links' = Links
      /\ D'[at] = x /\ \A k \in Links \ {at} : D'[k] = D[k]
      /\ nodes' \in [Alloc' -> Node] /\ root' \in Alloc \cup {NULL, root}
      /\ \A n \in Alloc : nodes'[n].held = nodes[n].held
  BY <1>1, <1>2, <1>3, Stored DEF Others
<1>8. Others' = Others
  BY <1>4, <1>7 DEF Others
<1>9. Tops' = Tops \ {T}
  <2>1. \A s, t \in Sides : Side(v, s) = Side(v, t) => s = t
    BY SideFacts
  <2> QED BY <1>2, <1>4, <1>6, <2>1 DEF Tops
<1>10. PICK own, ups : /\ Forest(Others, Tops, D, Hs, own, ups)
                       /\ Split(v, Others, Root, Hs, own)
                       /\ Reaches(v, Others, own, ups)
  BY <1>5
<1> DEFINE N == Below(Others, own, Root)
           M == Below(Others, own, T)
<1> PICK on : on = Handed(Others, own, T, Root)
  OBVIOUS
<1>11. /\ Tree(N, Root, D, Hs, ups[Root]) /\ Tree(M, T, D, Hs, ups[T])
       /\ at \in LinksOf(N, Root) /\ Meets(Hs, Root, Hs[x], ups[Root][at])
  BY <1>1, <1>2, <1>10 DEF Forest, Tops, Reaches, h
<1>12. x \in M /\ x # NULL
  <2>1. x # NULL
    BY <1>1, <1>2 DEF Others, LinksRead
  <2>2. x \in M
    BY <1>2, <1>11, <2>1, LinkCases DEF Tree, Holds
  <2> QED BY <2>1, <2>2
<1>13. ASSUME NEW k \in Links, k # Root, k.of \notin N PROVE k # at
  <2>1. CASE at = Root
    BY <1>13, <2>1
  <2>2. CASE at # Root
    <3>1. PICK n \in N, s \in Sides : at = Side(n, s)
      BY <1>11, <2>2, LinkCases
    <3> QED BY <1>13, <3>1, SideFacts
  <2> QED BY <2>1, <2>2
<1>14. ASSUME NEW n \in Alloc \ N, NEW s \in Sides PROVE D'[Side(n, s)] = D[Side(n, s)]
  <2>1. Side(n, s) \in Links /\ Side(n, s) # Root /\ Side(n, s).of \notin N
    BY <1>1, LinkCases, SideFacts DEF LinksRead
  <2> QED BY <1>7, <1>13, <2>1
<1>15. v \notin N /\ \A n \in M : n \in Alloc /\ n \notin N
  BY <1>2 DEF Below, Others
<1>16. Hung(N, Root, D, Hs, ups[Root], at, M, T, D')
  <2>1. \A n \in M : n \notin N /\ n # Root.of
    BY <1>1, <1>15 DEF LinksRead
  <2>2. \A k \in LinksOf(N, Root) \ {at} : D'[k] = D[k]
    <3>1. LinksOf(N, Root) \subseteq Links
      BY <1>1 DEF LinksOf, LinksRead, Below, Others
    <3> QED BY <1>7, <3>1
  <2>3. ASSUME NEW y \in M PROVE Meets(Hs, Root, Hs[y], ups[Root][at])
    <3>1. ups[Root][at] \subseteq LinksOf(N, Root)
      BY <1>11 DEF Tree, Ways
    <3>2. y \in Others /\ own[y] = T /\ own[x] = T
      BY <1>12 DEF Below
    <3>3. \A n \in Others : Hs[n] \in Nat
      BY <1>1 DEF Others, LinksRead
    <3>4. Hs[v] \in Nat
      BY <1>1, <1>5 DEF LinksRead
    <3> QED BY <1>2, <1>10, <1>11, <3>1, <3>2, <3>3, <3>4, SameWay
  <2>4. \A n \in M, s \in Sides : D'[Side(n, s)] = D[Side(n, s)]
    BY <1>14, <1>15
  <2> HIDE DEF N, M, T
  <2> QED BY <1>2, <1>3, <1>7, <1>11, <1>12, <2>1, <2>2, <2>3, <2>4 DEF Hung
<1>17. Left(Others, Tops \ {Root, T}, own, D, D')
  <2> SUFFICES \A k \in Tops \ {Root, T} : \A j \in LinksOf(Below(Others, own, k), k) : D'[j] = D[j]
    BY DEF Left
  <2> TAKE k \in Tops \ {Root, T}
  <2> TAKE j \in LinksOf(Below(Others, own, k), k)
  <2>1. PICK s \in Sides : k = Side(v, s)
    BY <1>2 DEF Tops
  <2>2. CASE j = k
    BY <1>5, <1>14, <1>15, <2>1, <2>2
  <2>3. CASE j # k
    <3>1. PICK n \in Below(Others, own, k), t \in Sides : j = Side(n, t)
      BY <2>3, LinkCases
    <3>2. n \in Alloc \ N
      BY <3>1 DEF Below, Others
    <3> QED BY <1>14, <3>1, <3>2
  <2> QED BY <2>2, <2>3
<1>18. Root \in Tops
  BY DEF Tops
<1>19. PICK us : Forest(Others, Tops', D', Hs, on, us)
  <2> HIDE DEF T
  <2>1. \E us : Forest(Others, Tops \ {T}, D', Hs, Handed(Others, own, T, Root), us)
    BY <1>2, <1>10, <1>16, <1>17, <1>18, Hang
  <2> QED BY <1>9, <2>1
<1>20. Split(v, Others, Root, Hs, on)
  <2>1. \A t \in Sides : Side(v, t) # Root
    BY <1>1 DEF LinksRead
  <2>2. \A n \in Others : Hs[n] \in Nat /\ (own[n] = Root \/ \E t \in Sides : own[n] = Side(v, t))
    BY <1>1, <1>2, <1>10 DEF Forest, Tops, Others, LinksRead
  <2>3. Hs[v] \in Nat
    BY <1>1, <1>5 DEF LinksRead
  <2>4. on = Handed(Others, own, Side(v, h), Root)
    OBVIOUS
  <2> QED BY <1>2, <1>10, <2>1, <2>2, <2>3, <2>4, SplitHung
<1>21. Reaches(call.victim, Others, on, us)'
  <2>1. ASSUME NEW s \in Pending' PROVE D'[Side(v, s)] # NULL
    <3>1. s \in Pending /\ s \in Sides
      BY <1>2, <1>6
    <3>2. D[Side(v, s)] # NULL
      BY <1>10, <3>1 DEF Reaches
    <3> QED BY <1>5, <1>14, <1>15, <3>1, <3>2
  <2>2. Tree(Below(Others, on, Root), Root, D', Hs, us[Root])
    BY <1>2, <1>9, <1>18, <1>19 DEF Forest
  <2>3. us[Root][Root] = {Root} /\ Root \in LinksOf(Below(Others, on, Root), Root)
    BY <2>2, LinkCases DEF Tree, Ways
  <2>4. \A y : Meets(Hs, Root, y, us[Root][Root])
    BY <2>3 DEF Meets
  <2> QED BY <1>3, <1>4, <1>7, <1>8, <2>1, <2>3, <2>4 DEF Reaches
<1>22. Mends'
  <2>1. \E o, u : /\ Forest(Others', Tops', D', Hs', o, u)
                  /\ Split(call'.victim, Others', Root, Hs', o)
                  /\ Reaches(call.victim, Others, o, u)'
    BY <1>4, <1>7, <1>8, <1>19, <1>20, <1>21
  <2>2. \A n \in Others' : nodes'[n].held
    BY <1>5, <1>7, <1>8 DEF Others
  <2> QED BY <1>4, <1>5, <1>6, <1>7, <2>1, <2>2 DEF Mends
<1>23. Typed'
  <2>1. Root \in Link
    BY DEF Root, Link
  <2>2. Alloc' \subseteq Addr /\ root' \in Addr \cup {NULL}
    BY <1>1, <1>7 DEF LinksRead, Typed, StrmapTypeOK
  <2>3. call' \in [op : {"release", "add"}, victim : Addr, sides : Seq({"l", "r"})]
    <3>1. call' = [call EXCEPT !.sides = Tail(call.sides)] /\ Tail(call.sides) \in Q
      BY <1>4, <1>6, OrderFacts DEF AddHere
    <3>2. call \in [op : {"release", "add"}, victim : Addr, sides : Q]
      BY <1>1 DEF CallsRead
    <3> HIDE DEF Q
    <3>3. call' \in [op : {"release", "add"}, victim : Addr, sides : Q]
      BY <3>1, <3>2
    <3> QED BY <3>3 DEF Q
  <2> QED BY <1>1, <1>3, <1>7, <2>1, <2>2, <2>3 DEF Typed, StrmapTypeOK, Alloc
<1>24. ~ Searching' /\ ~ Freeing' /\ call'.op # "none"
  BY <1>4 DEF Searching, Freeing
<1> QED BY <1>1, <1>3, <1>22, <1>23, <1>24 DEF StrmapInv, Stands, Falls

(* Freeing one node. *)
LEMMA Gone ==
  ASSUME Typed, NEW n \in Alloc, nodes' = Restrict(nodes, DOMAIN nodes \ {n}), root' = root
  PROVE  /\ nodes' \in [Alloc \ {n} -> Node] /\ Alloc' = Alloc \ {n}
         /\ \A m \in Alloc \ {n} : nodes'[m] = nodes[m] /\ Hs'[m] = Hs[m]
         /\ D'[Root] = D[Root] /\ \A m \in Alloc \ {n}, s \in Sides : D'[Side(m, s)] = D[Side(m, s)]
<1>1. nodes \in [Alloc -> Node] /\ nodes' = [m \in Alloc \ {n} |-> nodes[m]]
  BY DEF Typed, Restrict, Alloc
<1>2. nodes' \in [Alloc \ {n} -> Node] /\ \A m \in Alloc \ {n} : nodes'[m] = nodes[m]
  BY <1>1
<1>3. Alloc' = Alloc \ {n}
  BY <1>2 DEF Alloc
<1>4. \A m \in Alloc \ {n} : Hs'[m] = Hs[m]
  BY <1>2, <1>3 DEF Hs
<1>5. Links' = LinksOf(Alloc \ {n}, Root) /\ Links = LinksOf(Alloc, Root)
  BY <1>3 DEF Links, LinksOf, Sides, Alloc
<1>6. D'[Root] = D[Root]
  <2>1. Root \in Links /\ Root \in Links' /\ Root.side = "root"
    BY <1>5, LinkCases DEF Root
  <2> QED BY <2>1 DEF D, Deref
<1>7. ASSUME NEW m \in Alloc \ {n}, NEW s \in Sides PROVE D'[Side(m, s)] = D[Side(m, s)]
  <2>1. Side(m, s) \in Links /\ Side(m, s) \in Links' /\ Side(m, s).of = m
    BY <1>5, LinkCases, SideFacts
  <2> QED BY <1>2, <2>1 DEF D, Deref
<1> QED BY <1>2, <1>3, <1>4, <1>6, <1>7

LEMMA DelEndsOK == StrmapInv /\ DelEnds => StrmapInv'
<1> SUFFICES ASSUME StrmapInv, DelEnds PROVE StrmapInv'
  OBVIOUS
<1> DEFINE v == call.victim
<1>1. /\ Moving /\ LinksRead /\ CallsRead /\ Typed /\ Mends /\ misuse = FALSE
      /\ call.op = "add" /\ call.sides = <<>>
  BY LinkFacts, CallFacts DEF StrmapInv, Moving, DelEnds
<1>2. /\ nodes' = Restrict(nodes, DOMAIN nodes \ {v}) /\ call' = Idle /\ at' = Root
      /\ UNCHANGED <<root, todo, result, misuse>>
  BY DEF DelEnds
<1>3. /\ v \in Alloc /\ \A n \in Others : nodes[n].held
      /\ \E own, ups : Forest(Others, Tops, D, Hs, own, ups)
  BY <1>1 DEF Mends
<1>4. /\ nodes' \in [Others -> Node] /\ Alloc' = Others
      /\ \A m \in Others : nodes'[m] = nodes[m] /\ Hs'[m] = Hs[m]
      /\ D'[Root] = D[Root] /\ \A m \in Others, s \in Sides : D'[Side(m, s)] = D[Side(m, s)]
  BY <1>1, <1>2, <1>3, Gone DEF Others
<1>5. Tops = {Root}
  <2>1. Pending = {}
    BY <1>1, OrderFacts DEF Pending, Orders
  <2> QED BY <2>1 DEF Tops
<1>6. PICK own, ups : Forest(Others, Tops, D, Hs, own, ups)
  BY <1>3
<1>7. Below(Others, own, Root) = Others
  BY <1>5, <1>6 DEF Forest, Below
<1>8. Tree(Others, Root, D, Hs, ups[Root])
  BY <1>5, <1>6, <1>7 DEF Forest
<1>9. Tree(Others, Root, D', Hs', ups[Root])
  <2>1. \A k \in LinksOf(Others, Root) : D'[k] = D[k]
    BY <1>4, LinkCases
  <2> QED BY <1>4, <1>8, <2>1, TreeSame
<1>10. ~ Searching' /\ ~ Freeing' /\ ~ Moving'
  BY <1>2 DEF Searching, Freeing, Moving, Idle
<1>11. Stands'
  BY <1>3, <1>4, <1>9, <1>10 DEF Stands
<1>12. Typed'
  <2>1. Root \in Link
    BY DEF Root, Link
  <2>2. Others \subseteq Addr
    BY <1>1 DEF Others, LinksRead
  <2> QED BY <1>1, <1>2, <1>4, <2>1, <2>2 DEF Typed, StrmapTypeOK, Alloc
<1> QED BY <1>1, <1>2, <1>10, <1>11, <1>12 DEF StrmapInv, Mends, Falls

-----------------------------------------------------------------------------
(* The stack of strmap_free. *)
LEMMA TopFacts ==
  ASSUME NEW q \in Seq(Entry), q # <<>>, Unique(q)
  PROVE  /\ Head(q) \in Among(q) /\ Head(q) \in Entry /\ Among(q) \subseteq Entry
         /\ Tail(q) \in Seq(Entry) /\ Unique(Tail(q)) /\ Among(Tail(q)) = Among(q) \ {Head(q)}
         /\ \A e \in Among(q) : e.node = Head(q).node => e = Head(q)
<1>1. Len(q) \in Nat /\ Len(q) >= 1 /\ Head(q) = q[1] /\ \A i \in 1..Len(q) : q[i] \in Entry
  OBVIOUS
<1>2. Tail(q) \in Seq(Entry) /\ Len(Tail(q)) = Len(q) - 1 /\ \A i \in 1..Len(q) - 1 : Tail(q)[i] = q[i + 1]
  OBVIOUS
<1> DEFINE t == Tail(q)
<1> HIDE DEF t
<1>3. Unique(t)
  BY <1>1, <1>2 DEF Unique, t
<1>4. \A e \in Among(q) : e.node = Head(q).node => e = Head(q)
  BY <1>1 DEF Among, Unique
<1>5. Among(t) \subseteq Among(q) \ {Head(q)}
  <2> SUFFICES ASSUME NEW i \in 1..Len(t) PROVE t[i] \in Among(q) \ {Head(q)}
    BY DEF Among
  <2>1. i \in 1..Len(q) - 1 /\ t[i] = q[i + 1] /\ i + 1 \in 1..Len(q) /\ i + 1 # 1
    BY <1>1, <1>2 DEF t
  <2>2. q[i + 1] # q[1]
    BY <1>1, <2>1 DEF Unique
  <2> QED BY <1>1, <2>1, <2>2 DEF Among
<1>6. Among(q) \ {Head(q)} \subseteq Among(t)
  <2> SUFFICES ASSUME NEW i \in 1..Len(q), q[i] # Head(q) PROVE q[i] \in Among(t)
    BY DEF Among
  <2>1. i # 1
    BY <1>1
  <2>2. i - 1 \in 1..Len(t) /\ t[i - 1] = q[i]
    BY <1>1, <1>2, <2>1 DEF t
  <2> QED BY <2>2 DEF Among
<1>7. Head(q) \in Among(q) /\ Among(q) \subseteq Entry
  BY <1>1 DEF Among
<1>8. Head(q) \in Entry
  BY <1>1
<1> QED BY <1>2, <1>3, <1>4, <1>5, <1>6, <1>7, <1>8 DEF t

(* The top entry goes on to its next step. *)
LEMMA NextFacts ==
  ASSUME NEW q \in Seq(Entry), q # <<>>, Unique(q), NEW x \in {"l", "r", "free"},
         NEW c, c = [q EXCEPT ![1].next = x]
  PROVE  LET e == [node |-> Head(q).node, next |-> x]
         IN  /\ c \in Seq(Entry) /\ Unique(c) /\ e \in Entry
             /\ Among(c) = (Among(q) \ {Head(q)}) \cup {e}
<1> DEFINE e == [node |-> Head(q).node, next |-> x]
<1>1. Len(q) \in Nat /\ Len(q) >= 1 /\ Head(q) = q[1] /\ \A i \in 1..Len(q) : q[i] \in Entry
  OBVIOUS
<1>2. e \in Entry /\ [q[1] EXCEPT !.next = x] = e
  BY <1>1 DEF Entry
<1>3. c = [q EXCEPT ![1] = e]
  BY <1>2
<1> HIDE DEF e
<1>4. c \in Seq(Entry) /\ Len(c) = Len(q) /\ c[1] = e /\ \A i \in 2..Len(q) : c[i] = q[i]
  BY <1>1, <1>2, <1>3
<1>5. e.node = q[1].node
  BY <1>1 DEF e
<1>6. Unique(c)
  <2>1. \A i \in 1..Len(q) : c[i].node = q[i].node
    BY <1>1, <1>4, <1>5
  <2> QED BY <1>4, <2>1 DEF Unique
<1>7. Among(c) \subseteq (Among(q) \ {Head(q)}) \cup {e}
  <2> SUFFICES ASSUME NEW i \in 1..Len(c), i # 1 PROVE c[i] \in Among(q) \ {Head(q)}
    BY <1>4 DEF Among
  <2>1. c[i] = q[i] /\ i \in 1..Len(q)
    BY <1>1, <1>4
  <2>2. q[i] # q[1]
    BY <1>1, <2>1 DEF Unique
  <2> QED BY <1>1, <2>1, <2>2 DEF Among
<1>8. (Among(q) \ {Head(q)}) \cup {e} \subseteq Among(c)
  <2>1. e \in Among(c)
    BY <1>1, <1>4 DEF Among
  <2>2. ASSUME NEW i \in 1..Len(q), q[i] # Head(q) PROVE q[i] \in Among(c)
    <3>1. i # 1
      BY <1>1, <2>2
    <3>2. i \in 1..Len(c) /\ c[i] = q[i]
      BY <1>1, <1>4, <3>1
    <3> QED BY <3>2 DEF Among
  <2> QED BY <2>1, <2>2 DEF Among
<1> QED BY <1>2, <1>4, <1>6, <1>7, <1>8 DEF e

(* A call of strmap_free on top of the stack. *)
LEMMA VisitFacts ==
  ASSUME NEW q \in Seq(Entry), Unique(q), NEW m \in Addr \cup {NULL},
         m # NULL => \A e \in Among(q) : e.node # m
  PROVE  LET e == [node |-> m, next |-> "l"]
         IN  /\ Visit(m) \o q \in Seq(Entry) /\ Unique(Visit(m) \o q)
             /\ Among(Visit(m) \o q) = IF m = NULL THEN Among(q) ELSE Among(q) \cup {e}
<1> DEFINE e == [node |-> m, next |-> "l"]
           p == Visit(m)
           c == p \o q
<1>1. CASE m = NULL
  <2>1. p = <<>>
    BY <1>1 DEF Visit
  <2>2. c = q
    BY <2>1
  <2> QED BY <1>1, <2>2
<1>2. CASE m # NULL
  <2>1. e \in Entry /\ e.node = m
    BY <1>2 DEF Entry
  <2>2. p = <<e>>
    BY <1>2 DEF Visit
  <2> HIDE DEF e
  <2>3. p \in Seq(Entry) /\ Len(p) = 1 /\ p[1] = e
    BY <2>1, <2>2
  <2> HIDE DEF p
  <2>4. Len(q) \in Nat /\ \A i \in 1..Len(q) : q[i] \in Entry
    OBVIOUS
  <2>5. c \in Seq(Entry) /\ Len(c) = Len(q) + 1 /\ c[1] = e /\ \A i \in 1..Len(q) : c[i + 1] = q[i]
    BY <2>3, <2>4, ConcatProperties
  <2> HIDE DEF c
  <2>6. Unique(c)
    <3>1. ASSUME NEW i \in 1..Len(c), NEW j \in 1..Len(c), c[i].node = c[j].node PROVE i = j
      <4>1. i = 1 \/ (i - 1 \in 1..Len(q) /\ c[i] = q[i - 1])
        <5>1. i # 1 => i - 1 \in 1..Len(q) /\ (i - 1) + 1 = i
          BY <2>4, <2>5
        <5> QED BY <2>5, <5>1
      <4>2. j = 1 \/ (j - 1 \in 1..Len(q) /\ c[j] = q[j - 1])
        <5>1. j # 1 => j - 1 \in 1..Len(q) /\ (j - 1) + 1 = j
          BY <2>4, <2>5
        <5> QED BY <2>5, <5>1
      <4>3. \A k \in 1..Len(q) : q[k].node # m
        BY <1>2 DEF Among
      <4>4. CASE i = 1 \/ j = 1
        BY <2>1, <2>5, <3>1, <4>1, <4>2, <4>3, <4>4
      <4>5. CASE i # 1 /\ j # 1
        <5>1. i - 1 = j - 1
          BY <3>1, <4>1, <4>2, <4>5 DEF Unique
        <5> QED BY <5>1
      <4> QED BY <4>4, <4>5
    <3> QED BY <3>1 DEF Unique
  <2>7. Among(c) = Among(q) \cup {e}
    <3>1. \A i \in 1..Len(c) : c[i] \in Among(q) \cup {e}
      <4> TAKE i \in 1..Len(c)
      <4>1. i # 1 => i - 1 \in 1..Len(q) /\ (i - 1) + 1 = i
        BY <2>4, <2>5
      <4> QED BY <2>5, <4>1 DEF Among
    <3>2. \A i \in 1..Len(q) : i + 1 \in 1..Len(c) /\ 1 \in 1..Len(c)
      BY <2>4, <2>5
    <3>3. e \in Among(c)
      BY <2>4, <2>5 DEF Among
    <3>4. \A i \in 1..Len(q) : q[i] \in Among(c)
      BY <2>5, <3>2 DEF Among
    <3> QED BY <3>1, <3>3, <3>4 DEF Among
  <2> QED BY <1>2, <2>5, <2>6, <2>7 DEF c, e, p
<1> QED BY <1>1, <1>2

(* The links that a call still has to visit, once it went down the link k *)
(* that holds m.                                                           *)
Visited(P, k, m) == (P \ {k}) \cup (IF m = NULL THEN {} ELSE {Side(m, "l"), Side(m, "r")})

LEMMA VisitForest ==
  ASSUME NEW A, NEW P, NEW own, NEW ups, Forest(A, P, D, Hs, own, ups),
         NEW k \in P, NEW m, D[k] = m, \A j \in P : j.of \notin A
  PROVE  /\ m # NULL => m \in A
         /\ \E on, us : Forest(A \ (IF m = NULL THEN {} ELSE {m}), Visited(P, k, m), D, Hs, on, us)
<1>1. CASE m = NULL
  <2>1. Forest(A, P \ {k}, D, Hs, own, ups)
    BY <1>1, Shut
  <2> QED BY <1>1, <2>1 DEF Visited
<1>2. CASE m # NULL
  <2> DEFINE d == D
             hs == Hs
  <2>1. Forest(A, P, d, hs, own, ups) /\ d[k] = m
    OBVIOUS
  <2> HIDE DEF d, hs
  <2>2. m \in A
    BY <1>2, <2>1, Open
  <2>3. \E on, us : Forest(A \ {m}, (P \ {k}) \cup {Side(m, "l"), Side(m, "r")}, d, hs, on, us)
    BY <1>2, <2>1, Open
  <2> QED BY <1>2, <2>2, <2>3 DEF Visited, d, hs
<1> QED BY <1>1, <1>2

LEMMA BeginFreeOK == StrmapInv /\ BeginFree => StrmapInv'
<1> SUFFICES ASSUME StrmapInv, BeginFree PROVE StrmapInv'
  OBVIOUS
<1>1. LinksRead /\ Typed /\ Stands /\ misuse = FALSE /\ call.op = "none"
  BY LinkFacts DEF StrmapInv, BeginFree, Idle
<1>2. call' \in Frees /\ todo' = Visit(root) /\ UNCHANGED <<nodes, root, at, result, misuse>>
  BY DEF BeginFree
<1>3. Alloc' = Alloc /\ D' = D /\ Hs' = Hs /\ nodes' \in [Alloc' -> Node]
  BY <1>1, <1>2, Kept
<1>4. \A n \in Alloc : nodes[n].held
  BY <1>1 DEF Stands
<1>5. PICK up : Tree(Alloc, Root, D, Hs, up)
  BY <1>1 DEF Stands
<1> DEFINE own == [n \in Alloc |-> Root]
           ups == [k \in {Root} |-> up]
           M == IF root = NULL THEN {} ELSE {root}
<1>6. Forest(Alloc, {Root}, D, Hs, own, ups)
  <2>1. Below(Alloc, own, Root) = Alloc
    BY DEF Below
  <2> QED BY <1>5, <2>1 DEF Forest
<1>7. /\ root # NULL => root \in Alloc
      /\ \E on, us : Forest(Alloc \ M, Visited({Root}, Root, root), D, Hs, on, us)
  <2>1. \A j \in {Root} : j.of \notin Alloc
    BY <1>1 DEF LinksRead
  <2>2. D[Root] = root
    BY <1>1 DEF LinksRead
  <2> HIDE DEF own, ups
  <2> QED BY <1>6, <2>1, <2>2, VisitForest
<1>8. /\ todo' \in Seq(Entry) /\ Unique(todo')
      /\ Among(todo') = IF root = NULL THEN {} ELSE {[node |-> root, next |-> "l"]}
  <2> DEFINE q == <<>>
  <2>1. q \in Seq(Entry) /\ Unique(q) /\ Among(q) = {}
    BY DEF Unique, Among
  <2>2. Visit(root) \o q = Visit(root)
    BY DEF Visit
  <2>3. root \in Addr \cup {NULL}
    BY <1>1 DEF Typed, StrmapTypeOK
  <2> HIDE DEF q
  <2> QED BY <1>2, <2>1, <2>2, <2>3, VisitFacts
<1>9. Stack' = M /\ Owed' = Visited({Root}, Root, root)
  <2>1. CASE root = NULL
    <3>1. Among(todo') = {}
      BY <1>8, <2>1
    <3> QED BY <2>1, <3>1 DEF Stack, Owed, Visited
  <2>2. CASE root # NULL
    <3> DEFINE e == [node |-> root, next |-> "l"]
    <3>1. Among(todo') = {e}
      BY <1>8, <2>2
    <3>2. e.node = root /\ e.next = "l"
      OBVIOUS
    <3> HIDE DEF e
    <3>3. Owed' = {Side(root, "l")} \cup {Side(root, "r")}
      BY <3>1, <3>2 DEF Owed
    <3>4. Visited({Root}, Root, root) = {Side(root, "l"), Side(root, "r")}
      BY <2>2 DEF Visited
    <3> QED BY <2>2, <3>1, <3>2, <3>3, <3>4 DEF Stack
  <2> QED BY <2>1, <2>2
<1>10. Freeing' /\ ~ Searching' /\ ~ Moving' /\ call'.op # "none"
  BY <1>2 DEF Frees, Freeing, Searching, Moving
<1>11. Typed'
  <2>1. \A i \in 1..Len(todo') : todo'[i] \in Entry
    BY <1>8
  <2> QED BY <1>1, <1>2, <1>3, <1>8, <2>1 DEF Typed, StrmapTypeOK, Alloc, Entry
<1>12. Falls'
  <2>1. \A e \in Among(todo') : nodes'[e.node].held <=> e.next = "l"
    BY <1>2, <1>4, <1>7, <1>8
  <2>2. \E on, us : Forest(Alloc' \ Stack', Owed', D', Hs', on, us)
    BY <1>3, <1>7, <1>9
  <2>3. Stack' \subseteq Alloc' /\ \A n \in Alloc' : nodes'[n].held
    BY <1>2, <1>3, <1>4, <1>7, <1>9
  <2> QED BY <1>8, <2>1, <2>2, <2>3 DEF Falls
<1> QED BY <1>1, <1>2, <1>10, <1>11, <1>12 DEF StrmapInv, Stands, Mends

(* A step of strmap_free down the link k of the node on top of the stack. *)
LEMMA FreeSide ==
  ASSUME StrmapInv, Freeing, todo # <<>>, NEW s \in Sides, Head(todo).next = s,
         NEW x, x = (IF s = "l" THEN "r" ELSE "free"),
         todo' = Visit(nodes[Head(todo).node][s]) \o Caller, UNCHANGED <<root, call, at, result>>,
         misuse' = FALSE, Alloc' = Alloc, D' = D, Hs' = Hs, nodes' \in [Alloc' -> Node],
         \A n \in Alloc : n # Head(todo).node => nodes'[n].held = nodes[n].held,
         call.op = "free_fn" => ~ nodes'[Head(todo).node].held
  PROVE  StrmapInv'
<1> DEFINE h == Head(todo)
           n == h.node
           m == nodes[n][s]
           k == Side(n, s)
           f == [node |-> n, next |-> x]
           e == [node |-> m, next |-> "l"]
           M == IF m = NULL THEN {} ELSE {m}
<1>1. LinksRead /\ CallsRead /\ Typed /\ Falls /\ misuse = FALSE
  BY LinkFacts, CallFacts DEF StrmapInv
<1>2. /\ Stack \subseteq Alloc /\ Unique(todo)
      /\ call.op = "free_fn" =>
         /\ \A a \in Alloc \ Stack : nodes[a].held
         /\ \A a \in Among(todo) : nodes[a.node].held <=> a.next = "l"
      /\ \E own, ups : Forest(Alloc \ Stack, Owed, D, Hs, own, ups)
  BY <1>1 DEF Falls
<1>3. todo \in Seq(Entry) /\ x \in {"l", "r", "free"} /\ (s = "l" \/ s = "r")
  BY <1>1 DEF Typed, Sides
<1>4. /\ h \in Among(todo) /\ h \in Entry
      /\ \A a \in Among(todo) : a.node = n => a = h
  BY <1>2, <1>3, TopFacts
<1>5. h.next = s /\ n \in Stack /\ n \in Alloc /\ k \in Owed
  <2>1. n \in Stack /\ n \in Alloc
    BY <1>2, <1>4 DEF Stack
  <2>2. k \in Owed
    BY <1>3, <1>4 DEF Owed
  <2> QED BY <2>1, <2>2
<1>6. Caller \in Seq(Entry) /\ Unique(Caller) /\ f \in Entry /\ Among(Caller) = (Among(todo) \ {h}) \cup {f}
  <2>1. Caller = [todo EXCEPT ![1].next = x]
    <3>1. todo[1] = h
      BY <1>3
    <3> QED BY <3>1 DEF Caller
  <2> QED BY <1>2, <1>3, <2>1, NextFacts
<1>7. PICK own, ups : Forest(Alloc \ Stack, Owed, D, Hs, own, ups)
  BY <1>2
<1>8. D[k] = m /\ m \in Addr \cup {NULL}
  <2>1. nodes[n] \in Node
    BY <1>1, <1>5 DEF LinksRead
  <2> QED BY <1>1, <1>3, <1>5, <2>1 DEF LinksRead, Node
<1> HIDE DEF h, m
<1>9. /\ m # NULL => m \in Alloc \ Stack
      /\ \E on, us : Forest((Alloc \ Stack) \ M, Visited(Owed, k, m), D, Hs, on, us)
  <2>1. \A j \in Owed : j.of \notin Alloc \ Stack
    BY SideFacts DEF Owed, Stack
  <2> QED BY <1>5, <1>7, <1>8, <2>1, VisitForest
<1>10. m # NULL => \A a \in Among(Caller) : a.node # m
  BY <1>5, <1>6, <1>9 DEF Stack
<1>11. /\ todo' \in Seq(Entry) /\ Unique(todo')
       /\ Among(todo') = IF m = NULL THEN Among(Caller) ELSE Among(Caller) \cup {e}
  <2>1. todo' = Visit(m) \o Caller
    BY DEF m, h
  <2> QED BY <1>6, <1>8, <1>10, <2>1, VisitFacts
<1>12. f.node = n /\ f.next = x /\ e.node = m /\ e.next = "l"
  OBVIOUS
<1> HIDE DEF e, f
<1>13. Stack' = Stack \cup M
  <2>1. {a.node : a \in Among(Caller)} = Stack
    BY <1>4, <1>6, <1>12 DEF Stack
  <2> QED BY <1>11, <1>12, <2>1 DEF Stack
<1>14. Owed' = Visited(Owed, k, m)
  <2> DEFINE O(T) == {Side(a.node, "l") : a \in {b \in T : b.next = "l"}}
                     \cup {Side(a.node, "r") : a \in {b \in T : b.next # "free"}}
  <2>1. Owed = O(Among(todo)) /\ Owed' = O(Among(todo'))
    BY DEF Owed
  <2>2. O(Among(Caller)) = Owed \ {k}
    <3>1. \A a \in Among(todo) : a # h => a.node # n
      BY <1>4
    <3>2. CASE s = "l"
      <4>1. x = "r" /\ h.next = "l" /\ k = Side(n, "l")
        BY <1>5, <3>2
      <4> QED BY <1>4, <1>6, <1>12, <2>1, <3>1, <4>1, SideFacts DEF h
    <3>3. CASE s = "r"
      <4>1. x = "free" /\ h.next = "r" /\ k = Side(n, "r")
        BY <1>5, <3>3
      <4> QED BY <1>4, <1>6, <1>12, <2>1, <3>1, <4>1, SideFacts DEF h
    <3> QED BY <1>3, <3>2, <3>3
  <2>3. m # NULL => O(Among(Caller) \cup {e}) = O(Among(Caller)) \cup {Side(m, "l"), Side(m, "r")}
    BY <1>12
  <2> QED BY <1>11, <2>1, <2>2, <2>3 DEF Visited
<1>15. Typed'
  <2>1. \A i \in 1..Len(todo') : todo'[i] \in Entry
    <3>1. todo' \in Seq(Entry)
      BY <1>11
    <3> HIDE DEF Entry
    <3> QED BY <3>1
  <2> QED BY <1>1, <1>11, <2>1 DEF Typed, StrmapTypeOK, Alloc, Entry
<1>16. Falls'
  <2>1. Stack' \subseteq Alloc'
    BY <1>2, <1>9, <1>13
  <2>2. \E on, us : Forest(Alloc' \ Stack', Owed', D', Hs', on, us)
    <3>1. Alloc' \ Stack' = (Alloc \ Stack) \ M
      BY <1>13
    <3> QED BY <1>9, <1>14, <3>1
  <2>3. ASSUME call'.op = "free_fn", NEW a \in Alloc' \ Stack' PROVE nodes'[a].held
    BY <1>2, <1>5, <1>13, <2>3 DEF h
  <2>4. ASSUME call'.op = "free_fn", NEW a \in Among(todo') PROVE nodes'[a.node].held <=> a.next = "l"
    <3>1. CASE a = f
      BY <1>3, <1>12, <2>4, <3>1 DEF h
    <3>2. CASE m # NULL /\ a = e
      <4>1. m \in Alloc \ Stack /\ m # n /\ nodes[m].held
        BY <1>2, <1>5, <1>9, <2>4, <3>2
      <4>2. nodes'[m].held = nodes[m].held
        BY <4>1 DEF h
      <4> QED BY <1>12, <3>2, <4>1, <4>2
    <3>3. CASE a \in Among(todo) \ {h}
      <4>1. a.node # n /\ a.node \in Alloc
        BY <1>2, <1>4, <3>3 DEF Stack
      <4>2. nodes'[a.node].held = nodes[a.node].held
        BY <4>1 DEF h
      <4> QED BY <1>2, <2>4, <3>3, <4>2
    <3> QED BY <1>6, <1>11, <3>1, <3>2, <3>3
  <2> QED BY <1>11, <2>1, <2>2, <2>3, <2>4 DEF Falls
<1>17. ~ Searching' /\ ~ Moving' /\ call'.op # "none"
  BY <1>1 DEF Freeing, Searching, Moving
<1> QED BY <1>15, <1>16, <1>17 DEF StrmapInv, Stands, Mends

(* What a step of strmap_free has at hand. *)
LEMMA FreeFacts ==
  ASSUME StrmapInv, Freeing, todo # <<>>
  PROVE  LET h == Head(todo)
         IN  /\ todo \in Seq(Entry) /\ Unique(todo) /\ h \in Among(todo) /\ h \in Entry
             /\ h.node \in Alloc
             /\ call.op = "free_fn" => (nodes[h.node].held <=> h.next = "l")
<1>1. Typed /\ Falls
  BY DEF StrmapInv
<1>2. todo \in Seq(Entry) /\ Unique(todo) /\ Stack \subseteq Alloc
      /\ (call.op = "free_fn" => \A a \in Among(todo) : nodes[a.node].held <=> a.next = "l")
  BY <1>1 DEF Falls, Typed
<1>3. Head(todo) \in Among(todo) /\ Head(todo) \in Entry
  BY <1>2, TopFacts
<1>4. Head(todo).node \in Alloc
  BY <1>2, <1>3 DEF Stack
<1> QED BY <1>2, <1>3, <1>4

LEMMA FreeLeftOK == StrmapInv /\ FreeLeft => StrmapInv'
<1> SUFFICES ASSUME StrmapInv, FreeLeft PROVE StrmapInv'
  OBVIOUS
<1> DEFINE h == Head(todo)
<1>1. Freeing /\ todo # <<>> /\ h.next = "l" /\ UNCHANGED <<root, call, at, result>>
      /\ todo' = Visit(nodes[h.node]["l"]) \o Caller
  BY DEF FreeLeft
<1>2. Typed /\ misuse = FALSE
  BY DEF StrmapInv
<1>3. h.node \in Alloc /\ (call.op = "free_fn" => nodes[h.node].held)
  BY <1>1, FreeFacts
<1>4. /\ misuse' = FALSE /\ Alloc' = Alloc /\ D' = D /\ Hs' = Hs /\ nodes' \in [Alloc' -> Node]
      /\ \A n \in Alloc : n # h.node => nodes'[n].held = nodes[n].held
      /\ call.op = "free_fn" => ~ nodes'[h.node].held
  <2>1. CASE call.op = "free_fn"
    <3>1. Release(h.node)
      BY <2>1 DEF FreeLeft
    <3>2. misuse' = FALSE
      BY <1>2, <1>3, <2>1, <3>1 DEF Release
    <3> HIDE DEF h
    <3> QED BY <1>1, <1>2, <1>3, <3>1, <3>2, Released
  <2>2. CASE call.op # "free_fn"
    <3>1. UNCHANGED <<nodes, root>> /\ misuse' = FALSE
      BY <1>1, <1>2, <2>2 DEF FreeLeft
    <3> QED BY <1>2, <2>2, <3>1, Kept
  <2> QED BY <2>1, <2>2
<1>5. "l" \in Sides
  BY DEF Sides
<1> HIDE DEF h
<1> DEFINE s == "l"
           x == "r"
<1>6. s \in Sides /\ h.next = s /\ x = (IF s = "l" THEN "r" ELSE "free")
      /\ todo' = Visit(nodes[h.node][s]) \o Caller
  BY <1>1, <1>5
<1> HIDE DEF s, x
<1> QED BY <1>1, <1>4, <1>6, FreeSide DEF h

LEMMA FreeRightOK == StrmapInv /\ FreeRight => StrmapInv'
<1> SUFFICES ASSUME StrmapInv, FreeRight PROVE StrmapInv'
  OBVIOUS
<1> DEFINE h == Head(todo)
<1>1. Freeing /\ todo # <<>> /\ h.next = "r" /\ UNCHANGED <<nodes, root, call, at, result, misuse>>
      /\ todo' = Visit(nodes[h.node]["r"]) \o Caller
  BY DEF FreeRight
<1>2. Typed /\ misuse = FALSE
  BY DEF StrmapInv
<1>3. h.node \in Alloc /\ (call.op = "free_fn" => ~ nodes[h.node].held)
  BY <1>1, FreeFacts
<1>4. /\ misuse' = FALSE /\ Alloc' = Alloc /\ D' = D /\ Hs' = Hs /\ nodes' \in [Alloc' -> Node]
      /\ \A n \in Alloc : n # h.node => nodes'[n].held = nodes[n].held
      /\ call.op = "free_fn" => ~ nodes'[h.node].held
  BY <1>1, <1>2, <1>3, Kept
<1>5. "r" \in Sides
  BY DEF Sides
<1> HIDE DEF h
<1> DEFINE s == "r"
           x == "free"
<1>6. s \in Sides /\ h.next = s /\ x = (IF s = "l" THEN "r" ELSE "free")
      /\ todo' = Visit(nodes[h.node][s]) \o Caller
  BY <1>1, <1>5
<1> HIDE DEF s, x
<1> QED BY <1>1, <1>4, <1>6, FreeSide DEF h

LEMMA FreeNodeOK == StrmapInv /\ FreeNode => StrmapInv'
<1> SUFFICES ASSUME StrmapInv, FreeNode PROVE StrmapInv'
  OBVIOUS
<1> DEFINE h == Head(todo)
           n == h.node
<1>1. /\ Freeing /\ todo # <<>> /\ h.next = "free" /\ UNCHANGED <<root, call, at, result>>
      /\ todo' = Tail(todo) /\ nodes' = Restrict(nodes, DOMAIN nodes \ {n})
  BY DEF FreeNode
<1>2. LinksRead /\ CallsRead /\ Typed /\ Falls /\ misuse = FALSE
  BY LinkFacts, CallFacts DEF StrmapInv
<1>3. /\ todo \in Seq(Entry) /\ Unique(todo) /\ h \in Among(todo) /\ h \in Entry /\ n \in Alloc
      /\ call.op = "free_fn" => ~ nodes[n].held
  BY <1>1, FreeFacts
<1>4. misuse' = FALSE
  BY <1>2, <1>3 DEF FreeNode
<1> HIDE DEF h
<1>5. /\ todo' \in Seq(Entry) /\ Unique(todo') /\ Among(todo') = Among(todo) \ {h}
      /\ \A a \in Among(todo) : a.node = n => a = h
  BY <1>1, <1>3, TopFacts DEF h
<1>6. /\ Stack \subseteq Alloc
      /\ call.op = "free_fn" =>
         /\ \A a \in Alloc \ Stack : nodes[a].held
         /\ \A a \in Among(todo) : nodes[a.node].held <=> a.next = "l"
      /\ \E own, ups : Forest(Alloc \ Stack, Owed, D, Hs, own, ups)
  BY <1>1, <1>2 DEF Falls
<1>7. /\ nodes' \in [Alloc \ {n} -> Node] /\ Alloc' = Alloc \ {n}
      /\ \A m \in Alloc \ {n} : nodes'[m] = nodes[m] /\ Hs'[m] = Hs[m]
      /\ D'[Root] = D[Root] /\ \A m \in Alloc \ {n}, s \in Sides : D'[Side(m, s)] = D[Side(m, s)]
  BY <1>1, <1>2, <1>3, Gone
<1>8. Stack' = Stack \ {n} /\ n \in Stack
  BY <1>3, <1>5 DEF Stack
<1>9. Owed' = Owed
  BY <1>1, <1>3, <1>5 DEF Owed
<1>10. Alloc' \ Stack' = Alloc \ Stack
  BY <1>7, <1>8
<1>11. PICK own, ups : Forest(Alloc \ Stack, Owed, D, Hs, own, ups)
  BY <1>6
<1>12. Forest(Alloc \ Stack, Owed, D', Hs', own, ups)
  <2> SUFFICES ASSUME NEW k \in Owed
               PROVE  Tree(Below(Alloc \ Stack, own, k), k, D', Hs', ups[k])
    BY <1>11 DEF Forest
  <2>1. Tree(Below(Alloc \ Stack, own, k), k, D, Hs, ups[k])
    BY <1>11 DEF Forest
  <2>2. Below(Alloc \ Stack, own, k) \subseteq Alloc \ {n}
    BY <1>8 DEF Below
  <2>3. \E e \in Among(todo), s \in Sides : k = Side(e.node, s) /\ e # h
    BY <1>1 DEF Owed, Sides
  <2>4. PICK e \in Among(todo), s \in Sides : k = Side(e.node, s) /\ e # h
    BY <2>3
  <2>5. e.node \in Alloc \ {n}
    BY <1>5, <1>6, <2>4 DEF Stack
  <2>6. \A j \in LinksOf(Below(Alloc \ Stack, own, k), k) : D'[j] = D[j]
    <3> TAKE j \in LinksOf(Below(Alloc \ Stack, own, k), k)
    <3>1. CASE j = k
      BY <1>7, <2>4, <2>5, <3>1
    <3>2. CASE j # k
      <4>1. PICK m \in Below(Alloc \ Stack, own, k), t \in Sides : j = Side(m, t)
        BY <3>2, LinkCases
      <4> QED BY <1>7, <2>2, <4>1
    <3> QED BY <3>1, <3>2
  <2>7. \A m \in Below(Alloc \ Stack, own, k) : Hs'[m] = Hs[m]
    BY <1>7, <2>2
  <2> QED BY <2>1, <2>6, <2>7, TreeSame
<1>13. Typed'
  <2>1. \A i \in 1..Len(todo') : todo'[i] \in Entry
    BY <1>5
  <2>2. Alloc' \subseteq Addr
    BY <1>2, <1>7 DEF LinksRead
  <2> QED BY <1>1, <1>2, <1>4, <1>5, <1>7, <2>1, <2>2 DEF Typed, StrmapTypeOK, Alloc, Entry
<1>14. Falls'
  <2>1. Stack' \subseteq Alloc'
    BY <1>6, <1>7, <1>8
  <2>2. \E on, us : Forest(Alloc' \ Stack', Owed', D', Hs', on, us)
    BY <1>9, <1>10, <1>12
  <2>3. ASSUME call'.op = "free_fn", NEW a \in Alloc' \ Stack' PROVE nodes'[a].held
    BY <1>1, <1>6, <1>7, <1>10, <2>3
  <2>4. ASSUME call'.op = "free_fn", NEW a \in Among(todo') PROVE nodes'[a.node].held <=> a.next = "l"
    <3>1. a \in Among(todo) /\ a # h
      BY <1>5
    <3>2. a.node \in Alloc \ {n}
      BY <1>5, <1>6, <3>1 DEF Stack
    <3> QED BY <1>1, <1>6, <1>7, <2>4, <3>1, <3>2
  <2> QED BY <1>5, <2>1, <2>2, <2>3, <2>4 DEF Falls
<1>15. ~ Searching' /\ ~ Moving' /\ call'.op # "none"
  BY <1>1 DEF Freeing, Searching, Moving
<1> QED BY <1>4, <1>13, <1>14, <1>15 DEF StrmapInv, Stands, Mends

-----------------------------------------------------------------------------
LEMMA InitOK == StrmapInit => StrmapInv
<1> SUFFICES ASSUME StrmapInit PROVE StrmapInv
  OBVIOUS
<1>1. nodes = [n \in {} |-> NULL] /\ root = NULL /\ call = Idle /\ at = Root /\ todo = <<>>
      /\ result = NoVal /\ misuse = FALSE
  BY DEF StrmapInit
<1>2. Alloc = {} /\ nodes \in [Alloc -> Node]
  BY <1>1 DEF Alloc
<1>3. Typed
  <2>1. Root \in Link
    BY DEF Root, Link
  <2>2. todo \in Seq(Entry) /\ \A i \in 1..Len(todo) : todo[i] \in Entry
    BY <1>1
  <2> QED BY <1>1, <1>2, <2>1, <2>2 DEF Typed, StrmapTypeOK, Alloc, Entry
<1>4. \E up : Tree(Alloc, Root, D, Hs, up)
  <2>1. D[Root] = NULL /\ Root \notin {Side(NULL, s) : s \in Sides}
    BY <1>1, <1>3, LinkFacts DEF LinksRead
  <2> QED BY <1>2, <2>1, Bud
<1>5. ~ Searching /\ ~ Moving /\ ~ Freeing
  BY <1>1 DEF Idle, Searching, Moving, Freeing
<1>6. Stands
  BY <1>2, <1>4, <1>5 DEF Stands
<1> QED BY <1>1, <1>3, <1>5, <1>6 DEF StrmapInv, Mends, Falls

LEMMA IdleOK == StrmapInv /\ UNCHANGED strmapVars => StrmapInv'
<1> SUFFICES ASSUME StrmapInv, UNCHANGED strmapVars PROVE StrmapInv'
  OBVIOUS
<1>1. UNCHANGED <<nodes, root, call, at, todo, result, misuse>>
  BY DEF strmapVars
<1>2. Alloc' = Alloc /\ D' = D /\ Hs' = Hs
  BY <1>1, Kept
<1>3. /\ Typed' = Typed /\ Searching' = Searching /\ Moving' = Moving /\ Freeing' = Freeing
      /\ Others' = Others /\ Tops' = Tops /\ Stack' = Stack /\ Owed' = Owed /\ Pending' = Pending
  BY <1>1, <1>2 DEF Typed, StrmapTypeOK, Searching, Moving, Freeing, Others, Tops, Pending, Stack, Owed, Alloc
<1>4. Stands'
  BY <1>1, <1>2, <1>3 DEF StrmapInv, Stands
<1>5. Mends'
  BY <1>1, <1>2, <1>3 DEF StrmapInv, Mends, Reaches
<1>6. Falls'
  BY <1>1, <1>2, <1>3 DEF StrmapInv, Falls
<1> QED BY <1>1, <1>3, <1>4, <1>5, <1>6 DEF StrmapInv

LEMMA NextOK == StrmapInv /\ [StrmapNext]_strmapVars => StrmapInv'
<1> SUFFICES ASSUME StrmapInv, [StrmapNext]_strmapVars PROVE StrmapInv'
  OBVIOUS
<1>1. ASSUME SetBelow \/ GetBelow \/ DelBelow PROVE StrmapInv'
  <2>1. Searching /\ NotThere /\ Descend(call.hash)
    BY <1>1 DEF SetBelow, GetBelow, DelBelow, Deleting, Searching
  <2> QED BY <2>1, BelowOK
<1>2. ASSUME GetEnds \/ DelNone PROVE StrmapInv'
  <2>1. Searching /\ UNCHANGED <<nodes, root, todo, misuse>> /\ call' = Idle /\ at' = Root
    BY <1>2 DEF GetEnds, DelNone, Deleting, Searching
  <2>2. result \in Val \cup {NoVal} /\ LinksRead
    BY LinkFacts DEF StrmapInv, Typed, StrmapTypeOK
  <2>3. result' \in Val \cup {NoVal}
    <3>1. CASE GetEnds /\ Found
      <4>1. Deref(at) \in Alloc
        BY <2>1, <3>1, Reach DEF Found
      <4>2. nodes[Deref(at)] \in Node
        BY <2>2, <4>1 DEF LinksRead
      <4> QED BY <3>1, <4>2 DEF GetEnds, Node
    <3>2. CASE GetEnds /\ ~ Found
      BY <3>2 DEF GetEnds
    <3>3. CASE DelNone
      BY <2>2, <3>3 DEF DelNone
    <3> QED BY <1>2, <3>1, <3>2, <3>3
  <2> QED BY <2>1, <2>3, BackOK
<1>3. ASSUME Perform PROVE StrmapInv'
  <2>1. CASE SetNew \/ SetReplace
    BY <2>1, SetNewOK, SetReplaceOK
  <2>2. CASE SetBelow \/ GetBelow \/ DelBelow \/ GetEnds \/ DelNone
    BY <1>1, <1>2, <2>2
  <2>3. CASE DelUnlink \/ DelRelease
    BY <2>3, DelUnlinkOK, DelReleaseOK
  <2>4. CASE AddBelow \/ AddHere \/ DelEnds
    BY <2>4, AddBelowOK, AddHereOK, DelEndsOK
  <2>5. CASE FreeLeft \/ FreeRight \/ FreeNode
    BY <2>5, FreeLeftOK, FreeRightOK, FreeNodeOK
  <2> QED BY <1>3, <2>1, <2>2, <2>3, <2>4, <2>5 DEF Perform
<1> QED BY <1>3, BeginOK, BeginFreeOK, IdleOK DEF StrmapNext

LEMMA StrmapInvariant == StrmapSpec => []StrmapInv
BY InitOK, NextOK, PTL DEF StrmapSpec

-----------------------------------------------------------------------------
(* Nodes, links, calls and the stack of strmap_free have their types.      *)
THEOREM StrmapTyped == StrmapSpec => []StrmapTypeOK
<1>1. StrmapInv => StrmapTypeOK
  BY DEF StrmapInv, Typed
<1> QED BY <1>1, StrmapInvariant, PTL

(* A key and its value are given back once.                                *)
THEOREM KeysGivenBackOnce == StrmapSpec => []ReleasedOnce
<1>1. StrmapInv => ReleasedOnce
  BY DEF StrmapInv, ReleasedOnce
<1> QED BY <1>1, StrmapInvariant, PTL

(* Whenever no call is in progress every allocated node hangs from the     *)
(* root by one chain of links, no link is left to a freed node, and        *)
(* strmap_free frees all.                                                  *)
THEOREM TreeStaysOne == StrmapSpec => []OneTree
<1>1. StrmapInv => OneTree
  <2> SUFFICES ASSUME StrmapInv PROVE OneTree
    OBVIOUS
  <2>1. LinksRead /\ Typed
    BY LinkFacts DEF StrmapInv
  <2>2. ASSUME call = Idle
        PROVE  /\ \A k \in Links : Deref(k) \in DOMAIN nodes \cup {NULL}
               /\ \A n \in DOMAIN nodes : Cardinality({k \in Links : Deref(k) = n}) = 1
               /\ \A S \in SUBSET DOMAIN nodes :
                    root \in S \cup {NULL} /\ (\A n \in S : {nodes[n].l, nodes[n].r} \subseteq S \cup {NULL})
                      => S = DOMAIN nodes
    <3>1. PICK up : Tree(Alloc, Root, D, Hs, up)
      BY <2>2 DEF StrmapInv, Stands, Idle
    <3>2. \A k \in Links : Deref(k) \in Alloc \cup {NULL}
      BY <2>1, <3>1 DEF LinksRead, Tree, Holds
    <3>3. ASSUME NEW n \in Alloc PROVE Cardinality({k \in Links : Deref(k) = n}) = 1
      <4>1. PICK k \in Links : D[k] = n /\ \A j \in Links : D[j] = n => j = k
        BY <2>1, <3>1, LinkTo DEF LinksRead
      <4>2. {j \in Links : Deref(j) = n} = {k}
        BY <2>1, <4>1 DEF LinksRead
      <4> QED BY <4>2, FS_Singleton
    <3>4. ASSUME NEW S \in SUBSET Alloc, root \in S \cup {NULL},
                 \A n \in S : {nodes[n].l, nodes[n].r} \subseteq S \cup {NULL}
          PROVE  S = Alloc
      <4>1. \A n \in S \cap Alloc, s \in Sides : D[Side(n, s)] \in S \cup {NULL}
        BY <2>1, <3>4 DEF LinksRead, Sides
      <4>2. D[Root] \in S \cup {NULL} /\ IsFiniteSet(Alloc)
        BY <2>1, <3>4 DEF LinksRead
      <4>3. Alloc \subseteq S
        BY <3>1, <4>1, <4>2, Reached
      <4> QED BY <4>3
    <3> QED BY <3>2, <3>3, <3>4 DEF Alloc
  <2>3. ASSUME Freeing, todo = <<>> PROVE nodes = [n \in {} |-> NULL]
    <3>1. Among(todo) = {}
      BY <2>3 DEF Among
    <3>2. Stack = {} /\ Owed = {}
      BY <3>1 DEF Stack, Owed
    <3>3. \E own, ups : Forest(Alloc \ Stack, Owed, D, Hs, own, ups)
      BY <2>3 DEF StrmapInv, Falls
    <3>4. Alloc = {}
      BY <3>2, <3>3 DEF Forest
    <3> QED BY <2>1, <3>4 DEF Typed
  <2> QED BY <2>2, <2>3 DEF OneTree
<1> QED BY <1>1, StrmapInvariant, PTL

-----------------------------------------------------------------------------
(***************************************************************************)
(* The tree implements the map.                                            *)
(***************************************************************************)
LEMMA HashesDiffer ==
  ASSUME StrmapInv, ~ Freeing, NEW n \in Alloc, NEW m \in Alloc, Hs[n] = Hs[m]
  PROVE  n = m
<1>1. LinksRead /\ CallsRead /\ Stands /\ Mends
  BY LinkFacts, CallFacts DEF StrmapInv
<1>2. CASE call.op = "none" \/ Searching
  <2>1. PICK up : Tree(Alloc, Root, D, Hs, up)
    BY <1>1, <1>2 DEF Stands
  <2> QED BY <2>1, Distinct
<1>3. CASE Moving
  <2> DEFINE v == call.victim
  <2>1. /\ v \in Alloc /\ call.sides \in Orders
        /\ \E own, ups : Forest(Others, Tops, D, Hs, own, ups) /\ Split(v, Others, Root, Hs, own)
    BY <1>1, <1>3 DEF Mends
  <2>2. PICK own, ups : Forest(Others, Tops, D, Hs, own, ups) /\ Split(v, Others, Root, Hs, own)
    BY <2>1
  <2>3. CASE n = v \/ m = v
    BY <2>2, <2>3 DEF Split, Others
  <2>4. CASE n \in Others /\ m \in Others
    <3>1. own[n] \in Tops /\ own[m] \in Tops
      BY <2>2, <2>4 DEF Forest
    <3>2. CASE own[n] = own[m]
      <4>1. n \in Below(Others, own, own[n]) /\ m \in Below(Others, own, own[n])
        BY <2>4, <3>2 DEF Below
      <4>2. Tree(Below(Others, own, own[n]), own[n], D, Hs, ups[own[n]])
        BY <2>2, <3>1 DEF Forest
      <4> QED BY <4>1, <4>2, Distinct
    <3>3. CASE own[n] # own[m] /\ (own[n] = Root \/ own[m] = Root)
      BY <2>2, <2>4, <3>3 DEF Split, SameSide
    <3>4. CASE own[n] # own[m] /\ own[n] # Root /\ own[m] # Root
      <4>1. Pending \subseteq Sides
        BY <2>1, OrderFacts DEF Pending
      <4>2. PICK s \in Sides, t \in Sides : own[n] = Side(v, s) /\ own[m] = Side(v, t)
        BY <3>1, <3>4, <4>1 DEF Tops
      <4>3. (s = "l" <=> Hs[n] < Hs[v]) /\ (t = "l" <=> Hs[m] < Hs[v])
        BY <2>2, <2>4, <4>2 DEF Split
      <4> QED BY <3>4, <4>2, <4>3 DEF Sides
    <3> QED BY <3>2, <3>3, <3>4
  <2> QED BY <2>3, <2>4 DEF Others
<1> QED BY <1>1, <1>2, <1>3 DEF CallsRead

(* What the contents are. *)
ContentsRead ==
  ~ Freeing =>
    /\ DOMAIN Contents = {Hs[n] : n \in Alloc}
    /\ Contents = [h \in DOMAIN Contents |-> Contents[h]]
    /\ \A n \in Alloc : Contents[Hs[n]] = nodes[n].val

LEMMA ContentsFacts == StrmapInv => ContentsRead
<1> SUFFICES ASSUME StrmapInv, ~ Freeing
             PROVE  /\ DOMAIN Contents = {Hs[n] : n \in Alloc}
                    /\ Contents = [h \in DOMAIN Contents |-> Contents[h]]
                    /\ \A n \in Alloc : Contents[Hs[n]] = nodes[n].val
  BY DEF ContentsRead
<1>1. LinksRead
  BY LinkFacts DEF StrmapInv
<1> DEFINE H == {nodes[n].hash : n \in Alloc}
<1>2. H = {Hs[n] : n \in Alloc}
  BY <1>1 DEF LinksRead
<1>3. Contents = [h \in H |-> nodes[CHOOSE n \in Alloc : nodes[n].hash = h].val]
  BY DEF Contents, Alloc
<1>4. ASSUME NEW n \in Alloc PROVE Contents[Hs[n]] = nodes[n].val
  <2> DEFINE c == CHOOSE m \in Alloc : nodes[m].hash = Hs[n]
  <2>1. nodes[n].hash = Hs[n] /\ Hs[n] \in H
    BY <1>1 DEF LinksRead
  <2>2. c \in Alloc /\ nodes[c].hash = Hs[n]
    BY <2>1
  <2>3. Contents[Hs[n]] = nodes[c].val
    BY <1>3, <2>1
  <2> HIDE DEF c
  <2>4. Hs[c] = Hs[n]
    BY <1>1, <2>2 DEF LinksRead
  <2> QED BY <2>2, <2>3, <2>4, HashesDiffer
<1> HIDE DEF H
<1> QED BY <1>2, <1>3, <1>4

LEMMA ContentsFactsNext == StrmapInv' => ContentsRead'
<1>1. (StrmapInv => ContentsRead)'
  BY ContentsFacts, PTL
<1> QED BY <1>1

(* A step that leaves hashes and values alone leaves the map alone. *)
LEMMA ContentsKept ==
  ASSUME StrmapInv, StrmapInv', ~ Freeing, ~ Freeing', Alloc' = Alloc, Hs' = Hs,
         \A n \in Alloc : nodes'[n].val = nodes[n].val
  PROVE  Contents' = Contents
<1>1. ContentsRead /\ ContentsRead'
  BY ContentsFacts, ContentsFactsNext
<1> DEFINE H == {Hs[n] : n \in Alloc}
           f == Contents
           g == Contents'
<1>2. /\ DOMAIN f = H /\ f = [h \in DOMAIN f |-> f[h]] /\ \A n \in Alloc : f[Hs[n]] = nodes[n].val
  BY <1>1 DEF ContentsRead
<1>3. /\ DOMAIN g = H /\ g = [h \in DOMAIN g |-> g[h]] /\ \A n \in Alloc : g[Hs[n]] = nodes[n].val
  BY <1>1 DEF ContentsRead
<1>4. \A h \in H : \E n \in Alloc : h = Hs[n]
  OBVIOUS
<1> HIDE DEF H, f, g
<1>5. \A h \in H : f[h] = g[h]
  BY <1>2, <1>3, <1>4
<1>6. f = g
  BY <1>2, <1>3, <1>5
<1> QED BY <1>6 DEF f, g

(* The requests the calls stand for. *)
RequestedRead ==
  /\ call.op = "none" => Requested = Map!NoRequest
  /\ call.op \in {"set", "get"} => Requested = call
  /\ call.op \in {"del", "del_all"} => Requested = Map!AskDel(call.hash)
  /\ Moving => Requested = Map!AskDel(Hs[call.victim])
  /\ Freeing => Requested = Map!Freed

LEMMA RequestedFacts == StrmapInv => RequestedRead
<1> SUFFICES ASSUME StrmapInv PROVE RequestedRead
  OBVIOUS
<1>1. CallsRead /\ LinksRead /\ Mends
  BY CallFacts, LinkFacts DEF StrmapInv
<1>2. ASSUME call.op = "none" PROVE Requested = Map!NoRequest
  BY <1>1, <1>2 DEF Requested, Deleting, Freeing, CallsRead, Idle, Map!NoRequest
<1>3. ASSUME call.op \in {"set", "get"} PROVE Requested = call
  BY <1>3 DEF Requested, Deleting, Freeing
<1>4. ASSUME call.op \in {"del", "del_all"} PROVE Requested = Map!AskDel(call.hash)
  BY <1>4 DEF Requested, Deleting, Freeing, Map!AskDel
<1>5. ASSUME Moving PROVE Requested = Map!AskDel(Hs[call.victim])
  <2>1. Hs[call.victim] = nodes[call.victim].hash
    BY <1>1, <1>5 DEF Mends, LinksRead
  <2> QED BY <1>5, <2>1 DEF Moving, Requested, Deleting, Freeing, Map!AskDel
<1>6. ASSUME Freeing PROVE Requested = Map!Freed
  BY <1>6 DEF Requested, Deleting, Freeing, Map!Freed
<1> QED BY <1>2, <1>3, <1>4, <1>5, <1>6 DEF RequestedRead

LEMMA RequestedFactsNext == StrmapInv' => RequestedRead'
<1>1. (StrmapInv => RequestedRead)'
  BY RequestedFacts, PTL
<1> QED BY <1>1

(* A step that ends a set, at node n. *)
LEMMA ContentsSet ==
  ASSUME StrmapInv, StrmapInv', call.op = "set", ~ Freeing', NEW n, n \in Alloc => Hs[n] = call.hash,
         Alloc' = Alloc \cup {n}, Hs'[n] = call.hash, nodes'[n].val = call.val,
         \A m \in Alloc \ {n} : Hs'[m] = Hs[m] /\ nodes'[m].val = nodes[m].val
  PROVE  Contents' = [h \in DOMAIN Contents \cup {call.hash} |->
                        IF h = call.hash THEN call.val ELSE Contents[h]]
<1>1. ContentsRead /\ ContentsRead' /\ ~ Freeing
  BY ContentsFacts, ContentsFactsNext DEF Freeing
<1> DEFINE f == Contents
           g == Contents'
           H == DOMAIN f \cup {call.hash}
<1>2. DOMAIN f = {Hs[m] : m \in Alloc} /\ \A m \in Alloc : f[Hs[m]] = nodes[m].val
  BY <1>1 DEF ContentsRead
<1>3. /\ DOMAIN g = {Hs'[m] : m \in Alloc'} /\ g = [h \in DOMAIN g |-> g[h]]
      /\ \A m \in Alloc' : g[Hs'[m]] = nodes'[m].val
  BY <1>1 DEF ContentsRead
<1> HIDE DEF f, g
<1>4. DOMAIN g = H
  <2>1. ASSUME NEW h \in DOMAIN g PROVE h \in H
    <3>1. PICK m \in Alloc' : h = Hs'[m]
      BY <1>3
    <3>2. m = n \/ (m \in Alloc \ {n} /\ h = Hs[m])
      BY <3>1
    <3> QED BY <1>2, <3>1, <3>2
  <2>2. ASSUME NEW h \in H PROVE h \in DOMAIN g
    <3>1. CASE h = call.hash
      BY <1>3, <3>1
    <3>2. CASE h # call.hash
      <4>1. PICK m \in Alloc : h = Hs[m]
        BY <1>2, <3>2
      <4>2. m # n
        BY <3>2, <4>1
      <4> QED BY <1>3, <4>1, <4>2
    <3> QED BY <3>1, <3>2
  <2> QED BY <2>1, <2>2
<1>5. ASSUME NEW h \in H PROVE g[h] = IF h = call.hash THEN call.val ELSE f[h]
  <2>1. CASE h = call.hash
    BY <1>3, <2>1
  <2>2. CASE h # call.hash
    <3>1. PICK m \in Alloc : h = Hs[m]
      BY <1>2, <2>2
    <3>2. m # n
      BY <2>2, <3>1
    <3> QED BY <1>2, <1>3, <2>2, <3>1, <3>2
  <2> QED BY <2>1, <2>2
<1> HIDE DEF H
<1>6. g = [h \in H |-> IF h = call.hash THEN call.val ELSE f[h]]
  BY <1>3, <1>4, <1>5
<1> QED BY <1>6 DEF f, g, H

(* The step that ends a deletion. *)
LEMMA ContentsDelete ==
  ASSUME StrmapInv, StrmapInv', ~ Freeing, ~ Freeing', NEW n \in Alloc, Alloc' = Alloc \ {n},
         \A m \in Alloc \ {n} : Hs'[m] = Hs[m] /\ nodes'[m].val = nodes[m].val
  PROVE  Contents' = Restrict(Contents, DOMAIN Contents \ {Hs[n]})
<1>1. ContentsRead /\ ContentsRead'
  BY ContentsFacts, ContentsFactsNext
<1> DEFINE f == Contents
           g == Contents'
           H == DOMAIN f \ {Hs[n]}
<1>2. DOMAIN f = {Hs[m] : m \in Alloc} /\ \A m \in Alloc : f[Hs[m]] = nodes[m].val
  BY <1>1 DEF ContentsRead
<1>3. /\ DOMAIN g = {Hs'[m] : m \in Alloc'} /\ g = [h \in DOMAIN g |-> g[h]]
      /\ \A m \in Alloc' : g[Hs'[m]] = nodes'[m].val
  BY <1>1 DEF ContentsRead
<1> HIDE DEF f, g
<1>4. \A m \in Alloc \ {n} : Hs[m] # Hs[n]
  BY HashesDiffer
<1>5. DOMAIN g = H
  <2>1. ASSUME NEW h \in DOMAIN g PROVE h \in H
    <3>1. PICK m \in Alloc \ {n} : h = Hs[m]
      BY <1>3
    <3> QED BY <1>2, <1>4, <3>1
  <2>2. ASSUME NEW h \in H PROVE h \in DOMAIN g
    <3>1. PICK m \in Alloc : h = Hs[m] /\ m # n
      BY <1>2
    <3> QED BY <1>3, <3>1
  <2> QED BY <2>1, <2>2
<1>6. ASSUME NEW h \in H PROVE g[h] = f[h]
  <2>1. PICK m \in Alloc : h = Hs[m] /\ m # n
    BY <1>2
  <2> QED BY <1>2, <1>3, <2>1
<1> HIDE DEF H
<1>7. g = [h \in H |-> f[h]]
  BY <1>3, <1>5, <1>6
<1> QED BY <1>7 DEF f, g, H, Restrict

(* A key that a search does not find has no entry. *)
LEMMA NotInMap ==
  ASSUME StrmapInv, Searching, Deref(at) = NULL
  PROVE  call.hash \notin DOMAIN Contents
<1>1. ContentsRead /\ Stands /\ ~ Freeing
  BY ContentsFacts, CallFacts DEF StrmapInv, CallsRead
<1>2. PICK up : Tree(Alloc, Root, D, Hs, up) /\ at \in LinksOf(Alloc, Root)
                /\ Meets(Hs, Root, call.hash, up[at])
  BY <1>1 DEF Stands
<1>3. D[at] = NULL
  BY Reach
<1>4. \A n \in Alloc : Hs[n] # call.hash
  BY <1>2, <1>3, Absent
<1> QED BY <1>1, <1>4 DEF ContentsRead

LEMMA MapAsks == StrmapInv /\ StrmapInv' /\ Begin => Map!Ask
<1> SUFFICES ASSUME StrmapInv, StrmapInv', Begin PROVE Map!Ask
  OBVIOUS
<1>1. UNCHANGED <<nodes, root, todo, misuse, result>> /\ call.op = "none" /\ call' \in Requests
  BY DEF Begin, Idle
<1>2. RequestedRead /\ RequestedRead' /\ ~ Freeing /\ ~ Freeing'
  BY <1>1, RequestedFacts, RequestedFactsNext DEF Freeing, Requests
<1>3. Contents' = Contents
  BY <1>1, <1>2, Kept, ContentsKept
<1>4. Requested' \in Map!Requests
  <2>1. CASE call' \in [op : {"set"}, hash : Hash, val : Val]
    <3>1. Requested' = Map!AskSet(call'.hash, call'.val) /\ call'.hash \in Hash /\ call'.val \in Val
      BY <1>2, <2>1 DEF RequestedRead, Map!AskSet
    <3> QED BY <3>1 DEF Map!Requests
  <2>2. CASE call' \in [op : {"get"}, hash : Hash]
    <3>1. Requested' = Map!AskGet(call'.hash) /\ call'.hash \in Hash
      BY <1>2, <2>2 DEF RequestedRead, Map!AskGet
    <3> QED BY <3>1 DEF Map!Requests
  <2>3. CASE call' \in [op : {"del", "del_all"}, hash : Hash]
    <3>1. Requested' = Map!AskDel(call'.hash) /\ call'.hash \in Hash
      BY <1>2, <2>3 DEF RequestedRead
    <3> QED BY <3>1 DEF Map!Requests
  <2> QED BY <1>1, <2>1, <2>2, <2>3 DEF Requests
<1> QED BY <1>1, <1>2, <1>3, <1>4 DEF RequestedRead, Map!Ask

LEMMA MapSets == StrmapInv /\ StrmapInv' /\ (SetNew \/ SetReplace) => Map!Set
<1> SUFFICES ASSUME StrmapInv, StrmapInv', SetNew \/ SetReplace PROVE Map!Set
  OBVIOUS
<1>1. Searching /\ call.op = "set" /\ call' = Idle /\ result' = result
  BY DEF SetNew, SetReplace, Searching
<1>2. RequestedRead /\ RequestedRead' /\ ~ Freeing' /\ call'.op = "none"
  BY <1>1, RequestedFacts, RequestedFactsNext DEF Freeing, Idle
<1>3. LinksRead /\ LinksRead'
  BY LinkFacts, LinkFactsNext DEF StrmapInv
<1>4. Contents' = [h \in DOMAIN Contents \cup {call.hash} |->
                     IF h = call.hash THEN call.val ELSE Contents[h]]
  <2>1. CASE SetNew
    <3>1. PICK n \in Addr \ Alloc :
             /\ nodes' \in [Alloc \cup {n} -> Node]
             /\ nodes'[n].hash = call.hash /\ nodes'[n].val = call.val
             /\ \A m \in Alloc : nodes'[m].hash = nodes[m].hash /\ nodes'[m].val = nodes[m].val
      BY <1>1, <2>1, SetNewWrites
    <3>2. Alloc' = Alloc \cup {n}
      BY <3>1 DEF Alloc
    <3>3. Hs'[n] = call.hash /\ \A m \in Alloc : Hs'[m] = Hs[m]
      BY <1>3, <3>1, <3>2 DEF LinksRead
    <3> QED BY <1>1, <1>2, <3>1, <3>2, <3>3, ContentsSet
  <2>2. CASE SetReplace
    <3> DEFINE n == Deref(at)
    <3>1. n \in Alloc /\ Hs[n] = call.hash
      BY <1>1, <2>2, Reach DEF SetReplace, Found
    <3>2. nodes' = [nodes EXCEPT ![n].val = call.val] /\ nodes \in [Alloc -> Node]
      BY <2>2 DEF SetReplace, StrmapInv, Typed
    <3> HIDE DEF n
    <3>3. nodes' = [nodes EXCEPT ![n] = [nodes[n] EXCEPT !.val = call.val]] /\ nodes[n] \in Node
      BY <3>1, <3>2
    <3>4. Alloc' = Alloc /\ nodes'[n] = [nodes[n] EXCEPT !.val = call.val]
          /\ \A m \in Alloc \ {n} : nodes'[m] = nodes[m]
      BY <3>1, <3>2, <3>3 DEF Alloc
    <3>5. nodes'[n].val = call.val /\ nodes'[n].hash = nodes[n].hash
      BY <3>3, <3>4 DEF Node
    <3>6. Hs'[n] = call.hash /\ \A m \in Alloc \ {n} : Hs'[m] = Hs[m]
      BY <3>1, <3>4, <3>5 DEF Hs
    <3>7. Alloc' = Alloc \cup {n}
      BY <3>1, <3>4
    <3> QED BY <1>1, <1>2, <3>1, <3>4, <3>5, <3>6, <3>7, ContentsSet
  <2> QED BY <2>1, <2>2
<1>5. Requested = call /\ Requested' = Map!NoRequest
  BY <1>1, <1>2 DEF RequestedRead
<1> QED BY <1>1, <1>4, <1>5 DEF Map!Set

LEMMA MapGets == StrmapInv /\ StrmapInv' /\ GetEnds => Map!Get
<1> SUFFICES ASSUME StrmapInv, StrmapInv', GetEnds PROVE Map!Get
  OBVIOUS
<1>1. /\ Searching /\ call.op = "get" /\ call' = Idle /\ UNCHANGED <<nodes, root>>
      /\ Found \/ Deref(at) = NULL
      /\ result' = IF Found THEN nodes[Deref(at)].val ELSE NoVal
  BY DEF GetEnds, Searching
<1>2. RequestedRead /\ RequestedRead' /\ ContentsRead /\ ~ Freeing /\ ~ Freeing' /\ call'.op = "none"
  BY <1>1, RequestedFacts, RequestedFactsNext, ContentsFacts DEF Freeing, Idle
<1>3. Contents' = Contents
  BY <1>1, <1>2, Kept, ContentsKept
<1>4. Requested = call /\ Requested' = Map!NoRequest
  BY <1>1, <1>2 DEF RequestedRead
<1>5. result' = IF call.hash \in DOMAIN Contents THEN Contents[call.hash] ELSE NoVal
  <2>1. CASE Found
    <3>1. Deref(at) \in Alloc /\ Hs[Deref(at)] = call.hash
      BY <1>1, <2>1, Reach DEF Found
    <3> QED BY <1>1, <1>2, <2>1, <3>1 DEF ContentsRead
  <2>2. CASE ~ Found
    <3>1. call.hash \notin DOMAIN Contents
      BY <1>1, <2>2, NotInMap
    <3> QED BY <1>1, <2>2, <3>1
  <2> QED BY <2>1, <2>2
<1> QED BY <1>1, <1>3, <1>4, <1>5 DEF Map!Get

LEMMA MapDeletes == StrmapInv /\ StrmapInv' /\ (DelNone \/ DelEnds) => Map!Del
<1> SUFFICES ASSUME StrmapInv, StrmapInv', DelNone \/ DelEnds PROVE Map!Del
  OBVIOUS
<1>1. call' = Idle /\ result' = result /\ root' = root
  BY DEF DelNone, DelEnds
<1>2. RequestedRead /\ RequestedRead' /\ ContentsRead /\ ~ Freeing' /\ call'.op = "none"
  BY <1>1, RequestedFacts, RequestedFactsNext, ContentsFacts DEF Freeing, Idle
<1>3. Requested' = Map!NoRequest
  BY <1>2 DEF RequestedRead
<1>4. CASE DelNone
  <2>1. Searching /\ call.op \in {"del", "del_all"} /\ Deref(at) = NULL /\ ~ Freeing
        /\ UNCHANGED <<nodes, root>>
    BY <1>4 DEF DelNone, Deleting, Searching, Freeing
  <2>2. Contents' = Contents
    BY <1>2, <2>1, Kept, ContentsKept
  <2>3. Contents = [h \in DOMAIN Contents |-> Contents[h]] /\ call.hash \notin DOMAIN Contents
    BY <1>2, <2>1, NotInMap DEF ContentsRead
  <2>4. DOMAIN Contents \ {call.hash} = DOMAIN Contents
    BY <2>3
  <2>5. Contents' = Restrict(Contents, DOMAIN Contents \ {call.hash})
    BY <2>2, <2>3, <2>4 DEF Restrict
  <2>6. Requested = Map!AskDel(call.hash)
    BY <1>2, <2>1 DEF RequestedRead
  <2> QED BY <1>1, <1>3, <2>5, <2>6 DEF Map!Del, Map!AskDel, Map!Restrict, Restrict
<1>5. CASE DelEnds
  <2> DEFINE v == call.victim
  <2>1. Moving /\ ~ Freeing /\ nodes' = Restrict(nodes, DOMAIN nodes \ {v})
    BY <1>5 DEF DelEnds, Moving, Freeing
  <2>2. v \in Alloc /\ Typed
    BY <2>1 DEF StrmapInv, Mends
  <2>3. Requested = Map!AskDel(Hs[v])
    BY <1>2, <2>1 DEF RequestedRead
  <2> HIDE DEF v
  <2>4. Alloc' = Alloc \ {v} /\ \A m \in Alloc \ {v} : nodes'[m] = nodes[m] /\ Hs'[m] = Hs[m]
    BY <1>1, <2>1, <2>2, Gone
  <2>5. Contents' = Restrict(Contents, DOMAIN Contents \ {Hs[v]})
    BY <1>2, <2>1, <2>2, <2>4, ContentsDelete
  <2> QED BY <1>1, <1>3, <2>3, <2>5 DEF Map!Del, Map!AskDel, Map!Restrict, Restrict
<1> QED BY <1>4, <1>5

LEMMA MapFrees == StrmapInv /\ StrmapInv' /\ BeginFree => Map!Free
<1> SUFFICES ASSUME StrmapInv, StrmapInv', BeginFree PROVE Map!Free
  OBVIOUS
<1>1. call.op = "none" /\ call' \in Frees /\ result' = result
  BY DEF BeginFree, Idle
<1>2. RequestedRead /\ RequestedRead' /\ Freeing'
  BY <1>1, RequestedFacts, RequestedFactsNext DEF Freeing, Frees
<1>3. Contents' = [h \in {} |-> NoVal]
  BY <1>2 DEF Contents
<1> QED BY <1>1, <1>2, <1>3 DEF RequestedRead, Map!Free

(* Steps on the way leave the map and the request alone. *)
LEMMA MapWaits ==
  StrmapInv /\ StrmapInv' /\ (\/ SetBelow \/ GetBelow \/ DelBelow \/ DelUnlink \/ DelRelease
                              \/ AddBelow \/ AddHere \/ FreeLeft \/ FreeRight \/ FreeNode)
    => UNCHANGED Map!mapVars
<1> SUFFICES ASSUME StrmapInv, StrmapInv',
                    \/ SetBelow \/ GetBelow \/ DelBelow \/ DelUnlink \/ DelRelease
                    \/ AddBelow \/ AddHere \/ FreeLeft \/ FreeRight \/ FreeNode
             PROVE  Contents' = Contents /\ Requested' = Requested /\ result' = result
  BY DEF Map!mapVars
<1>1. RequestedRead /\ RequestedRead' /\ CallsRead /\ Typed
  BY RequestedFacts, RequestedFactsNext, CallFacts DEF StrmapInv
<1>2. CASE SetBelow \/ GetBelow \/ DelBelow \/ AddBelow
  <2>1. UNCHANGED <<nodes, root, call, result>> /\ ~ Freeing /\ ~ Freeing'
        /\ call.op \in {"set", "get", "del", "del_all", "add"}
    BY <1>2 DEF SetBelow, GetBelow, DelBelow, AddBelow, Descend, Deleting, Freeing
  <2>2. Contents' = Contents /\ Hs' = Hs
    BY <2>1, Kept, ContentsKept
  <2>3. Requested' = Requested
    <3>1. CASE call.op \in {"set", "get"}
      BY <1>1, <2>1, <3>1 DEF RequestedRead
    <3>2. CASE call.op \in {"del", "del_all"}
      BY <1>1, <2>1, <3>2 DEF RequestedRead
    <3>3. CASE call.op = "add"
      BY <1>1, <2>1, <2>2, <3>3 DEF RequestedRead, Moving
    <3> QED BY <2>1, <3>1, <3>2, <3>3
  <2> QED BY <2>1, <2>2, <2>3
<1>3. CASE DelUnlink
  <2> DEFINE v == Deref(at)
  <2>1. Searching /\ ~ Freeing /\ call.op \in {"del", "del_all"} /\ Store(at, NULL)
        /\ call' = Unlinked(v) /\ result' = result
    BY <1>3 DEF DelUnlink, Deleting, Searching, Freeing
  <2>2. at \in Links /\ v \in Alloc /\ Hs[v] = call.hash
    BY <1>3, <2>1, Reach DEF DelUnlink, Found
  <2>3. Moving' /\ ~ Freeing' /\ call'.victim = v
    BY <2>1 DEF Unlinked, Moving, Freeing
  <2>4. Alloc' = Alloc /\ Hs' = Hs /\ \A m \in Alloc : nodes'[m].val = nodes[m].val
    BY <1>1, <2>1, <2>2, Stored
  <2>5. Contents' = Contents
    BY <2>1, <2>3, <2>4, ContentsKept
  <2>6. Requested = Map!AskDel(call.hash) /\ Requested' = Map!AskDel(Hs'[v])
    BY <1>1, <2>1, <2>3 DEF RequestedRead
  <2> QED BY <2>1, <2>2, <2>4, <2>5, <2>6
<1>4. CASE DelRelease \/ AddHere
  <2> DEFINE v == call.victim
             Q == Seq({"l", "r"})
  <2>0. call \in [op : {"release", "add"}, victim : Addr, sides : Q]
    BY <1>1, <1>4 DEF CallsRead, DelRelease, AddHere, Moving
  <2> HIDE DEF Q
  <2>1. Moving /\ ~ Freeing /\ Moving' /\ ~ Freeing' /\ call'.victim = v /\ result' = result
    <3>1. CASE DelRelease
      <4>1. Moving /\ call.op = "release" /\ call' = [call EXCEPT !.op = "add"] /\ result' = result
        BY <3>1 DEF DelRelease, Moving
      <4>2. call'.op = "add" /\ call'.victim = v
        BY <2>0, <4>1
      <4> QED BY <4>1, <4>2 DEF Moving, Freeing
    <3>2. CASE AddHere
      <4>1. Moving /\ call.op = "add" /\ call' = [call EXCEPT !.sides = Tail(call.sides)] /\ result' = result
        BY <3>2 DEF AddHere, Moving
      <4>2. call'.op = "add" /\ call'.victim = v
        BY <2>0, <4>1
      <4> QED BY <4>1, <4>2 DEF Moving, Freeing
    <3> QED BY <1>4, <3>1, <3>2
  <2>2. v \in Alloc
    BY <2>1 DEF StrmapInv, Mends
  <2>3. Alloc' = Alloc /\ Hs' = Hs /\ \A m \in Alloc : nodes'[m].val = nodes[m].val
    <3>1. CASE DelRelease
      BY <1>1, <2>2, <3>1, Released DEF DelRelease
    <3>2. CASE AddHere
      <4>1. at \in Links /\ Hanging \in Alloc
        BY <3>2, AddFacts DEF AddHere, Others
      <4>2. Store(at, Hanging)
        BY <3>2 DEF AddHere
      <4> QED BY <1>1, <4>1, <4>2, Stored
    <3> QED BY <1>4, <3>1, <3>2
  <2>4. Contents' = Contents
    BY <2>1, <2>3, ContentsKept
  <2>5. Requested = Map!AskDel(Hs[v]) /\ Requested' = Map!AskDel(Hs'[v])
    BY <1>1, <2>1 DEF RequestedRead
  <2> QED BY <2>1, <2>3, <2>4, <2>5
<1>5. CASE FreeLeft \/ FreeRight \/ FreeNode
  <2>1. Freeing /\ Freeing' /\ result' = result
    BY <1>5 DEF FreeLeft, FreeRight, FreeNode, Freeing
  <2>2. Contents = [h \in {} |-> NoVal] /\ Contents' = [h \in {} |-> NoVal]
    BY <2>1 DEF Contents
  <2> QED BY <1>1, <2>1, <2>2 DEF RequestedRead
<1> QED BY <1>2, <1>3, <1>4, <1>5

(* Every step of the tree is a step of the map, or changes neither its     *)
(* contents nor the request nor the answer: a lookup finds the value last  *)
(* set and nothing that was deleted, whatever the shape of the tree.       *)
THEOREM TreeImplementsMap ==
  StrmapSpec => Map!MapInit /\ [][Map!Ask \/ Map!Perform \/ Map!Free]_(Map!mapVars)
<1>1. StrmapInit => Map!MapInit
  <2> SUFFICES ASSUME StrmapInit PROVE Map!MapInit
    OBVIOUS
  <2>1. StrmapInv /\ call = Idle /\ nodes = [n \in {} |-> NULL] /\ result = NoVal
    BY InitOK DEF StrmapInit
  <2>2. Alloc = {} /\ ~ Freeing /\ call.op = "none"
    BY <2>1 DEF Alloc, Freeing, Idle
  <2>3. ContentsRead /\ RequestedRead
    BY <2>1, ContentsFacts, RequestedFacts
  <2>4. DOMAIN Contents = {} /\ Contents = [h \in DOMAIN Contents |-> Contents[h]]
    BY <2>2, <2>3 DEF ContentsRead
  <2>5. Contents = [h \in {} |-> NoVal]
    BY <2>4
  <2> QED BY <2>1, <2>2, <2>3, <2>5 DEF Map!MapInit, RequestedRead
<1>2. StrmapInv /\ StrmapInv' /\ [StrmapNext]_strmapVars
        => [Map!Ask \/ Map!Perform \/ Map!Free]_(Map!mapVars)
  <2> SUFFICES ASSUME StrmapInv, StrmapInv', [StrmapNext]_strmapVars
               PROVE  Map!Ask \/ Map!Perform \/ Map!Free \/ UNCHANGED Map!mapVars
    OBVIOUS
  <2>1. ASSUME UNCHANGED strmapVars PROVE UNCHANGED Map!mapVars
    <3>1. UNCHANGED <<nodes, root, call, result>>
      BY <2>1 DEF strmapVars
    <3>2. Freeing' = Freeing /\ Deleting' = Deleting
      BY <3>1 DEF Freeing, Deleting
    <3>3. Contents' = Contents /\ Requested' = Requested
      BY <3>1, <3>2 DEF Contents, Requested
    <3> QED BY <3>1, <3>3 DEF Map!mapVars
  <2>2. ASSUME Perform PROVE Map!Perform \/ UNCHANGED Map!mapVars
    <3>1. CASE SetNew \/ SetReplace \/ GetEnds \/ DelNone \/ DelEnds
      BY <3>1, MapSets, MapGets, MapDeletes DEF Map!Perform
    <3>2. CASE \/ SetBelow \/ GetBelow \/ DelBelow \/ DelUnlink \/ DelRelease
               \/ AddBelow \/ AddHere \/ FreeLeft \/ FreeRight \/ FreeNode
      BY <3>2, MapWaits
    <3> QED BY <2>2, <3>1, <3>2 DEF Perform
  <2> QED BY <2>1, <2>2, MapAsks, MapFrees DEF StrmapNext
<1> QED BY <1>1, <1>2, StrmapInvariant, PTL DEF StrmapSpec
=============================================================================
