----------------------------- MODULE LexerProofs -----------------------------
(***************************************************************************)
(* Proofs about the lexer, for texts of any length over any characters.    *)
(***************************************************************************)
EXTENDS Lexer, Induction, FiniteSetTheorems

ItemType == [type : item_type, from : Nat, to : Nat]
LexerType == [start : Nat, pos : Nat, width : {0, 1}, items : Seq(ItemType)]

InputOK == input \in Seq(Characters)

(* A lexer at a legal place.  It does not know the width of a character    *)
(* only when there is none.                                                *)
Place(l) ==
  /\ l \in LexerType
  /\ l.start <= l.pos /\ l.pos <= len
  /\ l.pos < len => l.width = 1

(* m has read on, or gone back, but not taken or dropped what it read. *)
Same(l, m) == m.start = l.start /\ m.items = l.items

(* What the items of l cover, and what they may leave out. *)
Cover(l, p) == {k \in 1..Len(l.items) : l.items[k].from <= p /\ p < l.items[k].to}
Remark(l, p) == \E q \in 0..p : /\ input[q + 1] = "#" /\ Cover(l, q) = {}
                                /\ \A r \in q..p : input[r + 1] # "\n"
Blank(p) == input[p + 1] \in Spaces \cup {Quote, Backtick}

Once(l, p) ==
  \/ \E k : Cover(l, p) = {k}
  \/ Cover(l, p) = {} /\ (Blank(p) \/ Remark(l, p))

(* Every item lies before start, and all before start is accounted for. *)
Taken(l) ==
  /\ \A k \in 1..Len(l.items) : l.items[k].from <= l.items[k].to /\ l.items[k].to <= l.start
  /\ \A p \in 0..l.start - 1 : Once(l, p)

Sound(l) == Place(l) /\ Taken(l)

NoEof(l) == \A k \in 1..Len(l.items) : l.items[k].type # "eof"

-----------------------------------------------------------------------------
(***************************************************************************)
(* The primitives.                                                         *)
(***************************************************************************)
LEMMA SameTaken ==
  ASSUME NEW l, NEW m, Same(l, m)
  PROVE  (Taken(l) => Taken(m)) /\ (NoEof(l) => NoEof(m))
BY DEF Same, Taken, Once, Cover, Remark, NoEof

LEMMA CharFacts ==
  ASSUME InputOK, NEW l, Place(l)
  PROVE  /\ len \in Nat
         /\ l.pos < len <=> Char(l) # eof
         /\ l.pos < len => Char(l) = input[l.pos + 1] /\ Char(l) \in Characters
         /\ ~ (l.pos < len) => l.pos = len
<1>1. len \in Nat /\ \A i \in 1..len : input[i] \in Characters
  BY DEF InputOK, len
<1>2. l.pos \in Nat /\ l.pos <= len
  BY DEF Place, LexerType
<1> QED BY <1>1, <1>2 DEF Char, Characters

LEMMA ItemFacts ==
  ASSUME NEW s \in Seq(ItemType)
  PROVE  /\ Len(s) \in Nat
         /\ \A k \in 1..Len(s) : s[k].type \in item_type /\ s[k].from \in Nat /\ s[k].to \in Nat
<1>1. Len(s) \in Nat /\ \A k \in 1..Len(s) : s[k] \in ItemType
  <2> HIDE DEF ItemType
  <2> QED OBVIOUS
<1> QED BY <1>1 DEF ItemType

LEMMA NextOK ==
  ASSUME InputOK, NEW l, Place(l)
  PROVE  /\ Place(next(l)) /\ Same(l, next(l))
         /\ next(l).pos = IF l.pos < len THEN l.pos + 1 ELSE l.pos
         /\ next(l).width = IF l.pos < len THEN 1 ELSE 0
<1>1. len \in Nat
  BY DEF InputOK, len
<1> DEFINE S == Seq(ItemType)
<1>2. l \in [start : Nat, pos : Nat, width : {0, 1}, items : S]
  BY DEF Place, LexerType
<1> HIDE DEF S
<1>3. l.start <= l.pos /\ l.pos <= len /\ (l.pos < len => l.width = 1)
  BY DEF Place
<1>4. next(l) \in [start : Nat, pos : Nat, width : {0, 1}, items : S]
  BY <1>1, <1>2, <1>3 DEF next
<1>5. /\ next(l).pos = IF l.pos < len THEN l.pos + 1 ELSE l.pos
      /\ next(l).width = IF l.pos < len THEN 1 ELSE 0
      /\ Same(l, next(l))
  BY <1>1, <1>2, <1>3 DEF next, Same
<1>6. Place(next(l))
  BY <1>1, <1>2, <1>3, <1>4, <1>5 DEF Place, Same, LexerType, S
<1> QED BY <1>5, <1>6

(* Backing up: over the character that was read, or at the end over none. *)
LEMMA BackupOK ==
  ASSUME InputOK, NEW l, Place(l), l.width = 1 => l.start < l.pos
  PROVE  /\ Place(backup(l)) /\ Same(l, backup(l))
         /\ backup(l).pos = l.pos - l.width /\ backup(l).width = l.width
<1>1. len \in Nat
  BY DEF InputOK, len
<1> DEFINE S == Seq(ItemType)
<1>2. l \in [start : Nat, pos : Nat, width : {0, 1}, items : S]
  BY DEF Place, LexerType
<1> HIDE DEF S
<1>3. l.start <= l.pos /\ l.pos <= len /\ (l.pos < len => l.width = 1)
  BY DEF Place
<1>4. backup(l) \in [start : Nat, pos : Nat, width : {0, 1}, items : S]
  BY <1>1, <1>2, <1>3 DEF backup
<1>5. /\ backup(l).pos = l.pos - l.width /\ backup(l).width = l.width
      /\ Same(l, backup(l))
  BY <1>1, <1>2, <1>3 DEF backup, Same
<1>6. Place(backup(l))
  BY <1>1, <1>2, <1>3, <1>4, <1>5 DEF Place, Same, LexerType, S
<1> QED BY <1>5, <1>6

LEMMA PutBack ==
  ASSUME InputOK, NEW l, Place(l)
  PROVE  /\ Place(backup(next(l))) /\ Same(l, backup(next(l)))
         /\ backup(next(l)).pos = l.pos
<1> DEFINE n == next(l)
<1>1. /\ Place(n) /\ Same(l, n) /\ n.pos = (IF l.pos < len THEN l.pos + 1 ELSE l.pos)
      /\ n.width = (IF l.pos < len THEN 1 ELSE 0)
  BY NextOK
<1>2. l.pos \in Nat /\ l.start \in Nat /\ l.start <= l.pos /\ n.start = l.start /\ len \in Nat
  BY <1>1 DEF Place, LexerType, Same, InputOK, len
<1> HIDE DEF n
<1>3. n.width = 1 => n.start < n.pos
  BY <1>1, <1>2
<1>4. /\ Place(backup(n)) /\ Same(n, backup(n))
      /\ backup(n).pos = n.pos - n.width
  BY <1>1, <1>3, BackupOK
<1>5. backup(n).pos = l.pos
  BY <1>1, <1>2, <1>4
<1>6. Same(l, backup(n))
  BY <1>1, <1>4 DEF Same
<1> QED BY <1>4, <1>5, <1>6 DEF n

(* The first p of a range that is not in valid, or the end. *)
LEMMA RunOK ==
  ASSUME InputOK, NEW l, Place(l), NEW valid
  PROVE  LET m == accept_run(l, valid) IN
         /\ Place(m) /\ Same(l, m) /\ l.pos <= m.pos
         /\ m.pos = len => m.width = 0
         /\ \A p \in l.pos..m.pos - 1 : input[p + 1] \in valid
         /\ m.pos < len => input[m.pos + 1] \notin valid
<1> DEFINE stops == {p \in l.pos..len - 1 : input[p + 1] \notin valid}
           S == Seq(ItemType)
           m == accept_run(l, valid)
<1>1. /\ len \in Nat /\ l \in [start : Nat, pos : Nat, width : {0, 1}, items : S]
      /\ l.start <= l.pos /\ l.pos <= len /\ (l.pos < len => l.width = 1)
  BY DEF InputOK, len, Place, LexerType
<1> HIDE DEF S
<1>2. CASE stops = {}
  <2>1. m = [l EXCEPT !.pos = len, !.width = 0]
    BY <1>2 DEF accept_run
  <2>2. /\ m \in [start : Nat, pos : Nat, width : {0, 1}, items : S]
        /\ m.pos = len /\ m.width = 0 /\ Same(l, m)
    BY <1>1, <2>1 DEF Same
  <2>3. Place(m)
    BY <1>1, <2>2 DEF Place, Same, LexerType, S
  <2>4. \A p \in l.pos..len - 1 : input[p + 1] \in valid
    BY <1>2
  <2> HIDE DEF m, stops
  <2>5. /\ l.pos <= m.pos /\ ~ (m.pos < len)
        /\ \A p \in l.pos..m.pos - 1 : input[p + 1] \in valid
    BY <1>1, <2>2, <2>4
  <2> QED BY <2>2, <2>3, <2>5 DEF m
<1>3. CASE stops # {}
  <2> DEFINE first == CHOOSE p \in stops : \A q \in stops : p <= q
  <2>1. stops \subseteq Nat
    BY <1>1
  <2>2. \E p \in stops : \A q \in stops : p <= q
    <3> HIDE DEF stops
    <3> QED BY <1>3, <2>1, LeastNumber
  <2>3. first \in stops /\ \A q \in stops : first <= q
    <3> HIDE DEF stops
    <3> QED BY <2>2
  <2>4. m = [l EXCEPT !.pos = first]
    BY <1>3 DEF accept_run
  <2> HIDE DEF first
  <2>5. first \in l.pos..len - 1 /\ input[first + 1] \notin valid /\ first \in Nat
    BY <1>1, <2>3
  <2>6. \A p \in l.pos..first - 1 : input[p + 1] \in valid
    <3> SUFFICES ASSUME NEW p \in l.pos..first - 1, input[p + 1] \notin valid PROVE FALSE
      OBVIOUS
    <3>1. p \in stops
      BY <1>1, <2>5
    <3>2. first <= p
      BY <2>3, <3>1
    <3> QED BY <1>1, <2>5, <3>2
  <2>7. /\ m \in [start : Nat, pos : Nat, width : {0, 1}, items : S]
        /\ m.pos = first /\ m.width = l.width /\ Same(l, m)
    BY <1>1, <2>4, <2>5 DEF Same
  <2> HIDE DEF m, stops
  <2>8. Place(m)
    BY <1>1, <2>5, <2>7 DEF Place, Same, LexerType, S
  <2>9. l.pos <= m.pos /\ m.pos # len
    BY <1>1, <2>5, <2>7
  <2> QED BY <2>5, <2>6, <2>7, <2>8, <2>9 DEF m
<1> QED BY <1>2, <1>3

LEMMA AcceptOK ==
  ASSUME InputOK, NEW l, Place(l), NEW valid, eof \notin valid, l.width = 1 /\ l.pos = len => l.start < l.pos
  PROVE  LET m == accept(l, valid) IN
         /\ Place(m) /\ Same(l, m)
         /\ Accepts(l, valid) => l.pos < len /\ m.pos = l.pos + 1 /\ m.width = 1
         /\ ~ Accepts(l, valid) /\ l.pos < len => m = l
         /\ ~ (l.pos < len) => m.pos = len - l.width /\ m.width = l.width
<1>1. /\ len \in Nat /\ (l.pos < len <=> Char(l) # eof) /\ (~ (l.pos < len) => l.pos = len)
      /\ l.pos \in Nat /\ l.start \in Nat /\ l.start <= l.pos
  BY CharFacts DEF Place, LexerType
<1>2. CASE Accepts(l, valid)
  <2>1. l.pos < len
    BY <1>1, <1>2 DEF Accepts
  <2>2. accept(l, valid) = next(l)
    BY <1>1, <1>2, <2>1 DEF accept
  <2> QED BY <1>2, <2>1, <2>2, NextOK
<1>3. CASE ~ Accepts(l, valid) /\ l.pos < len
  <2>1. accept(l, valid) = l
    BY <1>1, <1>3 DEF accept
  <2> QED BY <1>1, <1>3, <2>1 DEF Same
<1>4. CASE ~ (l.pos < len)
  <2>1. ~ Accepts(l, valid) /\ l.pos = len /\ l.pos >= len
    BY <1>1, <1>4 DEF Accepts
  <2>2. accept(l, valid) = backup(l)
    BY <2>1 DEF accept
  <2> QED BY <1>1, <1>4, <2>1, <2>2, BackupOK
<1> QED BY <1>2, <1>3, <1>4

(* Taking what was read as an item: all of it, and nothing else. *)
LEMMA EmitOK ==
  ASSUME InputOK, NEW l, Sound(l), NEW type \in item_type
  PROVE  LET m == emit(l, type) IN
         /\ Sound(m) /\ m.start = l.pos /\ m.pos = l.pos /\ m.width = l.width
         /\ Len(m.items) = Len(l.items) + 1 /\ Len(l.items) \in Nat
         /\ m.items[Len(m.items)] = [type |-> type, from |-> l.start, to |-> l.pos]
         /\ \A k \in 1..Len(l.items) : m.items[k] = l.items[k]
         /\ NoEof(l) /\ type # "eof" => NoEof(m)
<1> DEFINE i == [type |-> type, from |-> l.start, to |-> l.pos]
           m == emit(l, type)
           T == item_type
           n == Len(l.items)
<1>1. /\ len \in Nat /\ l.start \in Nat /\ l.pos \in Nat /\ l.width \in {0, 1}
      /\ l.items \in Seq(ItemType) /\ n \in Nat /\ DOMAIN l = {"start", "pos", "width", "items"}
      /\ l.start <= l.pos /\ l.pos <= len /\ (l.pos < len => l.width = 1)
      /\ l = [start |-> l.start, pos |-> l.pos, width |-> l.width, items |-> l.items]
  BY DEF Sound, Place, LexerType, InputOK, len
<1>2. i \in ItemType
  <2>1. type \in T
    OBVIOUS
  <2> HIDE DEF T
  <2> QED BY <1>1, <2>1 DEF ItemType, T
<1> HIDE DEF T
<1>3. m = [l EXCEPT !.items = Append(l.items, i), !.start = l.pos]
  BY DEF emit
<1>4. i.type = type /\ i.from = l.start /\ i.to = l.pos
  OBVIOUS
<1> HIDE DEF i, m
<1>5. /\ m = [start |-> l.pos, pos |-> l.pos, width |-> l.width, items |-> Append(l.items, i)]
      /\ m.start = l.pos /\ m.pos = l.pos /\ m.width = l.width /\ m.items = Append(l.items, i)
  <2> DEFINE a == Append(l.items, i)
  <2> HIDE DEF a
  <2>1. m = [l EXCEPT !.items = a, !.start = l.pos]
    BY <1>3 DEF a
  <2>2. m = [start |-> l.pos, pos |-> l.pos, width |-> l.width, items |-> a]
    BY <1>1, <2>1
  <2> QED BY <2>2 DEF a
<1>6. /\ m.items \in Seq(ItemType) /\ Len(m.items) = n + 1 /\ m.items[n + 1] = i
      /\ \A k \in 1..n : m.items[k] = l.items[k]
  <2> HIDE DEF ItemType
  <2> QED BY <1>1, <1>2, <1>5
<1>7. Place(m)
  BY <1>1, <1>5, <1>6 DEF Place, LexerType
<1>8. /\ \A k \in 1..n : l.items[k].from <= l.items[k].to /\ l.items[k].to <= l.start
      /\ \A k \in 1..n : l.items[k].from \in Nat /\ l.items[k].to \in Nat
      /\ \A p \in 0..l.start - 1 : Once(l, p)
  BY <1>1, ItemFacts DEF Sound, Taken
<1> HIDE DEF n
<1>9. \A k \in 1..n + 1 : m.items[k].from <= m.items[k].to /\ m.items[k].to <= m.start
  <2> SUFFICES ASSUME NEW k \in 1..n + 1
               PROVE  m.items[k].from <= m.items[k].to /\ m.items[k].to <= m.start
    OBVIOUS
  <2>1. CASE k \in 1..n
    BY <1>1, <1>5, <1>6, <1>8, <2>1
  <2>2. CASE k = n + 1
    BY <1>1, <1>4, <1>5, <1>6, <2>2
  <2> QED BY <1>1, <2>1, <2>2
<1>10. ASSUME NEW p \in 0..l.start - 1 PROVE Cover(m, p) = Cover(l, p)
  <2>1. ~ (i.from <= p)
    BY <1>1, <1>4
  <2>2. \A k \in 1..n + 1 : k \in 1..n \/ k = n + 1
    BY <1>1
  <2>3. \A k \in 1..n : k \in 1..n + 1
    BY <1>1
  <2> QED BY <1>6, <2>1, <2>2, <2>3 DEF Cover, n
<1>11. ASSUME NEW p \in l.start..l.pos - 1 PROVE Cover(m, p) = {n + 1}
  <2>1. i.from <= p /\ p < i.to
    BY <1>1, <1>4
  <2>2. \A k \in 1..n : ~ (p < m.items[k].to)
    BY <1>1, <1>6, <1>8
  <2>3. \A k \in 1..n + 1 : k \in 1..n \/ k = n + 1
    BY <1>1
  <2>4. n + 1 \in 1..n + 1
    BY <1>1
  <2> QED BY <1>6, <2>1, <2>2, <2>3, <2>4 DEF Cover
<1>12. ASSUME NEW p \in 0..m.start - 1 PROVE Once(m, p)
  <2>1. CASE p \in 0..l.start - 1
    <3>1. Once(l, p) /\ Cover(m, p) = Cover(l, p)
      BY <1>8, <1>10, <2>1
    <3>2. \A q \in 0..p : Cover(m, q) = Cover(l, q)
      <4> SUFFICES ASSUME NEW q \in 0..p PROVE q \in 0..l.start - 1
        BY <1>10
      <4> QED BY <1>1, <2>1
    <3> QED BY <3>1, <3>2 DEF Once, Remark
  <2>2. CASE p \in l.start..l.pos - 1
    BY <1>11, <2>2 DEF Once
  <2> QED BY <1>1, <1>5, <2>1, <2>2
<1>13. Taken(m)
  BY <1>6, <1>9, <1>12 DEF Taken
<1>14. NoEof(l) /\ type # "eof" => NoEof(m)
  <2>1. \A k \in 1..n + 1 : k \in 1..n \/ k = n + 1
    BY <1>1
  <2> QED BY <1>4, <1>6, <2>1 DEF NoEof, n
<1> QED BY <1>1, <1>5, <1>6, <1>7, <1>13, <1>14 DEF Sound, n, i, m

LEMMA EmitSound ==
  ASSUME InputOK, NEW l, Sound(l), NEW type \in item_type
  PROVE  /\ Sound(emit(l, type)) /\ emit(l, type).start = l.pos /\ emit(l, type).pos = l.pos
         /\ NoEof(l) /\ type # "eof" => NoEof(emit(l, type))
BY EmitOK

(* Dropping what was read, which no item covers. *)
LEMMA IgnoreOK ==
  ASSUME InputOK, NEW l, Sound(l), \A p \in l.start..l.pos - 1 : Blank(p) \/ Remark(l, p)
  PROVE  LET m == ignore(l) IN
         /\ Sound(m) /\ m.start = l.pos /\ m.pos = l.pos /\ m.width = l.width
         /\ m.items = l.items
<1> DEFINE m == ignore(l)
           S == Seq(ItemType)
<1>1. /\ len \in Nat /\ l \in [start : Nat, pos : Nat, width : {0, 1}, items : S]
      /\ l.start <= l.pos /\ l.pos <= len /\ (l.pos < len => l.width = 1)
  BY DEF Sound, Place, LexerType, InputOK, len
<1>2. /\ l.items \in Seq(ItemType) /\ Len(l.items) \in Nat
      /\ \A k \in 1..Len(l.items) : l.items[k].from \in Nat /\ l.items[k].to \in Nat
  BY <1>1, ItemFacts DEF S
<1>3. /\ \A k \in 1..Len(l.items) : l.items[k].from <= l.items[k].to /\ l.items[k].to <= l.start
      /\ \A p \in 0..l.start - 1 : Once(l, p)
  BY DEF Sound, Taken
<1> HIDE DEF S
<1>4. /\ m \in [start : Nat, pos : Nat, width : {0, 1}, items : S]
      /\ m.start = l.pos /\ m.pos = l.pos /\ m.width = l.width /\ m.items = l.items
  BY <1>1 DEF ignore
<1> HIDE DEF m
<1>5. Place(m)
  BY <1>1, <1>4 DEF Place, LexerType, S
<1>6. \A p : Cover(m, p) = Cover(l, p)
  BY <1>4 DEF Cover
<1>7. ASSUME NEW p \in 0..m.start - 1 PROVE Once(m, p)
  <2>1. CASE p \in 0..l.start - 1
    BY <1>3, <1>6, <2>1 DEF Once, Remark
  <2>2. CASE p \in l.start..l.pos - 1
    <3>1. Cover(l, p) = {}
      <4>1. \A k \in 1..Len(l.items) : ~ (p < l.items[k].to)
        BY <1>1, <1>2, <1>3, <2>2
      <4> QED BY <4>1 DEF Cover
    <3> QED BY <1>6, <2>2, <3>1 DEF Once, Remark
  <2> QED BY <1>1, <1>4, <2>1, <2>2
<1>8. \A k \in 1..Len(m.items) : m.items[k].from <= m.items[k].to /\ m.items[k].to <= m.start
  BY <1>1, <1>2, <1>3, <1>4
<1>9. Taken(m)
  BY <1>7, <1>8 DEF Taken
<1> QED BY <1>4, <1>5, <1>9 DEF Sound, m

LEMMA SpacesOK ==
  ASSUME InputOK, NEW l, Sound(l), \A p \in l.start..l.pos - 1 : Blank(p) \/ Remark(l, p)
  PROVE  LET m == ignore_spaces(l) IN
         /\ Sound(m) /\ m.start = m.pos /\ m.items = l.items
<1> DEFINE r == accept_run(l, Spaces)
<1>1. /\ Place(r) /\ Same(l, r) /\ l.pos <= r.pos
      /\ \A p \in l.pos..r.pos - 1 : input[p + 1] \in Spaces
  BY RunOK DEF Sound
<1>2. Sound(r)
  BY <1>1, SameTaken DEF Sound
<1>3. r.start = l.start /\ r.items = l.items
  BY <1>1 DEF Same
<1>4. l.start \in Nat /\ l.pos \in Nat /\ r.pos \in Nat /\ l.start <= l.pos
  BY <1>1 DEF Place, LexerType, Sound
<1> HIDE DEF r
<1>5. ASSUME NEW p \in r.start..r.pos - 1 PROVE Blank(p) \/ Remark(r, p)
  <2>1. CASE p \in l.start..l.pos - 1
    BY <1>3, <2>1 DEF Remark, Cover
  <2>2. CASE p \in l.pos..r.pos - 1
    BY <1>1, <2>2 DEF Blank
  <2> QED BY <1>3, <1>4, <2>1, <2>2
<1>6. Sound(ignore(r)) /\ ignore(r).start = r.pos /\ ignore(r).pos = r.pos
      /\ ignore(r).items = r.items
  BY <1>2, <1>5, IgnoreOK
<1> QED BY <1>3, <1>6 DEF ignore_spaces, r

-----------------------------------------------------------------------------
(***************************************************************************)
(* The invariant.                                                          *)
(***************************************************************************)
States == {"lex_expression", "lex_identifier", "lex_string", "lex_raw_string",
           "lex_number", "NULL", "exited", "lex_plus", "lex_minus", "lex_times",
           "lex_slash", "lex_mod", "lex_less_than", "lex_greater_than",
           "lex_and", "lex_or", "lex_xor"}

(* The items end as the parser expects, or in a string. *)
EndsWell(l) ==
  \/ NoEof(l) /\ In(Quote)
  \/ /\ 1 <= Len(l.items) /\ l.items[Len(l.items)].type = "eof"
     /\ l.items[Len(l.items)].to = len
     /\ \A k \in 1..Len(l.items) : l.items[k].type = "eof" => k = Len(l.items)

StateOK(l, s) ==
  /\ s \in States
  /\ s = "lex_expression" => l.start = l.pos
  /\ s = "lex_number" => l.start = l.pos /\ Char(l) \in Digits
  /\ s = "lex_string" => In(Quote)
  /\ s # "NULL" => NoEof(l)
  /\ s = "NULL" => EndsWell(l)

LexerInv == InputOK /\ Sound(lx) /\ StateOK(lx, state)

(* What can be emitted before the end of the input. *)
Lexemes == item_type \ {"eof"}
Rule(r) == eof \notin DOMAIN r.two /\ r.one \in Lexemes /\ \A c \in DOMAIN r.two : r.two[c] \in Lexemes

LEMMA OperatorLexemes == OperatorTypes \subseteq Lexemes
BY DEF OperatorTypes, itype_lit, Lexemes, item_type

LEMMA WordLexemes ==
  /\ \A s : lookup_type(s) \in Lexemes
  /\ {"int", "float", "string", "rawstring"} \subseteq Lexemes /\ "eof" \in item_type
<1>1. DOMAIN Keywords \subseteq Lexemes
  BY DEF Keywords, Lexemes, item_type
<1>2. {"ident", "int", "float", "string", "rawstring"} \subseteq Lexemes /\ "eof" \in item_type
  BY DEF Lexemes, item_type
<1>3. ASSUME NEW s PROVE lookup_type(s) \in Lexemes
  <2>1. CASE \E t \in DOMAIN Keywords : Keywords[t] = s
    <3> DEFINE D == DOMAIN Keywords
    <3>1. \E t \in D : Keywords[t] = s
      BY <2>1
    <3>2. lookup_type(s) = CHOOSE t \in D : Keywords[t] = s
      BY <2>1 DEF lookup_type
    <3> HIDE DEF D
    <3>3. lookup_type(s) \in D
      BY <3>1, <3>2
    <3> QED BY <1>1, <3>3 DEF D
  <2>2. CASE ~ \E t \in DOMAIN Keywords : Keywords[t] = s
    BY <1>2, <2>2 DEF lookup_type
  <2> QED BY <2>1, <2>2
<1> QED BY <1>2, <1>3

LEMMA TableFacts ==
  ASSUME NEW rows
  PROVE  /\ DOMAIN Table(rows) = {r[1] : r \in rows}
         /\ (\A r \in rows : r = <<r[1], r[2]>>) =>
              \A c \in DOMAIN Table(rows) : <<c, Table(rows)[c]>> \in rows
<1>1. DOMAIN Table(rows) = {r[1] : r \in rows}
  BY DEF Table
<1>2. ASSUME \A r \in rows : r = <<r[1], r[2]>>, NEW c \in DOMAIN Table(rows)
      PROVE  <<c, Table(rows)[c]>> \in rows
  <2> DEFINE row == CHOOSE r \in rows : r[1] = c
  <2>1. Table(rows)[c] = row[2]
    BY <1>2 DEF Table
  <2>2. \E r \in rows : r[1] = c
    BY <1>1, <1>2
  <2>3. row \in rows /\ row[1] = c
    BY <2>2
  <2> HIDE DEF row
  <2> QED BY <1>2, <2>1, <2>3
<1> QED BY <1>1, <1>2

(* The rows of a rule are pairs of a character and a type. *)
Rows(rows) == \A r \in rows : r = <<r[1], r[2]>> /\ r[1] # eof /\ r[2] \in Lexemes

LEMMA RuleOf ==
  ASSUME NEW rows, Rows(rows), NEW y, y \in Lexemes
  PROVE  Rule([two |-> Table(rows), one |-> y])
<1> DEFINE two == Table(rows)
<1>1. DOMAIN two = {r[1] : r \in rows} /\ \A c \in DOMAIN two : <<c, two[c]>> \in rows
  BY TableFacts DEF Rows
<1> HIDE DEF two
<1>2. eof \notin DOMAIN two
  BY <1>1 DEF Rows
<1>3. ASSUME NEW c \in DOMAIN two PROVE two[c] \in Lexemes
  <2> DEFINE r == <<c, two[c]>>
  <2>1. r \in rows /\ r[2] = two[c]
    BY <1>1
  <2> HIDE DEF r
  <2> QED BY <2>1 DEF Rows
<1>4. Rule([two |-> two, one |-> y])
  BY <1>2, <1>3 DEF Rule
<1> QED BY <1>4 DEF two

LEMMA RuleFacts ==
  /\ \A s \in DOMAIN Follow : Rule(Follow[s])
  /\ {"equal", "bang", "lshift", "rshift"} \subseteq DOMAIN Follow
<1> DEFINE Used == {"and", "assign", "asterisk", "asterisk_assign", "bang", "bw_and",
      "bw_and_assign", "bw_or", "bw_or_assign", "bw_xor", "bw_xor_assign",
      "equals", "gt", "gteq", "lshift", "lshift_assign", "lt", "lteq",
      "minus", "minus_assign", "minusminus", "modulus", "modulus_assign",
      "not_equals", "or", "plus", "plus_assign", "plusplus", "rshift",
      "rshift_assign", "slash_assign"}
<1>1. Used \subseteq Lexemes
  <2>1. Used \subseteq OperatorTypes
    BY DEF OperatorTypes, itype_lit
  <2> QED BY <2>1, OperatorLexemes
<1>2. "=" # eof /\ "+" # eof /\ "&" # eof /\ "|" # eof
  BY DEF eof
<1>3. Rule(Follow.lex_plus)
  <2> DEFINE rows == {<<"=", "plus_assign">>, <<"+", "plusplus">>}
  <2>1. Rows(rows)
    BY <1>1, <1>2 DEF Rows
  <2>2. Follow.lex_plus = [two |-> Table(rows), one |-> "plus"] /\ "plus" \in Lexemes
    BY <1>1 DEF Follow
  <2> HIDE DEF rows
  <2> QED BY <2>1, <2>2, RuleOf
<1>4. Rule(Follow.lex_minus)
  <2> DEFINE rows == {<<"=", "minus_assign">>, <<"+", "minusminus">>}
  <2>1. Rows(rows)
    BY <1>1, <1>2 DEF Rows
  <2>2. Follow.lex_minus = [two |-> Table(rows), one |-> "minus"] /\ "minus" \in Lexemes
    BY <1>1 DEF Follow
  <2> HIDE DEF rows
  <2> QED BY <2>1, <2>2, RuleOf
<1>5. Rule(Follow.lex_times)
  <2> DEFINE rows == {<<"=", "asterisk_assign">>}
  <2>1. Rows(rows)
    BY <1>1, <1>2 DEF Rows
  <2>2. Follow.lex_times = [two |-> Table(rows), one |-> "asterisk"] /\ "asterisk" \in Lexemes
    BY <1>1 DEF Follow
  <2> HIDE DEF rows
  <2> QED BY <2>1, <2>2, RuleOf
<1>6. Rule(Follow.lex_slash)
  <2> DEFINE rows == {<<"=", "slash_assign">>}
  <2>1. Rows(rows)
    BY <1>1, <1>2 DEF Rows
  <2>2. Follow.lex_slash = [two |-> Table(rows), one |-> "asterisk"] /\ "asterisk" \in Lexemes
    BY <1>1 DEF Follow
  <2> HIDE DEF rows
  <2> QED BY <2>1, <2>2, RuleOf
<1>7. Rule(Follow.lex_mod)
  <2> DEFINE rows == {<<"=", "modulus_assign">>}
  <2>1. Rows(rows)
    BY <1>1, <1>2 DEF Rows
  <2>2. Follow.lex_mod = [two |-> Table(rows), one |-> "modulus"] /\ "modulus" \in Lexemes
    BY <1>1 DEF Follow
  <2> HIDE DEF rows
  <2> QED BY <2>1, <2>2, RuleOf
<1>8. Rule(Follow.lex_less_than)
  <2> DEFINE rows == {<<"=", "lteq">>}
  <2>1. Rows(rows)
    BY <1>1, <1>2 DEF Rows
  <2>2. Follow.lex_less_than = [two |-> Table(rows), one |-> "lt"] /\ "lt" \in Lexemes
    BY <1>1 DEF Follow
  <2> HIDE DEF rows
  <2> QED BY <2>1, <2>2, RuleOf
<1>9. Rule(Follow.lex_greater_than)
  <2> DEFINE rows == {<<"=", "gteq">>}
  <2>1. Rows(rows)
    BY <1>1, <1>2 DEF Rows
  <2>2. Follow.lex_greater_than = [two |-> Table(rows), one |-> "gt"] /\ "gt" \in Lexemes
    BY <1>1 DEF Follow
  <2> HIDE DEF rows
  <2> QED BY <2>1, <2>2, RuleOf
<1>10. Rule(Follow.lex_and)
  <2> DEFINE rows == {<<"&", "and">>, <<"=", "bw_and_assign">>}
  <2>1. Rows(rows)
    BY <1>1, <1>2 DEF Rows
  <2>2. Follow.lex_and = [two |-> Table(rows), one |-> "bw_and"] /\ "bw_and" \in Lexemes
    BY <1>1 DEF Follow
  <2> HIDE DEF rows
  <2> QED BY <2>1, <2>2, RuleOf
<1>11. Rule(Follow.lex_or)
  <2> DEFINE rows == {<<"|", "or">>, <<"=", "bw_or_assign">>}
  <2>1. Rows(rows)
    BY <1>1, <1>2 DEF Rows
  <2>2. Follow.lex_or = [two |-> Table(rows), one |-> "bw_or"] /\ "bw_or" \in Lexemes
    BY <1>1 DEF Follow
  <2> HIDE DEF rows
  <2> QED BY <2>1, <2>2, RuleOf
<1>12. Rule(Follow.lex_xor)
  <2> DEFINE rows == {<<"=", "bw_xor_assign">>}
  <2>1. Rows(rows)
    BY <1>1, <1>2 DEF Rows
  <2>2. Follow.lex_xor = [two |-> Table(rows), one |-> "bw_xor"] /\ "bw_xor" \in Lexemes
    BY <1>1 DEF Follow
  <2> HIDE DEF rows
  <2> QED BY <2>1, <2>2, RuleOf
<1>13. Rule(Follow.equal)
  <2> DEFINE rows == {<<"=", "equals">>}
  <2>1. Rows(rows)
    BY <1>1, <1>2 DEF Rows
  <2>2. Follow.equal = [two |-> Table(rows), one |-> "assign"] /\ "assign" \in Lexemes
    BY <1>1 DEF Follow
  <2> HIDE DEF rows
  <2> QED BY <2>1, <2>2, RuleOf
<1>14. Rule(Follow.bang)
  <2> DEFINE rows == {<<"=", "not_equals">>}
  <2>1. Rows(rows)
    BY <1>1, <1>2 DEF Rows
  <2>2. Follow.bang = [two |-> Table(rows), one |-> "bang"] /\ "bang" \in Lexemes
    BY <1>1 DEF Follow
  <2> HIDE DEF rows
  <2> QED BY <2>1, <2>2, RuleOf
<1>15. Rule(Follow.lshift)
  <2> DEFINE rows == {<<"=", "lshift_assign">>}
  <2>1. Rows(rows)
    BY <1>1, <1>2 DEF Rows
  <2>2. Follow.lshift = [two |-> Table(rows), one |-> "lshift"] /\ "lshift" \in Lexemes
    BY <1>1 DEF Follow
  <2> HIDE DEF rows
  <2> QED BY <2>1, <2>2, RuleOf
<1>16. Rule(Follow.rshift)
  <2> DEFINE rows == {<<"=", "rshift_assign">>}
  <2>1. Rows(rows)
    BY <1>1, <1>2 DEF Rows
  <2>2. Follow.rshift = [two |-> Table(rows), one |-> "rshift"] /\ "rshift" \in Lexemes
    BY <1>1 DEF Follow
  <2> HIDE DEF rows
  <2> QED BY <2>1, <2>2, RuleOf
<1>17. DOMAIN Follow = {"lex_plus", "lex_minus", "lex_times", "lex_slash", "lex_mod",
                         "lex_less_than", "lex_greater_than", "lex_and", "lex_or",
                         "lex_xor", "equal", "bang", "lshift", "rshift"}
  BY DEF Follow
<1> QED BY <1>3, <1>4, <1>5, <1>6, <1>7, <1>8, <1>9, <1>10, <1>11, <1>12, <1>13, <1>14, <1>15, <1>16, <1>17

LEMMA LongestOK ==
  ASSUME InputOK, NEW l, Sound(l), NEW r, Rule(r)
  PROVE  LET m == Longest(l, r) IN
         /\ Sound(m) /\ m.start = m.pos /\ (NoEof(l) => NoEof(m))
<1>1. r.one \in item_type /\ r.one # "eof"
  BY DEF Rule, Lexemes
<1>2. CASE Char(l) \in DOMAIN r.two
  <2>1. r.two[Char(l)] \in item_type /\ r.two[Char(l)] # "eof"
    BY <1>2 DEF Rule, Lexemes
  <2>2. Sound(next(l)) /\ (NoEof(l) => NoEof(next(l)))
    BY NextOK, SameTaken DEF Sound
  <2>3. Longest(l, r) = emit(next(l), r.two[Char(l)])
    BY <1>2 DEF Longest
  <2> DEFINE n == next(l)
             t == r.two[Char(l)]
  <2> HIDE DEF n, t
  <2>4. Sound(n) /\ (NoEof(l) => NoEof(n)) /\ t \in item_type /\ t # "eof"
    BY <2>1, <2>2 DEF n, t
  <2>5. /\ Sound(emit(n, t)) /\ emit(n, t).start = emit(n, t).pos
        /\ (NoEof(n) => NoEof(emit(n, t)))
    BY <2>4, EmitSound
  <2> QED BY <2>3, <2>4, <2>5 DEF n, t
<1>3. CASE Char(l) \notin DOMAIN r.two
  <2>1. Sound(backup(next(l))) /\ (NoEof(l) => NoEof(backup(next(l))))
    BY PutBack, SameTaken DEF Sound
  <2>2. Longest(l, r) = emit(backup(next(l)), r.one)
    BY <1>3 DEF Longest
  <2> DEFINE n == backup(next(l))
  <2> HIDE DEF n
  <2>3. Sound(n) /\ (NoEof(l) => NoEof(n))
    BY <2>1 DEF n
  <2>4. /\ Sound(emit(n, r.one)) /\ emit(n, r.one).start = emit(n, r.one).pos
        /\ (NoEof(n) => NoEof(emit(n, r.one)))
    BY <1>1, <2>3, EmitSound
  <2> QED BY <2>2, <2>3, <2>4 DEF n
<1> QED BY <1>2, <1>3

LEMMA ReadOn ==
  ASSUME InputOK, NEW l, Sound(l)
  PROVE  /\ Sound(next(l)) /\ (NoEof(l) => NoEof(next(l))) /\ next(l).start = l.start
         /\ Sound(backup(next(l))) /\ (NoEof(l) => NoEof(backup(next(l))))
         /\ backup(next(l)).start = l.start /\ backup(next(l)).pos = l.pos
         /\ next(l).pos = IF l.pos < len THEN l.pos + 1 ELSE l.pos
BY NextOK, PutBack, SameTaken DEF Sound, Same

(* Dropping a single character that is blank. *)
LEMMA DropOK ==
  ASSUME InputOK, NEW l, Sound(l), l.start = l.pos, Char(l) \in Spaces \cup {Quote, Backtick}
  PROVE  LET m == ignore(next(l)) IN Sound(m) /\ m.start = m.pos /\ (NoEof(l) => NoEof(m))
<1>1. eof \notin Spaces \cup {Quote, Backtick}
  BY DEF eof, Spaces, VerticalTab, Quote, Backtick
<1>2. l.pos < len /\ Char(l) = input[l.pos + 1] /\ l.pos \in Nat
  BY <1>1, CharFacts DEF Sound, Place, LexerType
<1>3. Blank(l.pos)
  BY <1>2 DEF Blank
<1>4. Sound(next(l)) /\ (NoEof(l) => NoEof(next(l))) /\ next(l).start = l.pos
      /\ next(l).pos = l.pos + 1
  BY <1>2, ReadOn
<1>5. \A p \in next(l).start..next(l).pos - 1 : Blank(p)
  <2> DEFINE a == l.pos  b == next(l).start  c == next(l).pos
  <2>1. a \in Nat /\ b = a /\ c = a + 1
    BY <1>2, <1>4
  <2>2. Blank(a)
    BY <1>3
  <2> HIDE DEF a, b, c
  <2>3. \A p \in b..c - 1 : p = a
    <3> SUFFICES ASSUME NEW p \in b..c - 1 PROVE p = a
      OBVIOUS
    <3>1. p \in a..a + 1 - 1
      BY <2>1
    <3> QED BY <2>1, <3>1
  <2>4. \A p \in b..c - 1 : Blank(p)
    BY <2>2, <2>3
  <2> QED BY <2>4 DEF b, c
<1>6. Sound(ignore(next(l))) /\ ignore(next(l)).start = ignore(next(l)).pos
      /\ ignore(next(l)).items = next(l).items
  BY <1>4, <1>5, IgnoreOK
<1> QED BY <1>4, <1>6 DEF NoEof

-----------------------------------------------------------------------------
(***************************************************************************)
(* The invariant along the state functions.                                *)
(***************************************************************************)
LEMMA GoOK ==
  ASSUME InputOK, NEW l, NEW s, Go(l, s), Sound(l), StateOK(l, s)
  PROVE  LexerInv'
<1>1. lx' = l /\ state' = s /\ input' = input /\ len' = len
  BY DEF Go, len
<1>2. InputOK'
  BY <1>1 DEF InputOK
<1>3. Sound(lx)'
  BY <1>1 DEF Sound, Place, Taken, Once, Cover, Remark, Blank
<1>4. StateOK(lx, state)'
  BY <1>1 DEF StateOK, NoEof, EndsWell, In, Char
<1> QED BY <1>2, <1>3, <1>4 DEF LexerInv

(* Two ways to go on without an eof item. *)
LEMMA OnwardOK ==
  ASSUME InputOK, NEW l, NEW s, Go(l, s), Sound(l), NoEof(l),
         s \in States \ {"lex_number", "NULL", "lex_string"},
         s = "lex_expression" => l.start = l.pos
  PROVE  LexerInv'
<1>1. StateOK(l, s)
  BY DEF StateOK
<1> QED BY <1>1, GoOK

LEMMA StringOK ==
  ASSUME InputOK, NEW l, NEW s, Go(l, s), Sound(l), NoEof(l), In(Quote), s \in {"lex_string", "NULL"}
  PROVE  LexerInv'
<1>1. StateOK(l, s)
  BY DEF StateOK, States, EndsWell
<1> QED BY <1>1, GoOK

(* A lexer between two items. *)
Between(l) == Sound(l) /\ l.start = l.pos /\ NoEof(l)

LEMMA BetweenFacts ==
  ASSUME LexerInv, state = "lex_expression"
  PROVE  InputOK /\ Between(lx) /\ "lex_expression" \in States
BY DEF LexerInv, StateOK, Between, States

LEMMA SpaceStep ==
  ASSUME LexerInv, state = "lex_expression", LexSpace PROVE LexerInv'
<1>1. InputOK /\ Between(lx) /\ "lex_expression" \in States
  BY BetweenFacts
<1> DEFINE m == ignore(next(lx))
<1>2. Char(lx) \in Spaces \cup {Quote, Backtick} /\ Go(m, "lex_expression")
  BY DEF LexSpace, Spaces
<1>3. Sound(m) /\ m.start = m.pos /\ NoEof(m)
  BY <1>1, <1>2, DropOK DEF Between
<1> HIDE DEF m
<1> QED BY <1>1, <1>2, <1>3, OnwardOK

LEMMA LetterStep ==
  ASSUME LexerInv, state = "lex_expression", LexLetter PROVE LexerInv'
<1>1. InputOK /\ Between(lx)
  BY BetweenFacts
<1> DEFINE m == backup(next(lx))
<1>2. Go(m, "lex_identifier") /\ Sound(m) /\ NoEof(m)
  BY <1>1, ReadOn DEF LexLetter, Between
<1> HIDE DEF m
<1>3. "lex_identifier" \in States
  BY DEF States
<1> QED BY <1>1, <1>2, <1>3, OnwardOK

LEMMA DigitStep ==
  ASSUME LexerInv, state = "lex_expression", LexDigit PROVE LexerInv'
<1>1. InputOK /\ Between(lx)
  BY BetweenFacts
<1> DEFINE m == backup(next(lx))
<1>2. Go(m, "lex_number") /\ Sound(m) /\ NoEof(m) /\ m.pos = lx.pos /\ m.start = m.pos
      /\ Char(lx) \in Digits
  BY <1>1, ReadOn DEF LexDigit, Between
<1> HIDE DEF m
<1>3. Char(m) \in Digits
  BY <1>2 DEF Char
<1>4. StateOK(m, "lex_number")
  BY <1>2, <1>3 DEF StateOK, States
<1> QED BY <1>1, <1>2, <1>4, GoOK

LEMMA TakeOK ==
  ASSUME InputOK, NEW l, Sound(l), NoEof(l), NEW t \in Lexemes
  PROVE  Between(emit(l, t)) /\ Between(ignore_spaces(emit(l, t)))
<1> DEFINE e == emit(l, t)
<1>1. Sound(e) /\ e.start = e.pos /\ NoEof(e)
  <2>1. t \in item_type /\ t # "eof"
    BY DEF Lexemes
  <2> QED BY <2>1, EmitSound
<1> HIDE DEF e
<1>2. \A p \in e.start..e.pos - 1 : Blank(p)
  <2> DEFINE a == e.start  b == e.pos
  <2>1. a \in Nat /\ b = a
    BY <1>1 DEF Sound, Place, LexerType
  <2> HIDE DEF a, b
  <2>2. a..b - 1 = {}
    BY <2>1
  <2> QED BY <2>2 DEF a, b
<1>3. Sound(ignore_spaces(e)) /\ ignore_spaces(e).start = ignore_spaces(e).pos
      /\ ignore_spaces(e).items = e.items
  BY <1>1, <1>2, SpacesOK
<1>4. NoEof(ignore_spaces(e))
  BY <1>1, <1>3 DEF NoEof
<1> QED BY <1>1, <1>3, <1>4 DEF Between, e

LEMMA SingleFacts ==
  /\ \A c \in DOMAIN Single : Single[c] \in Lexemes
  /\ \A c \in DOMAIN SingleOnly : SingleOnly[c] \in Lexemes
<1>1. {"semicolon", "lparen", "rparen", "lbrace", "rbrace", "comma", "lbracket", "dot",
       "rbracket", "colon", "bw_not"} \subseteq Lexemes
  <2>1. {"semicolon", "lparen", "rparen", "lbrace", "rbrace", "comma", "lbracket", "dot",
         "rbracket", "colon", "bw_not"} \subseteq OperatorTypes
    BY DEF OperatorTypes, itype_lit
  <2> QED BY <2>1, OperatorLexemes
<1>2. ASSUME NEW c \in DOMAIN Single PROVE Single[c] \in Lexemes
  <2> DEFINE semi == ";"  open == "{"  close == "}"  comma == ","
             rows == {<<semi, "semicolon">>, <<"(", "lparen">>, <<")", "rparen">>,
                      <<open, "lbrace">>, <<close, "rbrace">>, <<comma, "comma">>,
                      <<"[", "lbracket">>, <<".", "dot">>}
             r == <<c, Single[c]>>
  <2>5. Single = Table(rows)
    BY DEF Single
  <2> HIDE DEF semi, open, close, comma
  <2>4. \A row \in rows : row = <<row[1], row[2]>> /\ row[2] \in Lexemes
    BY <1>1
  <2>1. Single = Table(rows) /\ \A row \in rows : row = <<row[1], row[2]>> /\ row[2] \in Lexemes
    BY <2>4, <2>5
  <2>2. \A d \in DOMAIN Table(rows) : <<d, Table(rows)[d]>> \in rows
    <3> HIDE DEF rows
    <3> QED BY <2>1, TableFacts
  <2>3. r \in rows /\ r[2] = Single[c]
    <3> HIDE DEF rows
    <3> QED BY <2>1, <2>2
  <2> HIDE DEF rows, r
  <2> QED BY <2>1, <2>3
<1>3. ASSUME NEW c \in DOMAIN SingleOnly PROVE SingleOnly[c] \in Lexemes
  <2> DEFINE rows == {<<"]", "rbracket">>, <<":", "colon">>, <<"~", "bw_not">>}
             r == <<c, SingleOnly[c]>>
  <2>1. SingleOnly = Table(rows) /\ \A row \in rows : row = <<row[1], row[2]>> /\ row[2] \in Lexemes
    BY <1>1 DEF SingleOnly
  <2>2. \A d \in DOMAIN Table(rows) : <<d, Table(rows)[d]>> \in rows
    <3> HIDE DEF rows
    <3> QED BY <2>1, TableFacts
  <2>3. r \in rows /\ r[2] = SingleOnly[c]
    <3> HIDE DEF rows
    <3> QED BY <2>1, <2>2
  <2> HIDE DEF rows, r
  <2> QED BY <2>1, <2>3
<1> QED BY <1>2, <1>3

LEMMA SingleStep ==
  ASSUME LexerInv, state = "lex_expression", LexSingle PROVE LexerInv'
<1>1. InputOK /\ Between(lx) /\ "lex_expression" \in States
  BY BetweenFacts
<1> DEFINE n == next(lx)
<1>2. Sound(n) /\ NoEof(n)
  BY <1>1, ReadOn DEF Between
<1> HIDE DEF n
<1>3. ASSUME NEW t \in Lexemes, NEW m \in {emit(n, t), ignore_spaces(emit(n, t))}, Go(m, state)
      PROVE  LexerInv'
  <2>1. Sound(m) /\ m.start = m.pos /\ NoEof(m)
    BY <1>1, <1>2, TakeOK DEF Between
  <2> QED BY <1>1, <1>3, <2>1, OnwardOK
<1>4. CASE Char(lx) \in DOMAIN Single /\ Go(ignore_spaces(emit(n, Single[Char(lx)])), state)
  BY <1>3, <1>4, SingleFacts
<1>5. CASE Char(lx) \in DOMAIN SingleOnly /\ Go(emit(n, SingleOnly[Char(lx)]), state)
  BY <1>3, <1>5, SingleFacts
<1> QED BY <1>4, <1>5 DEF LexSingle, n

LEMMA LongerFacts == \A c \in DOMAIN Longer : Longer[c] \in States \ {"lex_number", "NULL", "lex_string", "lex_expression"}
<1> DEFINE S == States \ {"lex_number", "NULL", "lex_string", "lex_expression"}
<1> SUFFICES ASSUME NEW c \in DOMAIN Longer PROVE Longer[c] \in S
  OBVIOUS
<1> DEFINE rows == {
  <<"+", "lex_plus">>, <<"-", "lex_minus">>, <<"*", "lex_times">>,
  <<"/", "lex_slash">>, <<"%", "lex_mod">>, <<"<", "lex_less_than">>,
  <<">", "lex_greater_than">>, <<"&", "lex_and">>, <<"|", "lex_or">>,
  <<"^", "lex_xor">>}
           r == <<c, Longer[c]>>
<1>1. Longer = Table(rows) /\ \A row \in rows : row = <<row[1], row[2]>> /\ row[2] \in S
  BY DEF Longer, States
<1>2. \A d \in DOMAIN Table(rows) : <<d, Table(rows)[d]>> \in rows
  <2> HIDE DEF rows
  <2> QED BY <1>1, TableFacts
<1>3. r \in rows /\ r[2] = Longer[c]
  <2> HIDE DEF rows
  <2> QED BY <1>1, <1>2
<1> HIDE DEF rows, r, S
<1> QED BY <1>1, <1>3

LEMMA LongerStep ==
  ASSUME LexerInv, state = "lex_expression", LexLonger PROVE LexerInv'
<1>1. InputOK /\ Between(lx) /\ "lex_expression" \in States
  BY BetweenFacts
<1> DEFINE n == next(lx)
<1>2. Sound(n) /\ NoEof(n)
  BY <1>1, ReadOn DEF Between
<1> HIDE DEF n
<1>3. CASE Char(lx) \in DOMAIN Longer /\ Go(n, Longer[Char(lx)])
  BY <1>1, <1>2, <1>3, LongerFacts, OnwardOK
<1>4. ASSUME NEW r, Rule(r), Go(Longest(n, r), state) PROVE LexerInv'
  <2> DEFINE m == Longest(n, r)
  <2>1. Sound(m) /\ m.start = m.pos /\ NoEof(m)
    BY <1>1, <1>2, <1>4, LongestOK
  <2> HIDE DEF m
  <2>2. Go(m, state)
    BY <1>4 DEF m
  <2> QED BY <1>1, <2>1, <2>2, OnwardOK
<1>5. Rule(Follow.equal) /\ Rule(Follow.bang)
  BY RuleFacts
<1> QED BY <1>3, <1>4, <1>5 DEF LexLonger, n

LEMMA QuoteStep ==
  ASSUME LexerInv, state = "lex_expression", LexQuote PROVE LexerInv'
<1>1. InputOK /\ Between(lx)
  BY BetweenFacts
<1> DEFINE m == ignore(next(lx))
<1>2. Char(lx) \in {Quote, Backtick}
  BY DEF LexQuote
<1>3. Sound(m) /\ NoEof(m)
  BY <1>1, <1>2, DropOK DEF Between
<1> HIDE DEF m
<1>4. CASE Char(lx) = Quote /\ Go(m, "lex_string")
  <2>1. lx.pos < len /\ input[lx.pos + 1] = Quote /\ lx.pos \in Nat /\ len \in Nat
    BY <1>1, <1>4, CharFacts DEF Between, Sound, Place, LexerType, eof, Quote
  <2>2. lx.pos + 1 \in 1..len
    BY <2>1
  <2>3. In(Quote)
    BY <2>1, <2>2 DEF In
  <2> QED BY <1>1, <1>3, <1>4, <2>3, StringOK
<1>5. CASE Char(lx) = Backtick /\ Go(m, "lex_raw_string")
  <2>1. "lex_raw_string" \in States
    BY DEF States
  <2> QED BY <1>1, <1>3, <1>5, <2>1, OnwardOK
<1> QED BY <1>4, <1>5 DEF LexQuote, m

LEMMA InvalidStep ==
  ASSUME LexerInv, state = "lex_expression", LexInvalid PROVE LexerInv'
<1>1. InputOK /\ Between(lx) /\ "exited" \in States
  BY BetweenFacts DEF States
<1> DEFINE n == next(lx)
<1>2. Sound(n) /\ NoEof(n) /\ Go(n, "exited")
  BY <1>1, ReadOn DEF Between, LexInvalid
<1> HIDE DEF n
<1> QED BY <1>1, <1>2, OnwardOK

LEMMA EofStep ==
  ASSUME LexerInv, state = "lex_expression", LexEof PROVE LexerInv'
<1>1. InputOK /\ Between(lx) /\ "eof" \in item_type
  BY BetweenFacts, WordLexemes
<1> DEFINE n == next(lx)
           e == emit(n, "eof")
<1>2. Char(lx) = "eof" /\ Go(e, "NULL")
  BY DEF LexEof, eof
<1>3. lx.pos = len /\ Sound(n) /\ NoEof(n) /\ n.pos = len
  BY <1>1, <1>2, ReadOn, CharFacts DEF Between, Sound, eof
<1> HIDE DEF n
<1>4. Sound(e) /\ Len(e.items) = Len(n.items) + 1 /\ Len(n.items) \in Nat
      /\ e.items[Len(e.items)] = [type |-> "eof", from |-> n.start, to |-> n.pos]
      /\ \A k \in 1..Len(n.items) : e.items[k] = n.items[k]
  BY <1>1, <1>3, EmitOK
<1> HIDE DEF e
<1>5. EndsWell(e)
  <2> DEFINE k0 == Len(n.items)
  <2>1. k0 \in Nat /\ Len(e.items) = k0 + 1
    BY <1>4
  <2>2. e.items[k0 + 1].type = "eof" /\ e.items[k0 + 1].to = len
    BY <1>3, <1>4
  <2>3. \A k \in 1..k0 : e.items[k].type # "eof"
    BY <1>3, <1>4 DEF NoEof
  <2> HIDE DEF k0
  <2>4. \A k \in 1..k0 + 1 : k \in 1..k0 \/ k = k0 + 1
    BY <2>1
  <2> QED BY <2>1, <2>2, <2>3, <2>4 DEF EndsWell
<1>6. StateOK(e, "NULL")
  BY <1>5 DEF StateOK, States
<1> QED BY <1>1, <1>2, <1>4, <1>6, GoOK

LEMMA CommentStep ==
  ASSUME LexerInv, state = "lex_expression", LexComment PROVE LexerInv'
<1>1. InputOK /\ Between(lx) /\ "lex_expression" \in States
  BY BetweenFacts
<1> DEFINE valid == Characters \ {"\n"}
           ends == {p \in lx.pos..len - 1 : input[p + 1] = "\n"}
           stops == {p \in lx.pos..len - 1 : input[p + 1] \notin valid}
           r == accept_run(lx, valid)
<1>2. Char(lx) = "#" /\ lx.pos \in Nat /\ len \in Nat /\ lx.start = lx.pos
      /\ \A i \in 1..len : input[i] \in Characters
  BY <1>1 DEF LexComment, Between, Sound, Place, LexerType, InputOK, len
<1>3. ends = stops
  <2>1. \A p \in lx.pos..len - 1 : input[p + 1] \in Characters
    BY <1>2
  <2> QED BY <2>1
<1>4. Go(ignore_spaces(r), "lex_expression")
  BY <1>3 DEF LexComment, accept_run
<1>5. /\ Place(r) /\ Same(lx, r) /\ lx.pos <= r.pos
      /\ \A p \in lx.pos..r.pos - 1 : input[p + 1] \in valid
  <2> HIDE DEF valid
  <2> QED BY <1>1, RunOK DEF Between, Sound
<1> HIDE DEF r, ends, stops
<1>6. Sound(r) /\ NoEof(r) /\ r.start = lx.pos /\ r.items = lx.items
  BY <1>1, <1>5, SameTaken DEF Between, Sound, Same
<1>7. "#" # eof
  BY DEF eof
<1>8. lx.pos < len /\ input[lx.pos + 1] = "#"
  BY <1>1, <1>2, <1>7, CharFacts DEF Between, Sound
<1>9. r.pos \in Nat /\ r.pos <= len
  BY <1>5 DEF Place, LexerType
<1>10. Cover(r, lx.pos) = {}
  <2>1. \A k \in 1..Len(r.items) : r.items[k].to \in Nat /\ r.items[k].to <= lx.pos
    <3>1. r.items \in Seq(ItemType)
      BY <1>5 DEF Place, LexerType
    <3> QED BY <1>6, <3>1, ItemFacts DEF Sound, Taken
  <2> QED BY <1>2, <2>1 DEF Cover
<1>11. ASSUME NEW p \in r.start..r.pos - 1 PROVE Remark(r, p)
  <2> DEFINE q == lx.pos
  <2>1. q \in 0..p /\ input[q + 1] = "#" /\ Cover(r, q) = {}
    BY <1>2, <1>6, <1>8, <1>9, <1>10
  <2>2. \A t \in q..p : t \in lx.pos..r.pos - 1
    BY <1>2, <1>6, <1>9
  <2>3. \A t \in q..p : input[t + 1] # "\n"
    BY <1>5, <2>2
  <2> HIDE DEF q
  <2> QED BY <2>1, <2>3 DEF Remark
<1>12. Sound(ignore_spaces(r)) /\ ignore_spaces(r).start = ignore_spaces(r).pos
       /\ ignore_spaces(r).items = r.items
  BY <1>1, <1>6, <1>11, SpacesOK
<1>13. NoEof(ignore_spaces(r))
  BY <1>6, <1>12 DEF NoEof
<1> QED BY <1>1, <1>4, <1>12, <1>13, OnwardOK

LEMMA ExpressionStep == ASSUME LexerInv, lex_expression PROVE LexerInv'
<1>1. state = "lex_expression"
  BY DEF lex_expression
<1> QED BY <1>1, SpaceStep, LetterStep, DigitStep, SingleStep, LongerStep, QuoteStep,
           CommentStep, EofStep, InvalidStep DEF lex_expression

-----------------------------------------------------------------------------
LEMMA InvFacts ==
  ASSUME LexerInv, state # "NULL"
  PROVE  InputOK /\ Sound(lx) /\ NoEof(lx) /\ "lex_expression" \in States
BY DEF LexerInv, StateOK, States

LEMMA IdentifierStep == ASSUME LexerInv, lex_identifier PROVE LexerInv'
<1> DEFINE r == accept_run(lx, WordChars)
<1>1. InputOK /\ Sound(lx) /\ NoEof(lx) /\ "lex_expression" \in States
      /\ Go(emit(r, lookup_type(Current(r))), "lex_expression")
  BY InvFacts DEF lex_identifier
<1>2. Sound(r) /\ NoEof(r)
  BY <1>1, RunOK, SameTaken DEF Sound
<1> HIDE DEF r
<1> DEFINE t == lookup_type(Current(r))
           m == emit(r, t)
<1>3. t \in Lexemes
  BY WordLexemes
<1> HIDE DEF t
<1>4. Between(m)
  BY <1>1, <1>2, <1>3, TakeOK
<1>5. Go(m, "lex_expression")
  BY <1>1 DEF t
<1> HIDE DEF m
<1> QED BY <1>1, <1>4, <1>5, OnwardOK DEF Between

LEMMA OperatorStep == ASSUME LexerInv, lex_operator PROVE LexerInv'
<1>1. state \in DOMAIN Follow
  BY DEF lex_operator
<1>2. state # "NULL"
  <2>1. "NULL" \notin DOMAIN Follow
    BY DEF Follow
  <2> QED BY <1>1, <2>1
<1>3. InputOK /\ Sound(lx) /\ NoEof(lx) /\ "lex_expression" \in States
  BY <1>2, InvFacts
<1>4. ASSUME NEW l \in {lx, next(lx)}, NEW r, Rule(r), Go(Longest(l, r), "lex_expression")
      PROVE  LexerInv'
  <2>1. Sound(l) /\ NoEof(l)
    BY <1>3, ReadOn
  <2> DEFINE m == Longest(l, r)
  <2>2. Sound(m) /\ m.start = m.pos /\ NoEof(m)
    BY <1>3, <1>4, <2>1, LongestOK
  <2>3. Go(m, "lex_expression")
    BY <1>4
  <2> HIDE DEF m
  <2> QED BY <1>3, <2>2, <2>3, OnwardOK
<1>5. Rule(Follow.lshift) /\ Rule(Follow.rshift) /\ Rule(Follow[state])
  BY <1>1, RuleFacts
<1>6. \/ Go(Longest(next(lx), Follow.lshift), "lex_expression")
      \/ Go(Longest(next(lx), Follow.rshift), "lex_expression")
      \/ Go(Longest(lx, Follow[state]), "lex_expression")
  <2>1. CASE state = "lex_less_than" /\ Char(lx) = "<"
    BY <2>1 DEF lex_operator
  <2>2. CASE state = "lex_greater_than" /\ Char(lx) = ">"
    BY <2>2 DEF lex_operator
  <2>3. CASE /\ ~ (state = "lex_less_than" /\ Char(lx) = "<")
             /\ ~ (state = "lex_greater_than" /\ Char(lx) = ">")
    BY <2>3 DEF lex_operator
  <2> QED BY <2>1, <2>2, <2>3
<1> QED BY <1>4, <1>5, <1>6

(* At the closing quote or backtick: what was read is an item, and the     *)
(* quote is dropped.                                                       *)
LEMMA CloseOK ==
  ASSUME InputOK, NEW l, Sound(l), NoEof(l), Char(l) \in {Quote, Backtick}, NEW t \in Lexemes
  PROVE  LET m == ignore(next(emit(backup(next(l)), t))) IN
         Sound(m) /\ m.start = m.pos /\ NoEof(m)
<1> DEFINE b == backup(next(l))
<1>1. Sound(b) /\ NoEof(b) /\ b.pos = l.pos
  BY ReadOn
<1>2. Char(b) = Char(l)
  BY <1>1 DEF Char
<1> HIDE DEF b
<1> DEFINE e == emit(b, t)
<1>3. Between(e) /\ e.pos = b.pos
  <2>1. t \in item_type
    BY DEF Lexemes
  <2> QED BY <1>1, <2>1, TakeOK, EmitSound
<1>4. Char(e) = Char(l)
  BY <1>2, <1>3 DEF Char
<1> HIDE DEF e
<1>5. LET m == ignore(next(e)) IN Sound(m) /\ m.start = m.pos /\ NoEof(m)
  BY <1>3, <1>4, DropOK DEF Between
<1> QED BY <1>5 DEF e, b

LEMMA StringStep == ASSUME LexerInv, lex_string PROVE LexerInv'
<1>1. state = "lex_string" /\ InputOK /\ Sound(lx) /\ NoEof(lx) /\ "lex_expression" \in States
      /\ In(Quote)
  BY InvFacts DEF lex_string, LexerInv, StateOK
<1> DEFINE n == next(lx)
           m == ignore(next(emit(backup(n), "string")))
<1>2. CASE Char(lx) = Quote
  <2>1. Go(m, "lex_expression")
    BY <1>2 DEF lex_string, eof, Quote, Backslash
  <2>2. "string" \in Lexemes
    BY WordLexemes
  <2>3. Sound(m) /\ m.start = m.pos /\ NoEof(m)
    BY <1>1, <1>2, <2>2, CloseOK
  <2> HIDE DEF m, n
  <2> QED BY <1>1, <2>1, <2>3, OnwardOK
<1>3. CASE Char(lx) # Quote
  <2>1. \E l \in {n, next(n)} : \E s \in {"lex_string", "NULL"} : Go(l, s)
    BY <1>3 DEF lex_string, eof, Backslash
  <2>2. Sound(n) /\ NoEof(n)
    BY <1>1, ReadOn
  <2> HIDE DEF n
  <2>3. Sound(next(n)) /\ NoEof(next(n))
    BY <1>1, <2>2, ReadOn
  <2> QED BY <1>1, <2>1, <2>2, <2>3, StringOK
<1> QED BY <1>2, <1>3

LEMMA RawStringStep == ASSUME LexerInv, lex_raw_string PROVE LexerInv'
<1>1. state = "lex_raw_string" /\ InputOK /\ Sound(lx) /\ NoEof(lx) /\ "lex_raw_string" \in States
  BY InvFacts DEF lex_raw_string, States
<1>2. ASSUME NEW l, Sound(l), NoEof(l), Go(next(l), "lex_raw_string") PROVE LexerInv'
  <2> DEFINE m == next(l)
  <2>1. Sound(m) /\ NoEof(m)
    BY <1>1, <1>2, ReadOn
  <2>2. Go(m, "lex_raw_string")
    BY <1>2
  <2> HIDE DEF m
  <2> QED BY <1>1, <2>1, <2>2, OnwardOK
<1>3. CASE Char(lx) = Backtick
  <2> DEFINE l == ignore(next(emit(backup(next(lx)), "rawstring")))
  <2>1. "rawstring" \in Lexemes
    BY WordLexemes
  <2>2. Sound(l) /\ NoEof(l)
    BY <1>1, <1>3, <2>1, CloseOK
  <2>3. Go(next(l), "lex_raw_string")
    BY <1>3 DEF lex_raw_string
  <2> HIDE DEF l
  <2> QED BY <1>2, <2>2, <2>3
<1>4. CASE Char(lx) # Backtick
  <2> DEFINE l == backup(next(lx))
  <2>1. Sound(l) /\ NoEof(l)
    BY <1>1, ReadOn
  <2>2. Go(next(l), "lex_raw_string")
    BY <1>4 DEF lex_raw_string
  <2> HIDE DEF l
  <2> QED BY <1>2, <2>1, <2>2
<1> QED BY <1>3, <1>4

(* A lexer that may try a character and, at the end, go back over one. *)
Ready(l) == Place(l) /\ (l.width = 1 /\ l.pos = len => l.start < l.pos)

LEMMA TryOK ==
  ASSUME InputOK, NEW l, Ready(l), NEW valid
  PROVE  /\ eof \notin valid => Ready(accept(l, valid)) /\ Same(l, accept(l, valid))
         /\ Ready(accept_run(l, valid)) /\ Same(l, accept_run(l, valid))
<1>1. /\ len \in Nat /\ l.pos \in Nat /\ l.start \in Nat /\ l.start <= l.pos /\ l.pos <= len
      /\ l.width \in {0, 1} /\ Place(l) /\ (l.width = 1 /\ l.pos = len => l.start < l.pos)
  BY DEF Ready, Place, LexerType, InputOK, len
<1>2. ASSUME eof \notin valid PROVE Ready(accept(l, valid)) /\ Same(l, accept(l, valid))
  <2> DEFINE m == accept(l, valid)
  <2>1. /\ Place(m) /\ Same(l, m)
        /\ Accepts(l, valid) => l.pos < len /\ m.pos = l.pos + 1 /\ m.width = 1
        /\ ~ Accepts(l, valid) /\ l.pos < len => m = l
        /\ ~ (l.pos < len) => m.pos = len - l.width /\ m.width = l.width
    BY <1>1, <1>2, AcceptOK
  <2> HIDE DEF m
  <2>2. Accepts(l, valid) => Ready(m)
    BY <1>1, <2>1 DEF Ready, Same
  <2>3. ~ Accepts(l, valid) /\ l.pos < len => Ready(m)
    BY <1>1, <2>1 DEF Ready
  <2>4. ~ (l.pos < len) => Ready(m)
    BY <1>1, <2>1 DEF Ready
  <2>5. Ready(m)
    BY <2>2, <2>3, <2>4
  <2> QED BY <2>1, <2>5 DEF m
<1>3. Ready(accept_run(l, valid)) /\ Same(l, accept_run(l, valid))
  BY <1>1, RunOK DEF Ready
<1> QED BY <1>2, <1>3

(* m was reached from l by trying characters. *)
Tried(l, m) == Ready(m) /\ Same(l, m)

LEMMA TriedOn ==
  ASSUME InputOK, NEW l, NEW m, Tried(l, m), NEW valid, eof \notin valid
  PROVE  Tried(l, accept(m, valid)) /\ Tried(l, accept_run(m, valid))
BY TryOK DEF Tried, Same

(* A number is what was tried from its first digit on. *)
LEMMA NumberEnds ==
  ASSUME LexerInv, lex_number
  PROVE  \E end : \E t \in {"float", "int"} : Tried(lx, end) /\ Go(emit(end, t), "lex_expression")
<1>1. state = "lex_number" /\ InputOK /\ Sound(lx) /\ NoEof(lx) /\ "lex_expression" \in States
      /\ Char(lx) \in Digits
  BY InvFacts DEF lex_number, LexerInv, StateOK
<1>2. /\ eof \notin {"+", "-"} /\ eof \notin {"0"} /\ eof \notin {"x", "X"} /\ eof \notin {"."}
      /\ eof \notin {"e", "E"} /\ eof \notin Digits /\ eof \notin HexDigits
  BY DEF eof, Digits, HexDigits
<1>3. Tried(lx, lx)
  <2>1. lx.pos < len /\ lx.pos \in Nat /\ len \in Nat
    BY <1>1, <1>2, CharFacts DEF Sound, Place, LexerType
  <2> QED BY <1>1, <2>1 DEF Tried, Ready, Same, Sound
<1>4. PICK signed \in {accept(lx, {"+", "-"})} : \E zero \in {accept(signed, {"0"})} :
        \E prefix \in {IF Accepts(signed, {"0"}) THEN accept(zero, {"x", "X"}) ELSE zero} :
        \E digits \in {Digits, HexDigits} :
        \E whole \in {accept_run(prefix, digits)} :
        \E dot \in {accept(whole, {"."})} :
        \E decimal \in {IF Accepts(whole, {"."}) THEN accept_run(dot, digits) ELSE dot} :
        \E exp \in {accept(decimal, {"e", "E"})} :
        \E end \in {exp, accept(accept(exp, {"+", "-"}), Digits)} :
        \E t \in {"float", "int"} : Go(emit(end, t), "lex_expression")
  BY DEF lex_number
<1>5. PICK zero \in {accept(signed, {"0"})} :
        \E prefix \in {IF Accepts(signed, {"0"}) THEN accept(zero, {"x", "X"}) ELSE zero} :
        \E digits \in {Digits, HexDigits} :
        \E whole \in {accept_run(prefix, digits)} :
        \E dot \in {accept(whole, {"."})} :
        \E decimal \in {IF Accepts(whole, {"."}) THEN accept_run(dot, digits) ELSE dot} :
        \E exp \in {accept(decimal, {"e", "E"})} :
        \E end \in {exp, accept(accept(exp, {"+", "-"}), Digits)} :
        \E t \in {"float", "int"} : Go(emit(end, t), "lex_expression")
  BY <1>4
<1>6. Tried(lx, signed) /\ Tried(lx, zero)
  BY <1>1, <1>2, <1>3, <1>4, <1>5, TriedOn
<1>7. PICK prefix \in {zero, accept(zero, {"x", "X"})}, digits \in {Digits, HexDigits} :
        \E whole \in {accept_run(prefix, digits)} :
        \E dot \in {accept(whole, {"."})} :
        \E decimal \in {IF Accepts(whole, {"."}) THEN accept_run(dot, digits) ELSE dot} :
        \E exp \in {accept(decimal, {"e", "E"})} :
        \E end \in {exp, accept(accept(exp, {"+", "-"}), Digits)} :
        \E t \in {"float", "int"} : Go(emit(end, t), "lex_expression")
  BY <1>5
<1>8. Tried(lx, prefix)
  BY <1>1, <1>2, <1>6, <1>7, TriedOn
<1>9. PICK whole \in {accept_run(prefix, digits)} : \E dot \in {accept(whole, {"."})} :
        \E decimal \in {IF Accepts(whole, {"."}) THEN accept_run(dot, digits) ELSE dot} :
        \E exp \in {accept(decimal, {"e", "E"})} :
        \E end \in {exp, accept(accept(exp, {"+", "-"}), Digits)} :
        \E t \in {"float", "int"} : Go(emit(end, t), "lex_expression")
  BY <1>7
<1>10. PICK dot \in {accept(whole, {"."})} :
        \E decimal \in {dot, accept_run(dot, digits)} :
        \E exp \in {accept(decimal, {"e", "E"})} :
        \E end \in {exp, accept(accept(exp, {"+", "-"}), Digits)} :
        \E t \in {"float", "int"} : Go(emit(end, t), "lex_expression")
  BY <1>9
<1>11. PICK decimal \in {dot, accept_run(dot, digits)} :
        \E exp \in {accept(decimal, {"e", "E"})} :
        \E end \in {exp, accept(accept(exp, {"+", "-"}), Digits)} :
        \E t \in {"float", "int"} : Go(emit(end, t), "lex_expression")
  BY <1>10
<1>12. Tried(lx, whole) /\ Tried(lx, dot) /\ Tried(lx, decimal)
  <2>1. Tried(lx, whole)
    BY <1>1, <1>2, <1>7, <1>8, <1>9, TriedOn
  <2>2. Tried(lx, dot)
    BY <1>1, <1>2, <1>10, <2>1, TriedOn
  <2>3. eof \notin digits
    BY <1>2, <1>7
  <2>4. Tried(lx, accept_run(dot, digits))
    BY <1>1, <2>2, <2>3, TriedOn
  <2> QED BY <1>11, <2>1, <2>2, <2>4
<1>13. PICK exp \in {accept(decimal, {"e", "E"})} :
        \E end \in {exp, accept(accept(exp, {"+", "-"}), Digits)} :
        \E t \in {"float", "int"} : Go(emit(end, t), "lex_expression")
  BY <1>11
<1>14. Tried(lx, exp)
  BY <1>1, <1>2, <1>12, <1>13, TriedOn
<1>15. PICK end \in {exp, accept(accept(exp, {"+", "-"}), Digits)}, t \in {"float", "int"} :
         Go(emit(end, t), "lex_expression")
  BY <1>13
<1>16. Tried(lx, end)
  <2>1. Tried(lx, accept(exp, {"+", "-"}))
    BY <1>1, <1>2, <1>14, TriedOn
  <2> DEFINE sign == accept(exp, {"+", "-"})
  <2>2. Tried(lx, sign)
    BY <2>1
  <2> HIDE DEF sign
  <2>3. Tried(lx, accept(sign, Digits))
    BY <1>1, <1>2, <2>2, TriedOn
  <2> QED BY <1>14, <1>15, <2>3 DEF sign
<1> QED BY <1>15, <1>16

LEMMA NumberStep == ASSUME LexerInv, lex_number PROVE LexerInv'
<1>1. InputOK /\ Sound(lx) /\ NoEof(lx) /\ "lex_expression" \in States
  BY InvFacts DEF lex_number
<1>0. PICK end : \E t \in {"float", "int"} : Tried(lx, end) /\ Go(emit(end, t), "lex_expression")
  BY NumberEnds
<1>2. PICK t \in {"float", "int"} : Tried(lx, end) /\ Go(emit(end, t), "lex_expression")
  BY <1>0
<1>3. Sound(end) /\ NoEof(end)
  BY <1>1, <1>2, SameTaken DEF Tried, Ready, Sound
<1>4. t \in Lexemes
  BY <1>2, WordLexemes
<1> DEFINE m == emit(end, t)
<1>5. Sound(m) /\ m.start = m.pos /\ NoEof(m)
  BY <1>1, <1>3, <1>4, TakeOK DEF Between
<1>6. Go(m, "lex_expression")
  BY <1>2
<1> HIDE DEF m
<1> QED BY <1>1, <1>5, <1>6, OnwardOK

-----------------------------------------------------------------------------
(***************************************************************************)
(* The theorems.                                                           *)
(***************************************************************************)
LEMMA LexerStep == ASSUME LexerInv, [lexer_run]_lexerVars PROVE LexerInv'
<1>1. CASE lexer_run
  BY <1>1, ExpressionStep, IdentifierStep, OperatorStep, StringStep, RawStringStep, NumberStep
     DEF lexer_run
<1>2. CASE UNCHANGED lexerVars
  <2>1. Go(lx, state)
    BY <1>2 DEF Go, lexerVars
  <2> QED BY <2>1, GoOK DEF LexerInv
<1> QED BY <1>1, <1>2

(* A new lexer, on any text. *)
LEMMA NewLexer ==
  ASSUME InputOK, lx = new_lexer, state = "lex_expression"
  PROVE  LexerInv
<1>1. len \in Nat
  BY DEF InputOK, len
<1> DEFINE items == <<>>
           l == [start |-> 0, pos |-> 0, width |-> 1, items |-> items]
<1>2. items \in Seq(ItemType) /\ Len(items) = 0
  <2> HIDE DEF ItemType
  <2> QED OBVIOUS
<1> HIDE DEF items
<1>3. l \in LexerType /\ l.start = 0 /\ l.pos = 0 /\ l.width = 1 /\ l.items = items
  BY <1>2 DEF LexerType
<1> HIDE DEF l
<1>4. Sound(l) /\ NoEof(l)
  <2>1. Place(l)
    BY <1>1, <1>3 DEF Place
  <2>2. 1..Len(l.items) = {} /\ 0..l.start - 1 = {} /\ l.start..l.pos - 1 = {}
    BY <1>2, <1>3
  <2> QED BY <2>1, <2>2 DEF Sound, Taken, NoEof
<1>5. l.start..l.pos - 1 = {}
  BY <1>3
<1> DEFINE m == ignore_spaces(l)
<1>6. Sound(m) /\ m.start = m.pos /\ m.items = l.items
  BY <1>1, <1>4, <1>5, SpacesOK
<1>7. m = new_lexer
  BY DEF new_lexer, l, items
<1> HIDE DEF m
<1>8. lx = m /\ state = "lex_expression"
  BY <1>7
<1>9. StateOK(m, "lex_expression")
  BY <1>4, <1>6 DEF StateOK, States, NoEof
<1> QED BY <1>6, <1>8, <1>9 DEF LexerInv

LEMMA LexerStart == LexerInit => LexerInv
BY NewLexer, TextsAssumption DEF LexerInit, InputOK

(* LexerInv holds in every state. *)
LEMMA LexerAlways == LexerSpec => []LexerInv
<1> QED BY LexerStart, LexerStep, PTL DEF LexerSpec

LEMMA TypeFollows == LexerInv => LexerTypeOK
<1> SUFFICES ASSUME LexerInv PROVE LexerTypeOK
  OBVIOUS
<1>1. /\ Sound(lx) /\ state \in States
  BY DEF LexerInv, StateOK
<1>2. /\ lx.start \in Nat /\ lx.pos \in Nat /\ lx.width \in {0, 1} /\ lx.items \in Seq(ItemType)
      /\ lx.start <= lx.pos /\ lx.pos <= len
  BY <1>1 DEF Sound, Place, LexerType
<1>3. ASSUME NEW k \in Items
      PROVE  /\ lx.items[k].type \in item_type
             /\ 0 <= lx.items[k].from /\ lx.items[k].from <= lx.items[k].to
             /\ lx.items[k].to <= lx.pos
  <2>1. /\ lx.items[k].type \in item_type /\ lx.items[k].from \in Nat /\ lx.items[k].to \in Nat
        /\ lx.items[k].from <= lx.items[k].to /\ lx.items[k].to <= lx.start
    BY <1>1, <1>2, ItemFacts DEF Items, Sound, Taken
  <2> QED BY <1>2, <2>1
<1> QED BY <1>1, <1>2, <1>3 DEF LexerTypeOK, States

LEMMA CoverFollows == LexerInv => TextCovered
<1> SUFFICES ASSUME LexerInv, NEW p \in 0..lx.start - 1
             PROVE  \/ Cardinality(Covering(p)) = 1
                    \/ /\ Covering(p) = {}
                       /\ input[p + 1] \in Spaces \cup {Quote, Backtick} \/ Commented(p)
  BY DEF TextCovered
<1>1. Once(lx, p)
  BY DEF LexerInv, Sound, Taken
<1>2. \A q : Covering(q) = Cover(lx, q)
  BY DEF Covering, Cover, Items
<1>3. CASE \E k : Cover(lx, p) = {k}
  <2>1. PICK k : Covering(p) = {k}
    BY <1>2, <1>3
  <2> QED BY <2>1, FS_Singleton
<1>4. CASE Cover(lx, p) = {} /\ (Blank(p) \/ Remark(lx, p))
  BY <1>2, <1>4 DEF Blank, Remark, Commented
<1> QED BY <1>1, <1>3, <1>4 DEF Once

LEMMA EofFollows == LexerInv => EofLast
<1> SUFFICES ASSUME LexerInv PROVE EofLast
  OBVIOUS
<1>1. (state # "NULL" => NoEof(lx)) /\ (state = "NULL" => EndsWell(lx))
  BY DEF LexerInv, StateOK
<1>2. Len(lx.items) \in Nat
  BY ItemFacts DEF LexerInv, Sound, Place, LexerType
<1> QED BY <1>1, <1>2 DEF EofLast, EndsWell, NoEof, Items

(* The lexer never leaves the text: start, pos and every item lie in it,   *)
(* in whatever order next, backup, accept and ignore are called; a text    *)
(* that ends where a number goes back over its last character included.    *)
THEOREM LexerTyped == LexerSpec => []LexerTypeOK
BY TypeFollows, LexerAlways, PTL

(* Every character before start is in exactly one item, or it is a space,  *)
(* a quote or commented out: whatever is put back is read again, and       *)
(* nothing is read twice.                                                  *)
THEOREM TextIsCovered == LexerSpec => []TextCovered
BY CoverFollows, LexerAlways, PTL

(* lexer_run ends with exactly one eof item, behind which nothing comes,   *)
(* which is where parse stops; only a text with a quote may end without.   *)
THEOREM EofIsLast == LexerSpec => []EofLast
BY EofFollows, LexerAlways, PTL

-----------------------------------------------------------------------------
(***************************************************************************)
(* What the items say of the text.  An item is read right when it is       *)
(* emitted, and neither it nor what is behind it changes after that; so    *)
(* the invariant says that all items so far are read right, and that the   *)
(* state function of an operator is called with the operator's first       *)
(* character taken.  That an operator is the longest one that begins where *)
(* it does is a fact about the tables alone: a rule that stops does so at  *)
(* a character with which no literal of the language continues.            *)
(***************************************************************************)
(* The text of an item, and the character behind it, if there is one. *)
Slice(i) == SubSeq(input, i.from + 1, i.to)
After(i) == {input[p] : p \in {i.to + 1} \cap 1..len}

(* The two texts that are read as something else than they are. *)
Misread == {<<"/">>, <<"-", "+">>}
Words   == DOMAIN Keywords \cup {"ident"}

(* An operator t is spelt as it should be, and with none of the characters *)
(* that may follow it does it spell a longer one.                          *)
Spells(t, w)  == t \in OperatorTypes /\ (w \notin Misread => w = itype_lit[t])
Ends(w, c)    == w \o <<c>> # <<"-", "-">> => \A t \in OperatorTypes : itype_lit[t] # w \o <<c>>

(* An item is read right: what ItemsRead says of it.                       *)
Read(i) ==
  /\ i.type \in OperatorTypes =>
       Spells(i.type, Slice(i)) /\ \A c \in After(i) : Ends(Slice(i), c)
  /\ i.type \in Words => After(i) \cap WordChars = {} /\ i.type = lookup_type(Slice(i))

(* All items are.                                                          *)
AllRead(l) == \A k \in 1..Len(l.items) : Read(l.items[k])

(* A state function of an operator is called after its first character. *)
Before(l, s) == s \in DOMAIN Follow => \E x \in DOMAIN Longer : Longer[x] = s /\ Current(l) = <<x>>

(* The invariant.                                                          *)
ReadInv == AllRead(lx) /\ Before(lx, state)

-----------------------------------------------------------------------------
(***************************************************************************)
(* The literals.                                                           *)
(***************************************************************************)
(* The first characters of the literals x x and x = .                      *)
Doubled == {"&", "|", "<", ">", "+", "-"}
Assigned == {"+", "-", "*", "/", "%", "&", "|", "^", "=", "!", "<", ">"}

(* The literals, with names for the characters that the provers cannot    *)
(* write.                                                                 *)
LiteralTable(comma, semi, open, close) == [
  assign |-> <<"=">>, plus |-> <<"+">>, minus |-> <<"-">>, slash |-> <<"/">>,
  asterisk |-> <<"*">>, modulus |-> <<"%">>,
  plus_assign |-> <<"+", "=">>, minus_assign |-> <<"-", "=">>,
  asterisk_assign |-> <<"*", "=">>, slash_assign |-> <<"/", "=">>,
  modulus_assign |-> <<"%", "=">>, bw_and_assign |-> <<"&", "=">>,
  bw_or_assign |-> <<"|", "=">>, bw_xor_assign |-> <<"^", "=">>,
  lshift_assign |-> <<"<", "<", "=">>, rshift_assign |-> <<">", ">", "=">>,
  equals |-> <<"=", "=">>, not_equals |-> <<"!", "=">>, bang |-> <<"!">>,
  lt |-> <<"<">>, gt |-> <<">">>, lteq |-> <<"<", "=">>, gteq |-> <<">", "=">>,
  and |-> <<"&", "&">>, or |-> <<"|", "|">>, bw_and |-> <<"&">>,
  bw_not |-> <<"~">>, bw_or |-> <<"|">>, bw_xor |-> <<"^">>,
  lshift |-> <<"<", "<">>, rshift |-> <<">", ">">>,
  plusplus |-> <<"+", "+">>, minusminus |-> <<"-", "-">>,
  dot |-> <<".">>, comma |-> <<comma>>, colon |-> <<":">>, semicolon |-> <<semi>>,
  lparen |-> <<"(">>, rparen |-> <<")">>, lbrace |-> <<open>>, rbrace |-> <<close>>,
  lbracket |-> <<"[">>, rbracket |-> <<"]">> ]

(* No literal has more than three characters, and those of two or three    *)
(* are built from these.                                                   *)
LEMMA LiteralFacts ==
  ASSUME NEW t \in OperatorTypes
  PROVE  /\ \A x, c : itype_lit[t] = <<x, c>> => (c = "=" /\ x \in Assigned) \/ (c = x /\ x \in Doubled)
         /\ \A x, y, c : itype_lit[t] = <<x, y, c>> => c = "=" /\ x = y /\ x \in {"<", ">"}
         /\ \A x, y, z, c : itype_lit[t] # <<x, y, z, c>>
<1> DEFINE comma == ","  semi == ";"  open == "{"  close == "}"
    M == LiteralTable(comma, semi, open, close)
<1>1. itype_lit = M
  BY DEF itype_lit, LiteralTable
<1> HIDE DEF comma, semi, open, close
<1>2. \A x, c : M[t] = <<x, c>> => (c = "=" /\ x \in Assigned) \/ (c = x /\ x \in Doubled)
  <2> SUFFICES ASSUME NEW x, NEW c, M[t] = <<x, c>>
               PROVE  (c = "=" /\ x \in Assigned) \/ (c = x /\ x \in Doubled)
    OBVIOUS
  <2>1. x = M[t][1] /\ c = M[t][2] /\ Len(M[t]) = 2
    <3> HIDE DEF M
    <3> QED OBVIOUS
  <2>2. Len(M[t]) = 2 => M[t][2] = "=" \/ M[t][2] = M[t][1]
    BY <1>1, SMTT(60) DEF OperatorTypes, LiteralTable
  <2>3. Len(M[t]) = 2 => M[t][1] \in Assigned
    BY <1>1, SMTT(60) DEF OperatorTypes, LiteralTable, Assigned
  <2>4. Len(M[t]) = 2 => M[t][2] \in Doubled \cup {"="}
    BY <1>1, SMTT(60) DEF OperatorTypes, LiteralTable, Doubled
  <2> HIDE DEF M
  <2>5. x \in Assigned /\ (c \in Doubled \/ c = "=") /\ (c = "=" \/ c = x)
    BY <2>1, <2>2, <2>3, <2>4
  <2>6. CASE c = "="
    BY <2>5, <2>6
  <2>7. CASE c # "="
    <3>1. c = x /\ c \in Doubled
      BY <2>5, <2>7
    <3> QED BY <3>1
  <2> QED BY <2>6, <2>7
<1>3. \A x, y, c : M[t] = <<x, y, c>> => c = "=" /\ x = y /\ x \in {"<", ">"}
  <2>1. Len(M[t]) = 3 => M[t][3] = "=" /\ M[t][1] = M[t][2] /\ M[t][1] \in {"<", ">"}
    BY <1>1, SMTT(60) DEF OperatorTypes, LiteralTable
  <2> HIDE DEF M
  <2> QED BY <2>1
<1>4. \A x, y, z, c : M[t] # <<x, y, z, c>>
  <2>1. Len(M[t]) \in 1..3
    BY <1>1, SMTT(60) DEF OperatorTypes, LiteralTable
  <2> HIDE DEF M
  <2> QED BY <2>1
<1> QED BY <1>1, <1>2, <1>3, <1>4

(* Putting one more character behind a text.                               *)
LEMMA Joined ==
  ASSUME NEW S, NEW w \in Seq(S), NEW v \in Seq(S), NEW c \in S, Len(v) = Len(w) + 1, v[Len(v)] = c,
         \A i \in 1..Len(w) : v[i] = w[i]
  PROVE  w \o <<c>> = v
<1> DEFINE u == w \o <<c>>
<1>1. u \in Seq(S) /\ Len(u) = Len(w) + 1 /\ u[Len(w) + 1] = c /\ \A i \in 1..Len(w) : u[i] = w[i]
  OBVIOUS
<1> HIDE DEF u
<1>2. \A i \in 1..Len(u) : i \in 1..Len(w) \/ i = Len(w) + 1
  BY <1>1
<1>3. \A i \in 1..Len(u) : u[i] = v[i]
  BY <1>1, <1>2
<1>4. Len(u) = Len(v)
  BY <1>1
<1>5. u = v
  BY <1>1, <1>3, <1>4
<1> QED BY <1>5 DEF u

LEMMA JoinedOne ==
  ASSUME NEW x, NEW c
  PROVE  <<x>> \o <<c>> = <<x, c>>
<1> DEFINE S == {x, c}  w == <<x>>  v == <<x, c>>
<1>1. /\ w \in Seq(S) /\ v \in Seq(S) /\ c \in S /\ Len(v) = Len(w) + 1 /\ v[Len(v)] = c
      /\ \A i \in 1..Len(w) : v[i] = w[i]
  OBVIOUS
<1> HIDE DEF S, w, v
<1>2. w \o <<c>> = v
  BY <1>1, Joined
<1> QED BY <1>2 DEF w, v

LEMMA JoinedTwo ==
  ASSUME NEW x, NEW y, NEW c
  PROVE  <<x, y>> \o <<c>> = <<x, y, c>>
<1> DEFINE S == {x, y, c}  w == <<x, y>>  v == <<x, y, c>>
<1>1. /\ w \in Seq(S) /\ v \in Seq(S) /\ c \in S /\ Len(v) = Len(w) + 1 /\ v[Len(v)] = c
      /\ \A i \in 1..Len(w) : v[i] = w[i]
  OBVIOUS
<1> HIDE DEF S, w, v
<1>2. w \o <<c>> = v
  BY <1>1, Joined
<1> QED BY <1>2 DEF w, v

LEMMA JoinedThree ==
  ASSUME NEW x, NEW y, NEW z, NEW c
  PROVE  <<x, y, z>> \o <<c>> = <<x, y, z, c>>
<1> DEFINE S == {x, y, z, c}  w == <<x, y, z>>  v == <<x, y, z, c>>
<1>1. /\ w \in Seq(S) /\ v \in Seq(S) /\ c \in S /\ Len(v) = Len(w) + 1 /\ v[Len(v)] = c
      /\ \A i \in 1..Len(w) : v[i] = w[i]
  OBVIOUS
<1> HIDE DEF S, w, v
<1>2. w \o <<c>> = v
  BY <1>1, Joined
<1> QED BY <1>2 DEF w, v

(* What ends an operator of one, two or three characters. *)
LEMMA EndOne ==
  ASSUME NEW x, NEW c, c = "=" => x \notin Assigned, c = x => x \notin Doubled \ {"-"}
  PROVE  Ends(<<x>>, c)
<1>1. <<x>> \o <<c>> = <<x, c>>
  BY JoinedOne
<1> SUFFICES ASSUME <<x, c>> # <<"-", "-">>, NEW t \in OperatorTypes, itype_lit[t] = <<x, c>>
             PROVE  FALSE
  BY <1>1 DEF Ends
<1>2. (c = "=" /\ x \in Assigned) \/ (c = x /\ x \in Doubled)
  BY LiteralFacts
<1> QED BY <1>2

LEMMA EndTwo ==
  ASSUME NEW x, NEW y, NEW c, c # "=" \/ x # y \/ x \notin {"<", ">"}
  PROVE  Ends(<<x, y>>, c)
<1>1. <<x, y>> \o <<c>> = <<x, y, c>>
  BY JoinedTwo
<1> QED BY <1>1, LiteralFacts DEF Ends

LEMMA EndThree ==
  ASSUME NEW x, NEW y, NEW z, NEW c
  PROVE  Ends(<<x, y, z>>, c)
<1>1. <<x, y, z>> \o <<c>> = <<x, y, z, c>>
  BY JoinedThree
<1> QED BY <1>1, LiteralFacts DEF Ends

(* A rule that reads on behind w spells what it takes, and stops only      *)
(* where no longer operator begins, or at a character of D.                *)
Good(w, r, D) ==
  /\ \A c \in DOMAIN r.two : Spells(r.two[c], w \o <<c>>) /\ \A e : Ends(w \o <<c>>, e)
  /\ Spells(r.one, w) /\ \A e : e \notin DOMAIN r.two \cup D => Ends(w, e)

(* What makes a table of rules good: each row and the literal it gives.    *)
LEMMA GoodOf ==
  ASSUME NEW rows, NEW w, NEW y, NEW D,
         \A r \in rows : /\ r = <<r[1], r[2]>> /\ Spells(r[2], w \o <<r[1]>>)
                         /\ \A e : Ends(w \o <<r[1]>>, e),
         Spells(y, w), \A e : e \notin {r[1] : r \in rows} \cup D => Ends(w, e)
  PROVE  Good(w, [two |-> Table(rows), one |-> y], D)
<1> DEFINE two == Table(rows)
<1>1. DOMAIN two = {r[1] : r \in rows} /\ \A c \in DOMAIN two : <<c, two[c]>> \in rows
  BY TableFacts
<1> HIDE DEF two
<1>2. ASSUME NEW c \in DOMAIN two PROVE Spells(two[c], w \o <<c>>) /\ \A e : Ends(w \o <<c>>, e)
  <2> DEFINE r == <<c, two[c]>>
  <2>1. r \in rows /\ r[1] = c /\ r[2] = two[c]
    BY <1>1, <1>2
  <2> HIDE DEF r
  <2> QED BY <2>1
<1>3. Good(w, [two |-> two, one |-> y], D)
  BY <1>1, <1>2 DEF Good
<1> QED BY <1>3 DEF two

(* Rules behind one character,                                             *)
LEMMA OneGood ==
  ASSUME NEW rows, NEW x, NEW y, NEW D, Spells(y, <<x>>),
         \A r \in rows : r = <<r[1], r[2]>> /\ Spells(r[2], <<x, r[1]>>),
         x \in Assigned => "=" \in {r[1] : r \in rows},
         x \in Doubled \ {"-"} => x \in {r[1] : r \in rows} \cup D,
         \A r \in rows : x # r[1] \/ x \notin {"<", ">"}
  PROVE  Good(<<x>>, [two |-> Table(rows), one |-> y], D)
<1> DEFINE w == <<x>>
<1>1. ASSUME NEW r \in rows
      PROVE  r = <<r[1], r[2]>> /\ Spells(r[2], w \o <<r[1]>>) /\ \A e : Ends(w \o <<r[1]>>, e)
  <2>1. w \o <<r[1]>> = <<x, r[1]>>
    BY JoinedOne
  <2>2. \A e : Ends(<<x, r[1]>>, e)
    BY <1>1, EndTwo
  <2> QED BY <1>1, <2>1, <2>2
<1>2. ASSUME NEW e, e \notin {r[1] : r \in rows} \cup D PROVE Ends(w, e)
  <2>1. (e = "=" => x \notin Assigned) /\ (e = x => x \notin Doubled \ {"-"})
    BY <1>2
  <2> QED BY <2>1, EndOne
<1> HIDE DEF w
<1>3. Spells(y, w)
  BY DEF w
<1>4. Good(w, [two |-> Table(rows), one |-> y], D)
  BY <1>1, <1>2, <1>3, GoodOf
<1> QED BY <1>4 DEF w

(* and behind two.                                                         *)
LEMMA TwoGood ==
  ASSUME NEW rows, NEW x, NEW y, NEW D, Spells(y, <<x, x>>),
         \A r \in rows : r = <<r[1], r[2]>> /\ Spells(r[2], <<x, x, r[1]>>),
         "=" \in {r[1] : r \in rows}
  PROVE  Good(<<x, x>>, [two |-> Table(rows), one |-> y], D)
<1> DEFINE w == <<x, x>>
<1>1. ASSUME NEW r \in rows
      PROVE  r = <<r[1], r[2]>> /\ Spells(r[2], w \o <<r[1]>>) /\ \A e : Ends(w \o <<r[1]>>, e)
  <2>1. w \o <<r[1]>> = <<x, x, r[1]>>
    BY JoinedTwo
  <2>2. \A e : Ends(<<x, x, r[1]>>, e)
    BY EndThree
  <2> QED BY <1>1, <2>1, <2>2
<1>2. ASSUME NEW e, e \notin {r[1] : r \in rows} \cup D PROVE Ends(w, e)
  <2>1. e # "="
    BY <1>2
  <2> QED BY <2>1, EndTwo
<1> HIDE DEF w
<1>3. Spells(y, w)
  BY DEF w
<1>4. Good(w, [two |-> Table(rows), one |-> y], D)
  BY <1>1, <1>2, <1>3, GoodOf
<1> QED BY <1>4 DEF w

(* The literals of the operators that a rule may take. *)
LEMMA Literals ==
  /\ itype_lit["plus_assign"] = <<"+", "=">>
  /\ itype_lit["plusplus"] = <<"+", "+">>
  /\ itype_lit["plus"] = <<"+">>
  /\ itype_lit["minus_assign"] = <<"-", "=">>
  /\ itype_lit["minus"] = <<"-">>
  /\ itype_lit["asterisk_assign"] = <<"*", "=">>
  /\ itype_lit["asterisk"] = <<"*">>
  /\ itype_lit["slash_assign"] = <<"/", "=">>
  /\ itype_lit["modulus_assign"] = <<"%", "=">>
  /\ itype_lit["modulus"] = <<"%">>
  /\ itype_lit["lteq"] = <<"<", "=">>
  /\ itype_lit["lt"] = <<"<">>
  /\ itype_lit["gteq"] = <<">", "=">>
  /\ itype_lit["gt"] = <<">">>
  /\ itype_lit["and"] = <<"&", "&">>
  /\ itype_lit["bw_and_assign"] = <<"&", "=">>
  /\ itype_lit["bw_and"] = <<"&">>
  /\ itype_lit["or"] = <<"|", "|">>
  /\ itype_lit["bw_or_assign"] = <<"|", "=">>
  /\ itype_lit["bw_or"] = <<"|">>
  /\ itype_lit["bw_xor_assign"] = <<"^", "=">>
  /\ itype_lit["bw_xor"] = <<"^">>
  /\ itype_lit["equals"] = <<"=", "=">>
  /\ itype_lit["assign"] = <<"=">>
  /\ itype_lit["not_equals"] = <<"!", "=">>
  /\ itype_lit["bang"] = <<"!">>
  /\ itype_lit["lshift_assign"] = <<"<", "<", "=">>
  /\ itype_lit["lshift"] = <<"<", "<">>
  /\ itype_lit["rshift_assign"] = <<">", ">", "=">>
  /\ itype_lit["rshift"] = <<">", ">">>
<1> DEFINE comma == ","  semi == ";"  open == "{"  close == "}"
    M == LiteralTable(comma, semi, open, close)
<1>1. itype_lit = M
  BY DEF itype_lit, LiteralTable
<1> HIDE DEF comma, semi, open, close
<1> QED BY <1>1 DEF LiteralTable

(* Every rule of the lexer is good; only < and > have rules of their own   *)
(* behind the doubled character.                                           *)
LEMMA RulesGood ==
  /\ Good(<<"+">>, Follow.lex_plus, {})
  /\ Good(<<"-">>, Follow.lex_minus, {})
  /\ Good(<<"*">>, Follow.lex_times, {})
  /\ Good(<<"/">>, Follow.lex_slash, {})
  /\ Good(<<"%">>, Follow.lex_mod, {})
  /\ Good(<<"<">>, Follow.lex_less_than, {"<"})
  /\ Good(<<">">>, Follow.lex_greater_than, {">"})
  /\ Good(<<"&">>, Follow.lex_and, {})
  /\ Good(<<"|">>, Follow.lex_or, {})
  /\ Good(<<"^">>, Follow.lex_xor, {})
  /\ Good(<<"=">>, Follow.equal, {})
  /\ Good(<<"!">>, Follow.bang, {})
  /\ Good(<<"<", "<">>, Follow.lshift, {})
  /\ Good(<<">", ">">>, Follow.rshift, {})
<1>0. {"plus_assign", "plusplus", "plus", "minus_assign", "minus",
       "asterisk_assign", "asterisk", "slash_assign", "modulus_assign",
       "modulus", "lteq", "lt", "gteq", "gt", "and", "bw_and_assign", "bw_and",
       "or", "bw_or_assign", "bw_or", "bw_xor_assign", "bw_xor", "equals",
       "assign", "not_equals", "bang", "lshift_assign", "lshift",
       "rshift_assign", "rshift", "minusminus"} \subseteq OperatorTypes
  BY DEF OperatorTypes, itype_lit
<1>1. Good(<<"+">>, Follow.lex_plus, {})
  <2> DEFINE rows == {<<"=", "plus_assign">>, <<"+", "plusplus">>}
  <2>1. {r[1] : r \in rows} = {"=", "+"}
    OBVIOUS
  <2>2. \A r \in rows : r = <<r[1], r[2]>> /\ Spells(r[2], <<"+", r[1]>>)
    BY <1>0, Literals DEF Spells, Misread
  <2>3. Spells("plus", <<"+">>)
    BY <1>0, Literals DEF Spells, Misread
  <2>4. Follow.lex_plus = [two |-> Table(rows), one |-> "plus"]
    BY DEF Follow
  <2>5. /\ "+" \in Assigned => "=" \in {r[1] : r \in rows}
        /\ "+" \in Doubled \ {"-"} => "+" \in {r[1] : r \in rows} \cup {}
        /\ \A r \in rows : "+" # r[1] \/ "+" \notin {"<", ">"}
    BY <2>1 DEF Assigned, Doubled
  <2> HIDE DEF rows
  <2> QED BY <2>2, <2>3, <2>4, <2>5, OneGood
<1>2. Good(<<"-">>, Follow.lex_minus, {})
  <2> DEFINE rows == {<<"=", "minus_assign">>, <<"+", "minusminus">>}
  <2>1. {r[1] : r \in rows} = {"=", "+"}
    OBVIOUS
  <2>2. \A r \in rows : r = <<r[1], r[2]>> /\ Spells(r[2], <<"-", r[1]>>)
    BY <1>0, Literals DEF Spells, Misread
  <2>3. Spells("minus", <<"-">>)
    BY <1>0, Literals DEF Spells, Misread
  <2>4. Follow.lex_minus = [two |-> Table(rows), one |-> "minus"]
    BY DEF Follow
  <2>5. /\ "-" \in Assigned => "=" \in {r[1] : r \in rows}
        /\ "-" \in Doubled \ {"-"} => "-" \in {r[1] : r \in rows} \cup {}
        /\ \A r \in rows : "-" # r[1] \/ "-" \notin {"<", ">"}
    BY <2>1 DEF Assigned, Doubled
  <2> HIDE DEF rows
  <2> QED BY <2>2, <2>3, <2>4, <2>5, OneGood
<1>3. Good(<<"*">>, Follow.lex_times, {})
  <2> DEFINE rows == {<<"=", "asterisk_assign">>}
  <2>1. {r[1] : r \in rows} = {"="}
    OBVIOUS
  <2>2. \A r \in rows : r = <<r[1], r[2]>> /\ Spells(r[2], <<"*", r[1]>>)
    BY <1>0, Literals DEF Spells, Misread
  <2>3. Spells("asterisk", <<"*">>)
    BY <1>0, Literals DEF Spells, Misread
  <2>4. Follow.lex_times = [two |-> Table(rows), one |-> "asterisk"]
    BY DEF Follow
  <2>5. /\ "*" \in Assigned => "=" \in {r[1] : r \in rows}
        /\ "*" \in Doubled \ {"-"} => "*" \in {r[1] : r \in rows} \cup {}
        /\ \A r \in rows : "*" # r[1] \/ "*" \notin {"<", ">"}
    BY <2>1 DEF Assigned, Doubled
  <2> HIDE DEF rows
  <2> QED BY <2>2, <2>3, <2>4, <2>5, OneGood
<1>4. Good(<<"/">>, Follow.lex_slash, {})
  <2> DEFINE rows == {<<"=", "slash_assign">>}
  <2>1. {r[1] : r \in rows} = {"="}
    OBVIOUS
  <2>2. \A r \in rows : r = <<r[1], r[2]>> /\ Spells(r[2], <<"/", r[1]>>)
    BY <1>0, Literals DEF Spells, Misread
  <2>3. Spells("asterisk", <<"/">>)
    BY <1>0, Literals DEF Spells, Misread
  <2>4. Follow.lex_slash = [two |-> Table(rows), one |-> "asterisk"]
    BY DEF Follow
  <2>5. /\ "/" \in Assigned => "=" \in {r[1] : r \in rows}
        /\ "/" \in Doubled \ {"-"} => "/" \in {r[1] : r \in rows} \cup {}
        /\ \A r \in rows : "/" # r[1] \/ "/" \notin {"<", ">"}
    BY <2>1 DEF Assigned, Doubled
  <2> HIDE DEF rows
  <2> QED BY <2>2, <2>3, <2>4, <2>5, OneGood
<1>5. Good(<<"%">>, Follow.lex_mod, {})
  <2> DEFINE rows == {<<"=", "modulus_assign">>}
  <2>1. {r[1] : r \in rows} = {"="}
    OBVIOUS
  <2>2. \A r \in rows : r = <<r[1], r[2]>> /\ Spells(r[2], <<"%", r[1]>>)
    BY <1>0, Literals DEF Spells, Misread
  <2>3. Spells("modulus", <<"%">>)
    BY <1>0, Literals DEF Spells, Misread
  <2>4. Follow.lex_mod = [two |-> Table(rows), one |-> "modulus"]
    BY DEF Follow
  <2>5. /\ "%" \in Assigned => "=" \in {r[1] : r \in rows}
        /\ "%" \in Doubled \ {"-"} => "%" \in {r[1] : r \in rows} \cup {}
        /\ \A r \in rows : "%" # r[1] \/ "%" \notin {"<", ">"}
    BY <2>1 DEF Assigned, Doubled
  <2> HIDE DEF rows
  <2> QED BY <2>2, <2>3, <2>4, <2>5, OneGood
<1>6. Good(<<"<">>, Follow.lex_less_than, {"<"})
  <2> DEFINE rows == {<<"=", "lteq">>}
  <2>1. {r[1] : r \in rows} = {"="}
    OBVIOUS
  <2>2. \A r \in rows : r = <<r[1], r[2]>> /\ Spells(r[2], <<"<", r[1]>>)
    BY <1>0, Literals DEF Spells, Misread
  <2>3. Spells("lt", <<"<">>)
    BY <1>0, Literals DEF Spells, Misread
  <2>4. Follow.lex_less_than = [two |-> Table(rows), one |-> "lt"]
    BY DEF Follow
  <2>5. /\ "<" \in Assigned => "=" \in {r[1] : r \in rows}
        /\ "<" \in Doubled \ {"-"} => "<" \in {r[1] : r \in rows} \cup {"<"}
        /\ \A r \in rows : "<" # r[1] \/ "<" \notin {"<", ">"}
    BY <2>1 DEF Assigned, Doubled
  <2> HIDE DEF rows
  <2> QED BY <2>2, <2>3, <2>4, <2>5, OneGood
<1>7. Good(<<">">>, Follow.lex_greater_than, {">"})
  <2> DEFINE rows == {<<"=", "gteq">>}
  <2>1. {r[1] : r \in rows} = {"="}
    OBVIOUS
  <2>2. \A r \in rows : r = <<r[1], r[2]>> /\ Spells(r[2], <<">", r[1]>>)
    BY <1>0, Literals DEF Spells, Misread
  <2>3. Spells("gt", <<">">>)
    BY <1>0, Literals DEF Spells, Misread
  <2>4. Follow.lex_greater_than = [two |-> Table(rows), one |-> "gt"]
    BY DEF Follow
  <2>5. /\ ">" \in Assigned => "=" \in {r[1] : r \in rows}
        /\ ">" \in Doubled \ {"-"} => ">" \in {r[1] : r \in rows} \cup {">"}
        /\ \A r \in rows : ">" # r[1] \/ ">" \notin {"<", ">"}
    BY <2>1 DEF Assigned, Doubled
  <2> HIDE DEF rows
  <2> QED BY <2>2, <2>3, <2>4, <2>5, OneGood
<1>8. Good(<<"&">>, Follow.lex_and, {})
  <2> DEFINE rows == {<<"&", "and">>, <<"=", "bw_and_assign">>}
  <2>1. {r[1] : r \in rows} = {"&", "="}
    OBVIOUS
  <2>2. \A r \in rows : r = <<r[1], r[2]>> /\ Spells(r[2], <<"&", r[1]>>)
    BY <1>0, Literals DEF Spells, Misread
  <2>3. Spells("bw_and", <<"&">>)
    BY <1>0, Literals DEF Spells, Misread
  <2>4. Follow.lex_and = [two |-> Table(rows), one |-> "bw_and"]
    BY DEF Follow
  <2>5. /\ "&" \in Assigned => "=" \in {r[1] : r \in rows}
        /\ "&" \in Doubled \ {"-"} => "&" \in {r[1] : r \in rows} \cup {}
        /\ \A r \in rows : "&" # r[1] \/ "&" \notin {"<", ">"}
    BY <2>1 DEF Assigned, Doubled
  <2> HIDE DEF rows
  <2> QED BY <2>2, <2>3, <2>4, <2>5, OneGood
<1>9. Good(<<"|">>, Follow.lex_or, {})
  <2> DEFINE rows == {<<"|", "or">>, <<"=", "bw_or_assign">>}
  <2>1. {r[1] : r \in rows} = {"|", "="}
    OBVIOUS
  <2>2. \A r \in rows : r = <<r[1], r[2]>> /\ Spells(r[2], <<"|", r[1]>>)
    BY <1>0, Literals DEF Spells, Misread
  <2>3. Spells("bw_or", <<"|">>)
    BY <1>0, Literals DEF Spells, Misread
  <2>4. Follow.lex_or = [two |-> Table(rows), one |-> "bw_or"]
    BY DEF Follow
  <2>5. /\ "|" \in Assigned => "=" \in {r[1] : r \in rows}
        /\ "|" \in Doubled \ {"-"} => "|" \in {r[1] : r \in rows} \cup {}
        /\ \A r \in rows : "|" # r[1] \/ "|" \notin {"<", ">"}
    BY <2>1 DEF Assigned, Doubled
  <2> HIDE DEF rows
  <2> QED BY <2>2, <2>3, <2>4, <2>5, OneGood
<1>10. Good(<<"^">>, Follow.lex_xor, {})
  <2> DEFINE rows == {<<"=", "bw_xor_assign">>}
  <2>1. {r[1] : r \in rows} = {"="}
    OBVIOUS
  <2>2. \A r \in rows : r = <<r[1], r[2]>> /\ Spells(r[2], <<"^", r[1]>>)
    BY <1>0, Literals DEF Spells, Misread
  <2>3. Spells("bw_xor", <<"^">>)
    BY <1>0, Literals DEF Spells, Misread
  <2>4. Follow.lex_xor = [two |-> Table(rows), one |-> "bw_xor"]
    BY DEF Follow
  <2>5. /\ "^" \in Assigned => "=" \in {r[1] : r \in rows}
        /\ "^" \in Doubled \ {"-"} => "^" \in {r[1] : r \in rows} \cup {}
        /\ \A r \in rows : "^" # r[1] \/ "^" \notin {"<", ">"}
    BY <2>1 DEF Assigned, Doubled
  <2> HIDE DEF rows
  <2> QED BY <2>2, <2>3, <2>4, <2>5, OneGood
<1>11. Good(<<"=">>, Follow.equal, {})
  <2> DEFINE rows == {<<"=", "equals">>}
  <2>1. {r[1] : r \in rows} = {"="}
    OBVIOUS
  <2>2. \A r \in rows : r = <<r[1], r[2]>> /\ Spells(r[2], <<"=", r[1]>>)
    BY <1>0, Literals DEF Spells, Misread
  <2>3. Spells("assign", <<"=">>)
    BY <1>0, Literals DEF Spells, Misread
  <2>4. Follow.equal = [two |-> Table(rows), one |-> "assign"]
    BY DEF Follow
  <2>5. /\ "=" \in Assigned => "=" \in {r[1] : r \in rows}
        /\ "=" \in Doubled \ {"-"} => "=" \in {r[1] : r \in rows} \cup {}
        /\ \A r \in rows : "=" # r[1] \/ "=" \notin {"<", ">"}
    BY <2>1 DEF Assigned, Doubled
  <2> HIDE DEF rows
  <2> QED BY <2>2, <2>3, <2>4, <2>5, OneGood
<1>12. Good(<<"!">>, Follow.bang, {})
  <2> DEFINE rows == {<<"=", "not_equals">>}
  <2>1. {r[1] : r \in rows} = {"="}
    OBVIOUS
  <2>2. \A r \in rows : r = <<r[1], r[2]>> /\ Spells(r[2], <<"!", r[1]>>)
    BY <1>0, Literals DEF Spells, Misread
  <2>3. Spells("bang", <<"!">>)
    BY <1>0, Literals DEF Spells, Misread
  <2>4. Follow.bang = [two |-> Table(rows), one |-> "bang"]
    BY DEF Follow
  <2>5. /\ "!" \in Assigned => "=" \in {r[1] : r \in rows}
        /\ "!" \in Doubled \ {"-"} => "!" \in {r[1] : r \in rows} \cup {}
        /\ \A r \in rows : "!" # r[1] \/ "!" \notin {"<", ">"}
    BY <2>1 DEF Assigned, Doubled
  <2> HIDE DEF rows
  <2> QED BY <2>2, <2>3, <2>4, <2>5, OneGood
<1>13. Good(<<"<", "<">>, Follow.lshift, {})
  <2> DEFINE rows == {<<"=", "lshift_assign">>}
  <2>1. {r[1] : r \in rows} = {"="}
    OBVIOUS
  <2>2. \A r \in rows : r = <<r[1], r[2]>> /\ Spells(r[2], <<"<", "<", r[1]>>)
    BY <1>0, Literals DEF Spells, Misread
  <2>3. Spells("lshift", <<"<", "<">>)
    BY <1>0, Literals DEF Spells, Misread
  <2>4. Follow.lshift = [two |-> Table(rows), one |-> "lshift"]
    BY DEF Follow
  <2>5. "=" \in {r[1] : r \in rows}
    BY <2>1
  <2> HIDE DEF rows
  <2> QED BY <2>2, <2>3, <2>4, <2>5, TwoGood
<1>14. Good(<<">", ">">>, Follow.rshift, {})
  <2> DEFINE rows == {<<"=", "rshift_assign">>}
  <2>1. {r[1] : r \in rows} = {"="}
    OBVIOUS
  <2>2. \A r \in rows : r = <<r[1], r[2]>> /\ Spells(r[2], <<">", ">", r[1]>>)
    BY <1>0, Literals DEF Spells, Misread
  <2>3. Spells("rshift", <<">", ">">>)
    BY <1>0, Literals DEF Spells, Misread
  <2>4. Follow.rshift = [two |-> Table(rows), one |-> "rshift"]
    BY DEF Follow
  <2>5. "=" \in {r[1] : r \in rows}
    BY <2>1
  <2> HIDE DEF rows
  <2> QED BY <2>2, <2>3, <2>4, <2>5, TwoGood
<1> QED BY <1>1, <1>2, <1>3, <1>4, <1>5, <1>6, <1>7, <1>8, <1>9, <1>10, <1>11, <1>12, <1>13, <1>14

(* The kinds of items do not overlap.                                      *)
LEMMA OthersFacts ==
  /\ OperatorTypes \cap Words = {}
  /\ {"int", "float", "string", "rawstring", "eof"} \cap (OperatorTypes \cup Words) = {}
  /\ \A s : lookup_type(s) \in Words
<1>1. OperatorTypes \cap Words = {}
  BY DEF OperatorTypes, itype_lit, Words, Keywords
<1>2. {"int", "float", "string", "rawstring", "eof"} \cap (OperatorTypes \cup Words) = {}
  BY DEF OperatorTypes, itype_lit, Words, Keywords
<1>3. ASSUME NEW s PROVE lookup_type(s) \in Words
  <2> DEFINE D == DOMAIN Keywords
  <2>1. CASE \E t \in D : Keywords[t] = s
    <3>1. lookup_type(s) = CHOOSE t \in D : Keywords[t] = s
      BY <2>1 DEF lookup_type
    <3> HIDE DEF D
    <3>2. lookup_type(s) \in D
      BY <2>1, <3>1
    <3> QED BY <3>2 DEF D, Words
  <2>2. CASE ~ \E t \in D : Keywords[t] = s
    BY <2>2 DEF lookup_type, Words
  <2> QED BY <2>1, <2>2
<1> QED BY <1>1, <1>2, <1>3

(* The characters that are an operator on their own. *)
LEMMA SinglesGood ==
  /\ \A x \in DOMAIN Single : Spells(Single[x], <<x>>) /\ x \notin Assigned /\ x # eof
  /\ \A x \in DOMAIN SingleOnly : Spells(SingleOnly[x], <<x>>) /\ x \notin Assigned /\ x # eof
<1> DEFINE comma == ","  semi == ";"  open == "{"  close == "}"
    M == LiteralTable(comma, semi, open, close)
   rows == {<<semi, "semicolon">>, <<"(", "lparen">>, <<")", "rparen">>,
            <<open, "lbrace">>, <<close, "rbrace">>, <<comma, "comma">>,
            <<"[", "lbracket">>, <<".", "dot">>}
   only == {<<"]", "rbracket">>, <<":", "colon">>, <<"~", "bw_not">>}
<1>1. itype_lit = M
  BY DEF itype_lit, LiteralTable
<1>2. Single = Table(rows) /\ SingleOnly = Table(only)
  BY DEF Single, SingleOnly
<1> DEFINE others == Assigned \cup {eof}
<1>3. comma \notin others /\ semi \notin others /\ open \notin others /\ close \notin others
  BY Zenon DEF Assigned, eof
<1>4. {"semicolon", "lparen", "rparen", "lbrace", "rbrace", "comma", "lbracket", "dot",
       "rbracket", "colon", "bw_not"} \subseteq OperatorTypes
  BY DEF OperatorTypes, itype_lit
<1> HIDE DEF comma, semi, open, close
<1>5. /\ M["semicolon"] = <<semi>>
       /\ M["lparen"] = <<"(">>
       /\ M["rparen"] = <<")">>
       /\ M["lbrace"] = <<open>>
       /\ M["rbrace"] = <<close>>
       /\ M["comma"] = <<comma>>
       /\ M["lbracket"] = <<"[">>
       /\ M["dot"] = <<".">>
       /\ M["rbracket"] = <<"]">>
       /\ M["colon"] = <<":">>
       /\ M["bw_not"] = <<"~">>
  BY DEF LiteralTable
<1> HIDE DEF M
<1>6. \A r \in rows : r = <<r[1], r[2]>> /\ r[2] \in OperatorTypes /\ itype_lit[r[2]] = <<r[1]>>
  BY <1>1, <1>4, <1>5
<1>7. \A r \in only : r = <<r[1], r[2]>> /\ r[2] \in OperatorTypes /\ itype_lit[r[2]] = <<r[1]>>
  BY <1>1, <1>4, <1>5
<1>8. \A r \in rows \cup only : r[1] \notin others
  BY <1>3 DEF Assigned, eof
<1>9. \A e : e \notin others => e \notin Assigned /\ e # eof
  OBVIOUS
<1> HIDE DEF rows, only, others
<1>10. ASSUME NEW R \in {rows, only}, NEW x \in DOMAIN Table(R)
      PROVE  Spells(Table(R)[x], <<x>>) /\ x \notin Assigned /\ x # eof
  <2> DEFINE r == <<x, Table(R)[x]>>
  <2>1. r \in R /\ r[1] = x /\ r[2] = Table(R)[x]
    BY <1>6, <1>7, TableFacts
  <2> HIDE DEF r
  <2>2. r[2] \in OperatorTypes /\ itype_lit[r[2]] = <<r[1]>> /\ r[1] \notin others
    BY <1>6, <1>7, <1>8, <2>1
  <2> QED BY <1>9, <2>1, <2>2 DEF Spells
<1> QED BY <1>2, <1>10

(* The operator whose first character is x. *)
Doubling(x) == IF x \in {"<", ">"} THEN {x} ELSE {}

(* A character that begins longer operators begins no other item.          *)
LEMMA LongersGood ==
  ASSUME NEW x \in DOMAIN Longer
  PROVE  /\ Good(<<x>>, Follow[Longer[x]], Doubling(x)) /\ Longer[x] \in DOMAIN Follow /\ x # eof
         /\ Longer[x] = "lex_less_than" => x = "<"
         /\ Longer[x] = "lex_greater_than" => x = ">"
         /\ x \in {"<", ">"} => Longer[x] = IF x = "<" THEN "lex_less_than" ELSE "lex_greater_than"
<1> DEFINE rows == {
  <<"+", "lex_plus">>, <<"-", "lex_minus">>, <<"*", "lex_times">>,
  <<"/", "lex_slash">>, <<"%", "lex_mod">>, <<"<", "lex_less_than">>,
  <<">", "lex_greater_than">>, <<"&", "lex_and">>, <<"|", "lex_or">>,
  <<"^", "lex_xor">>}
           r == <<x, Longer[x]>>
<1>1. Longer = Table(rows) /\ \A row \in rows : row = <<row[1], row[2]>>
  BY DEF Longer
<1>2. \A d \in DOMAIN Table(rows) : <<d, Table(rows)[d]>> \in rows
  <2> HIDE DEF rows
  <2> QED BY <1>1, TableFacts
<1>3. r \in rows /\ r[1] = x /\ r[2] = Longer[x]
  <2> HIDE DEF rows
  <2> QED BY <1>1, <1>2
<1>4. DOMAIN Follow = {"lex_plus", "lex_minus", "lex_times", "lex_slash", "lex_mod",
                         "lex_less_than", "lex_greater_than", "lex_and", "lex_or",
                         "lex_xor", "equal", "bang", "lshift", "rshift"}
  BY DEF Follow
<1>5. \A row \in rows : /\ Good(<<row[1]>>, Follow[row[2]], Doubling(row[1]))
                        /\ row[2] \in DOMAIN Follow /\ row[1] # eof
                        /\ row[2] = "lex_less_than" <=> row[1] = "<"
                        /\ row[2] = "lex_greater_than" <=> row[1] = ">"
  BY <1>4, RulesGood DEF Doubling, eof
<1> HIDE DEF rows, r
<1> QED BY <1>3, <1>5

(* Taking a character lengthens what is being read by it.                  *)
LEMMA SliceGrows ==
  ASSUME NEW S, NEW s \in Seq(S), NEW a \in Nat, NEW b \in Nat, a <= b, b < Len(s)
  PROVE  SubSeq(s, a + 1, b + 1) = SubSeq(s, a + 1, b) \o <<s[b + 1]>>
<1>0. Len(s) \in Nat /\ b + 1 \in 1..Len(s) /\ s[b + 1] \in S
  OBVIOUS
<1>1. ASSUME NEW e \in Nat, e <= Len(s), a <= e
      PROVE  /\ SubSeq(s, a + 1, e) \in Seq(S) /\ Len(SubSeq(s, a + 1, e)) = e - a
             /\ \A i \in 1..e - a : SubSeq(s, a + 1, e)[i] = s[a + i]
  <2>1. a + 1 \in 1..Len(s) + 1 /\ \A k \in a + 1..e : s[k] \in S
    BY <1>0, <1>1
  <2>2. SubSeq(s, a + 1, e) = [i \in 1..e - a |-> s[a + i]]
    BY <1>0, <1>1
  <2>3. \A i \in 1..e - a : a + i \in 1..Len(s)
    BY <1>0, <1>1
  <2> QED BY <1>0, <1>1, <2>2, <2>3
<1> DEFINE w == SubSeq(s, a + 1, b)  v == SubSeq(s, a + 1, b + 1)  c == s[b + 1]
<1>2. w \in Seq(S) /\ Len(w) = b - a /\ \A i \in 1..b - a : w[i] = s[a + i]
  BY <1>0, <1>1
<1>3. v \in Seq(S) /\ Len(v) = b - a + 1 /\ \A i \in 1..b - a + 1 : v[i] = s[a + i]
  BY <1>0, <1>1
<1>4. v[Len(v)] = c /\ c \in S
  <2> DEFINE d == b - a + 1
  <2>1. d \in 1..d /\ a + d = b + 1
    OBVIOUS
  <2>2. v[d] = s[a + d] /\ Len(v) = d
    BY <1>3, <2>1
  <2> HIDE DEF v, d
  <2> QED BY <1>0, <2>1, <2>2
<1> HIDE DEF w, v, c
<1>5. Len(v) = Len(w) + 1 /\ \A i \in 1..Len(w) : v[i] = w[i]
  BY <1>2, <1>3
<1>6. w \in Seq(S) /\ v \in Seq(S)
  BY <1>2, <1>3
<1>7. w \o <<c>> = v
  BY <1>4, <1>5, <1>6, Joined
<1> QED BY <1>7 DEF w, v, c

LEMMA CurrentGrows ==
  ASSUME InputOK, NEW l, Place(l), l.pos < len
  PROVE  /\ Current(next(l)) = Current(l) \o <<Char(l)>>
         /\ l.start = l.pos => Current(next(l)) = <<Char(l)>>
<1>1. /\ l.start \in Nat /\ l.pos \in Nat /\ l.start <= l.pos /\ Char(l) = input[l.pos + 1]
      /\ next(l).start = l.start /\ next(l).pos = l.pos + 1 /\ Char(l) \in Characters
  BY CharFacts, NextOK DEF Place, LexerType, Same
<1>2. input \in Seq(Characters) /\ Len(input) = len
  BY DEF InputOK, len
<1>3. Current(next(l)) = Current(l) \o <<Char(l)>>
  <2> DEFINE a == l.start  b == l.pos
  <2>1. SubSeq(input, a + 1, b + 1) = SubSeq(input, a + 1, b) \o <<input[b + 1]>>
    <3>1. a \in Nat /\ b \in Nat /\ a <= b /\ b < Len(input)
      BY <1>1, <1>2
    <3> HIDE DEF a, b
    <3> QED BY <1>2, <3>1, SliceGrows
  <2> QED BY <1>1, <2>1 DEF Current
<1>4. ASSUME l.start = l.pos PROVE Current(l) \o <<Char(l)>> = <<Char(l)>>
  <2>1. Current(l) = <<>>
    BY <1>1, <1>2, <1>4 DEF Current
  <2> DEFINE w == <<Char(l)>>
  <2>2. w \in Seq(Characters)
    BY <1>1
  <2> HIDE DEF w
  <2>3. <<>> \o w = w
    BY <2>2
  <2> QED BY <2>1, <2>3 DEF w
<1> QED BY <1>3, <1>4

(* What is emitted has to be read right where it ends. *)
Reads(l, t) == Read([type |-> t, from |-> l.start, to |-> l.pos])
Behind(l)   == {input[p] : p \in {l.pos + 1} \cap 1..len}

(* An item emitted now is read right if its text and what is behind it are.*)
LEMMA ReadsFacts ==
  ASSUME InputOK, NEW l, Place(l), NEW t
  PROVE  /\ l.pos < len => Behind(l) = {Char(l)}
         /\ ~ (l.pos < len) => Behind(l) = {}
         /\ t \in OperatorTypes /\ Spells(t, Current(l)) /\ (\A c \in Behind(l) : Ends(Current(l), c))
              => Reads(l, t)
         /\ t \in Words /\ Behind(l) \cap WordChars = {} /\ t = lookup_type(Current(l)) => Reads(l, t)
         /\ t \notin OperatorTypes \cup Words => Reads(l, t)
<1>1. /\ len \in Nat /\ l.pos \in Nat /\ l.pos <= len /\ (l.pos < len => Char(l) = input[l.pos + 1])
  BY CharFacts DEF Place, LexerType
<1> DEFINE i == [type |-> t, from |-> l.start, to |-> l.pos]
<1>2. Slice(i) = Current(l) /\ After(i) = Behind(l) /\ i.type = t
  BY DEF Slice, After, Current, Behind
<1>3. l.pos < len => Behind(l) = {Char(l)}
  BY <1>1 DEF Behind
<1>4. ~ (l.pos < len) => Behind(l) = {}
  BY <1>1 DEF Behind
<1> HIDE DEF i
<1>5. Reads(l, t) = Read(i)
  BY DEF Reads, i
<1> QED BY <1>2, <1>3, <1>4, <1>5, OthersFacts DEF Read

(* Emitting an item that is read right keeps all items right.              *)
LEMMA EmitReads ==
  ASSUME InputOK, NEW l, Sound(l), AllRead(l), NEW t \in item_type, Reads(l, t)
  PROVE  AllRead(emit(l, t))
<1> DEFINE m == emit(l, t)  i == [type |-> t, from |-> l.start, to |-> l.pos]
<1>1. /\ Len(m.items) = Len(l.items) + 1 /\ Len(l.items) \in Nat /\ m.items[Len(m.items)] = i
      /\ \A k \in 1..Len(l.items) : m.items[k] = l.items[k]
  BY EmitOK
<1>2. Read(i)
  BY DEF Reads
<1> HIDE DEF m, i
<1>3. \A k \in 1..Len(m.items) : k \in 1..Len(l.items) \/ k = Len(m.items)
  BY <1>1
<1>4. AllRead(m)
  BY <1>1, <1>2, <1>3 DEF AllRead
<1> QED BY <1>4 DEF m

(* A good rule emits an item that is read right.                           *)
LEMMA LongestReads ==
  ASSUME InputOK, NEW l, Sound(l), AllRead(l), NEW r, Rule(r), NEW D, Good(Current(l), r, D),
         Char(l) \notin D
  PROVE  AllRead(Longest(l, r))
<1>1. Place(l) /\ len \in Nat /\ (l.pos < len <=> Char(l) # eof)
  BY CharFacts DEF Sound
<1>2. CASE Char(l) \in DOMAIN r.two
  <2> DEFINE n == next(l)  t == r.two[Char(l)]
  <2>1. t \in item_type /\ t \in OperatorTypes /\ Spells(t, Current(l) \o <<Char(l)>>)
        /\ \A e : Ends(Current(l) \o <<Char(l)>>, e)
    BY <1>2 DEF Rule, Lexemes, Good, Spells
  <2>2. l.pos < len
    BY <1>1, <1>2 DEF Rule
  <2>3. Current(n) = Current(l) \o <<Char(l)>>
    BY <1>1, <2>2, CurrentGrows
  <2>4. Sound(n) /\ AllRead(n) /\ Place(n)
    BY <1>1, ReadOn, NextOK DEF AllRead, Same
  <2>5. Longest(l, r) = emit(n, t)
    BY <1>2 DEF Longest
  <2> HIDE DEF n, t
  <2>6. Reads(n, t)
    BY <2>1, <2>3, <2>4, ReadsFacts
  <2> QED BY <2>1, <2>4, <2>5, <2>6, EmitReads
<1>3. CASE Char(l) \notin DOMAIN r.two
  <2> DEFINE n == backup(next(l))  t == r.one
  <2>1. t \in item_type /\ t \in OperatorTypes /\ Spells(t, Current(l))
        /\ Ends(Current(l), Char(l))
    BY <1>3 DEF Rule, Lexemes, Good, Spells
  <2>2. Same(l, n) /\ n.pos = l.pos /\ Sound(n) /\ Place(n)
    BY <1>1, ReadOn, PutBack
  <2>3. Current(n) = Current(l) /\ AllRead(n) /\ Char(n) = Char(l)
    BY <2>2 DEF Current, AllRead, Same, Char
  <2>4. Longest(l, r) = emit(n, t)
    BY <1>3 DEF Longest
  <2> HIDE DEF n, t
  <2>5. Reads(n, t)
    BY <2>1, <2>2, <2>3, ReadsFacts
  <2> QED BY <2>1, <2>2, <2>3, <2>4, <2>5, EmitReads
<1> QED BY <1>2, <1>3

(* A state function that leaves such a lexer keeps the invariant.          *)
LEMMA GoReads ==
  ASSUME NEW l, NEW s, Go(l, s), AllRead(l), Before(l, s)
  PROVE  ReadInv'
<1>1. lx' = l /\ state' = s /\ input' = input
  BY DEF Go
<1>2. ASSUME NEW i, Read(i) PROVE Read(i)'
  BY <1>1, <1>2 DEF Read, Slice, After, len
<1>4. AllRead(lx)'
  <2>1. ASSUME NEW k \in 1..Len(l.items) PROVE Read(lx.items[k])'
    <3>1. PICK i : i = l.items[k]
      OBVIOUS
    <3>2. Read(i)'
      BY <1>2, <2>1, <3>1 DEF AllRead
    <3>3. lx'.items[k] = i
      BY <1>1, <3>1
    <3> QED BY <3>2, <3>3 DEF Read, Slice, After
  <2> QED BY <1>1, <2>1 DEF AllRead
<1>3. Before(lx, state)'
  BY <1>1 DEF Before, Current
<1> QED BY <1>3, <1>4 DEF ReadInv

(* No item was added. *)
LEMMA QuietReads ==
  ASSUME ReadInv, NEW l, NEW s, Go(l, s), l.items = lx.items, s \notin DOMAIN Follow
  PROVE  ReadInv'
<1>1. AllRead(l)
  BY DEF ReadInv, AllRead
<1> QED BY <1>1, GoReads DEF Before

(* An item was. *)
LEMMA ItemReads ==
  ASSUME NEW l, NEW s, Go(l, s), AllRead(l), s \notin DOMAIN Follow
  PROVE  ReadInv'
BY GoReads DEF Before

(* Which state functions are those of operators, and which are not.        *)
LEMMA FollowFacts ==
  /\ DOMAIN Follow = {"lex_plus", "lex_minus", "lex_times", "lex_slash", "lex_mod",
                      "lex_less_than", "lex_greater_than", "lex_and", "lex_or",
                      "lex_xor", "equal", "bang", "lshift", "rshift"}
  /\ {"lex_expression", "lex_identifier", "lex_number", "lex_string", "lex_raw_string",
      "NULL", "exited"} \cap DOMAIN Follow = {}
BY DEF Follow

(* Looking at characters adds no item.                                     *)
LEMMA ItemsStay ==
  ASSUME InputOK, NEW l, Place(l)
  PROVE  /\ next(l).items = l.items /\ backup(next(l)).items = l.items /\ ignore(l).items = l.items
         /\ ignore(next(l)).items = l.items /\ ignore_spaces(l).items = l.items
         /\ \A valid : accept_run(l, valid).items = l.items
<1>1. Place(next(l)) /\ next(l).items = l.items /\ backup(next(l)).items = l.items
  BY NextOK, PutBack DEF Same
<1>2. ASSUME NEW valid PROVE Place(accept_run(l, valid)) /\ accept_run(l, valid).items = l.items
  BY RunOK DEF Same
<1>3. ASSUME NEW m, Place(m) PROVE ignore(m).items = m.items
  <2> DEFINE S == Seq(ItemType)
  <2>1. m \in [start : Nat, pos : Nat, width : {0, 1}, items : S]
    BY <1>3 DEF Place, LexerType
  <2> HIDE DEF S
  <2> QED BY <2>1 DEF ignore
<1> QED BY <1>1, <1>2, <1>3 DEF ignore_spaces

(* One lemma per branch of lex_expression:                                 *)
(* characters that are operators of their own,                             *)
LEMMA SingleReads ==
  ASSUME LexerInv, ReadInv, state = "lex_expression", LexSingle PROVE ReadInv'
<1> DEFINE n == next(lx)  x == Char(lx)
<1>1. InputOK /\ Between(lx) /\ Place(lx) /\ AllRead(lx)
  BY BetweenFacts DEF Between, Sound, ReadInv
<1>2. x \in DOMAIN Single \cup DOMAIN SingleOnly => x # eof
  BY SinglesGood
<1>3. x # eof => lx.pos < len
  BY <1>1, CharFacts
<1>4. lx.pos < len => Current(n) = <<x>>
  BY <1>1, CurrentGrows DEF Between
<1>5. Sound(n) /\ Place(n) /\ AllRead(n)
  BY <1>1, ReadOn, NextOK, ItemsStay DEF Between, AllRead
<1> HIDE DEF n, x
<1>6. ASSUME NEW t, lx.pos < len, Spells(t, <<x>>), x \notin Assigned,
             NEW m \in {emit(n, t), ignore_spaces(emit(n, t))}, Go(m, state)
      PROVE  ReadInv'
  <2>1. t \in OperatorTypes /\ t \in item_type
    BY <1>6 DEF Spells, item_type
  <2>2. \A c : Ends(<<x>>, c)
    <3>1. x \notin Doubled
      BY <1>6 DEF Assigned, Doubled
    <3> QED BY <1>6, <3>1, EndOne
  <2>3. Reads(n, t)
    BY <1>1, <1>4, <1>5, <1>6, <2>1, <2>2, ReadsFacts
  <2>4. AllRead(emit(n, t)) /\ Sound(emit(n, t))
    BY <1>1, <1>5, <2>1, <2>3, EmitReads, EmitSound
  <2> DEFINE e == emit(n, t)
  <2>5. Place(e) /\ AllRead(e)
    BY <2>4 DEF Sound
  <2> HIDE DEF e
  <2>6. AllRead(ignore_spaces(e))
    BY <1>1, <2>5, ItemsStay DEF AllRead
  <2>7. AllRead(m)
    BY <1>6, <2>5, <2>6 DEF e
  <2> QED BY <1>6, <2>7, ItemReads, FollowFacts
<1>7. CASE x \in DOMAIN Single /\ Go(ignore_spaces(emit(n, Single[x])), state)
  BY <1>2, <1>3, <1>6, <1>7, SinglesGood
<1>8. CASE x \in DOMAIN SingleOnly /\ Go(emit(n, SingleOnly[x]), state)
  BY <1>2, <1>3, <1>6, <1>8, SinglesGood
<1> QED BY <1>7, <1>8 DEF LexSingle, n, x

(* the first characters of longer ones,                                    *)
LEMMA LongerReads ==
  ASSUME LexerInv, ReadInv, state = "lex_expression", LexLonger PROVE ReadInv'
<1> DEFINE n == next(lx)  x == Char(lx)
<1>1. InputOK /\ Between(lx) /\ Place(lx) /\ AllRead(lx)
  BY BetweenFacts DEF Between, Sound, ReadInv
<1>2. x \in DOMAIN Longer \cup {"=", "!"} => x # eof
  BY LongersGood DEF eof
<1>3. x # eof => lx.pos < len
  BY <1>1, CharFacts
<1>4. lx.pos < len => Current(n) = <<x>>
  BY <1>1, CurrentGrows DEF Between
<1>5. Sound(n) /\ Place(n) /\ AllRead(n)
  BY <1>1, ReadOn, NextOK, ItemsStay DEF Between, AllRead
<1> HIDE DEF n, x
<1>6. CASE x \in DOMAIN Longer /\ Go(n, Longer[x])
  <2>1. Before(n, Longer[x])
    BY <1>2, <1>3, <1>4, <1>6 DEF Before
  <2> QED BY <1>5, <1>6, <2>1, GoReads
<1>7. ASSUME NEW r, Rule(r), x \in {"=", "!"}, Good(<<x>>, r, {}), Go(Longest(n, r), state)
      PROVE  ReadInv'
  <2>1. AllRead(Longest(n, r))
    BY <1>1, <1>2, <1>3, <1>4, <1>5, <1>7, LongestReads
  <2> QED BY <1>7, <2>1, ItemReads, FollowFacts
<1>8. CASE x = "=" /\ Go(Longest(n, Follow.equal), state)
  BY <1>7, <1>8, RuleFacts, RulesGood
<1>9. CASE x = "!" /\ Go(Longest(n, Follow.bang), state)
  BY <1>7, <1>9, RuleFacts, RulesGood
<1> QED BY <1>6, <1>8, <1>9 DEF LexLonger, n, x

(* comments, and the rest, where nothing is emitted.                       *)
LEMMA CommentReads ==
  ASSUME LexerInv, ReadInv, state = "lex_expression", LexComment PROVE ReadInv'
<1>1. InputOK /\ Place(lx)
  BY BetweenFacts DEF Between, Sound
<1> DEFINE valid == Characters \ {"\n"}
           ends == {p \in lx.pos..len - 1 : input[p + 1] = "\n"}
           stops == {p \in lx.pos..len - 1 : input[p + 1] \notin valid}
           r == accept_run(lx, valid)
<1>2. lx.pos \in Nat /\ len \in Nat /\ \A i \in 1..len : input[i] \in Characters
  BY <1>1 DEF Place, LexerType, InputOK, len
<1>3. ends = stops
  <2>1. \A p \in lx.pos..len - 1 : input[p + 1] \in Characters
    BY <1>2
  <2> QED BY <2>1
<1>4. Go(ignore_spaces(r), "lex_expression")
  BY <1>3 DEF LexComment, accept_run
<1>5. Place(r) /\ r.items = lx.items
  <2> HIDE DEF valid
  <2> QED BY <1>1, RunOK DEF Same
<1> HIDE DEF r
<1>6. ignore_spaces(r).items = lx.items
  BY <1>1, <1>5, ItemsStay
<1> QED BY <1>4, <1>6, QuietReads, FollowFacts

LEMMA ExpressionReads ==
  ASSUME LexerInv, ReadInv, lex_expression PROVE ReadInv'
<1>1. state = "lex_expression" /\ InputOK /\ Between(lx) /\ Place(lx) /\ AllRead(lx)
  BY BetweenFacts DEF lex_expression, Between, Sound, ReadInv
<1>2. CASE LexSpace \/ LexLetter \/ LexDigit \/ LexQuote \/ LexInvalid
  <2>1. \E l \in {ignore(next(lx)), backup(next(lx)), next(lx)} :
        \E s \in {"lex_expression", "lex_identifier", "lex_number", "lex_string", "lex_raw_string",
                  "exited"} : Go(l, s)
    BY <1>1, <1>2 DEF LexSpace, LexLetter, LexDigit, LexQuote, LexInvalid
  <2>2. \A l \in {ignore(next(lx)), backup(next(lx)), next(lx)} : l.items = lx.items
    BY <1>1, ItemsStay
  <2> QED BY <2>1, <2>2, QuietReads, FollowFacts
<1>3. CASE LexEof
  <2> DEFINE n == next(lx)
  <2>1. Sound(n) /\ Place(n) /\ AllRead(n)
    BY <1>1, ReadOn, NextOK, ItemsStay DEF Between, AllRead
  <2>2. Go(emit(n, "eof"), "NULL")
    BY <1>3 DEF LexEof
  <2> HIDE DEF n
  <2>3. Reads(n, "eof") /\ "eof" \in item_type
    BY <1>1, <2>1, ReadsFacts, OthersFacts, WordLexemes
  <2>4. AllRead(emit(n, "eof"))
    BY <1>1, <2>1, <2>3, EmitReads
  <2> QED BY <2>2, <2>4, ItemReads, FollowFacts
<1> QED BY <1>1, <1>2, <1>3, SingleReads, LongerReads, CommentReads DEF lex_expression

(* One lemma per other state function.                                     *)
LEMMA IdentifierReads ==
  ASSUME LexerInv, ReadInv, lex_identifier PROVE ReadInv'
<1> DEFINE r == accept_run(lx, WordChars)
<1>1. InputOK /\ Sound(lx) /\ Place(lx) /\ AllRead(lx)
      /\ Go(emit(r, lookup_type(Current(r))), "lex_expression")
  BY InvFacts DEF lex_identifier, Sound, ReadInv
<1>2. /\ Place(r) /\ Same(lx, r) /\ (r.pos < len => input[r.pos + 1] \notin WordChars)
  BY <1>1, RunOK
<1>3. Sound(r) /\ AllRead(r)
  BY <1>1, <1>2, SameTaken DEF Sound, AllRead, Same
<1> HIDE DEF r
<1> DEFINE t == lookup_type(Current(r))
<1>4. t \in Words /\ t \in item_type
  BY OthersFacts, WordLexemes DEF Lexemes
<1>5. Behind(r) \cap WordChars = {}
  <2>1. r.pos < len => Char(r) \notin WordChars
    BY <1>1, <1>2, CharFacts
  <2> QED BY <1>1, <1>2, <2>1, ReadsFacts
<1>6. Reads(r, t)
  BY <1>1, <1>2, <1>4, <1>5, ReadsFacts
<1>7. Go(emit(r, t), "lex_expression")
  BY <1>1
<1> HIDE DEF t
<1>8. AllRead(emit(r, t))
  BY <1>1, <1>3, <1>4, <1>6, EmitReads
<1> QED BY <1>7, <1>8, ItemReads, FollowFacts

LEMMA OperatorReads ==
  ASSUME LexerInv, ReadInv, lex_operator PROVE ReadInv'
<1>1. state \in DOMAIN Follow
  BY DEF lex_operator
<1>2. InputOK /\ Sound(lx) /\ Place(lx) /\ AllRead(lx)
  BY <1>1, FollowFacts, InvFacts DEF Sound, ReadInv
<1>3. PICK x \in DOMAIN Longer : Longer[x] = state /\ Current(lx) = <<x>>
  BY <1>1 DEF ReadInv, Before
<1>4. /\ Good(<<x>>, Follow[state], Doubling(x))
      /\ state = "lex_less_than" <=> x = "<"
      /\ state = "lex_greater_than" <=> x = ">"
  BY <1>3, LongersGood
<1>5. Rule(Follow.lshift) /\ Rule(Follow.rshift) /\ Rule(Follow[state])
  BY <1>1, RuleFacts
<1>6. ASSUME NEW l, Sound(l), AllRead(l), NEW r, Rule(r), NEW D, Good(Current(l), r, D), Char(l) \notin D,
             Go(Longest(l, r), "lex_expression")
      PROVE  ReadInv'
  <2>1. AllRead(Longest(l, r))
    BY <1>2, <1>6, LongestReads
  <2> QED BY <1>6, <2>1, ItemReads, FollowFacts
<1>7. ASSUME Char(lx) = x, x \in {"<", ">"}
      PROVE  Sound(next(lx)) /\ AllRead(next(lx)) /\ Current(next(lx)) = <<x, x>>
  <2>1. lx.pos < len
    BY <1>2, <1>7, CharFacts DEF eof
  <2>2. Current(next(lx)) = <<x>> \o <<x>>
    BY <1>2, <1>3, <1>7, <2>1, CurrentGrows
  <2>3. <<x>> \o <<x>> = <<x, x>>
    BY JoinedOne
  <2>4. Sound(next(lx)) /\ AllRead(next(lx))
    BY <1>2, ReadOn, ItemsStay DEF AllRead
  <2> QED BY <2>2, <2>3, <2>4
<1>8. CASE state = "lex_less_than" /\ Char(lx) = "<"
  <2>1. Go(Longest(next(lx), Follow.lshift), "lex_expression") /\ x = "<"
    BY <1>4, <1>8 DEF lex_operator
  <2>2. Good(Current(next(lx)), Follow.lshift, {})
    BY <1>7, <1>8, <2>1, RulesGood
  <2> QED BY <1>5, <1>6, <1>7, <1>8, <2>1, <2>2
<1>9. CASE state = "lex_greater_than" /\ Char(lx) = ">"
  <2>1. Go(Longest(next(lx), Follow.rshift), "lex_expression") /\ x = ">"
    BY <1>4, <1>9 DEF lex_operator
  <2>2. Good(Current(next(lx)), Follow.rshift, {})
    BY <1>7, <1>9, <2>1, RulesGood
  <2> QED BY <1>5, <1>6, <1>7, <1>9, <2>1, <2>2
<1>10. CASE /\ ~ (state = "lex_less_than" /\ Char(lx) = "<")
            /\ ~ (state = "lex_greater_than" /\ Char(lx) = ">")
  <2>1. Go(Longest(lx, Follow[state]), "lex_expression")
    BY <1>10 DEF lex_operator
  <2>2. Char(lx) \notin Doubling(x)
    BY <1>4, <1>10 DEF Doubling
  <2> QED BY <1>2, <1>3, <1>4, <1>5, <1>6, <2>1, <2>2
<1> QED BY <1>8, <1>9, <1>10

(* At the closing quote: the item is neither an operator nor a word. *)
LEMMA CloseReads ==
  ASSUME InputOK, NEW l, Sound(l), AllRead(l), NEW t \in {"string", "rawstring"}
  PROVE  LET m == ignore(next(emit(backup(next(l)), t))) IN AllRead(m) /\ Place(m)
<1> DEFINE b == backup(next(l))
<1>1. Sound(b) /\ Place(b) /\ AllRead(b)
  BY ReadOn, ItemsStay DEF Sound, AllRead
<1> HIDE DEF b
<1> DEFINE e == emit(b, t)
<1>2. t \in item_type /\ Reads(b, t)
  BY <1>1, ReadsFacts, OthersFacts, WordLexemes DEF Lexemes
<1>3. AllRead(e) /\ Place(e)
  BY <1>1, <1>2, EmitReads, EmitSound DEF Sound
<1> HIDE DEF e
<1>4. Place(next(e))
  BY <1>3, NextOK
<1> DEFINE n == next(e)
<1>5. Place(ignore(n))
  <2>1. n \in LexerType /\ n.pos <= len /\ (n.pos < len => n.width = 1)
    BY <1>4 DEF Place
  <2> HIDE DEF n
  <2> DEFINE S == Seq(ItemType)
  <2>2. n \in [start : Nat, pos : Nat, width : {0, 1}, items : S]
    BY <2>1 DEF LexerType
  <2> HIDE DEF S
  <2>3. /\ ignore(n) \in [start : Nat, pos : Nat, width : {0, 1}, items : S]
        /\ ignore(n).start = n.pos /\ ignore(n).pos = n.pos /\ ignore(n).width = n.width
    BY <2>2 DEF ignore
  <2> QED BY <2>1, <2>2, <2>3 DEF Place, LexerType, S
<1>6. AllRead(ignore(n))
  BY <1>3, ItemsStay DEF AllRead
<1> QED BY <1>5, <1>6 DEF e, b

LEMMA StringReads ==
  ASSUME LexerInv, ReadInv, lex_string PROVE ReadInv'
<1>1. state = "lex_string" /\ InputOK /\ Sound(lx) /\ Place(lx) /\ AllRead(lx)
  BY InvFacts DEF lex_string, Sound, ReadInv
<1> DEFINE n == next(lx)
           m == ignore(next(emit(backup(n), "string")))
<1>2. CASE Char(lx) = Quote
  <2>1. Go(m, "lex_expression")
    BY <1>2 DEF lex_string, eof, Quote, Backslash
  <2>2. AllRead(m)
    BY <1>1, CloseReads
  <2> HIDE DEF m
  <2> QED BY <2>1, <2>2, ItemReads, FollowFacts
<1>3. CASE Char(lx) # Quote
  <2>1. \E l \in {n, next(n)} : \E s \in {"lex_string", "NULL"} : Go(l, s)
    BY <1>3 DEF lex_string, eof, Backslash
  <2>2. Place(n) /\ n.items = lx.items
    BY <1>1, NextOK DEF Same
  <2> HIDE DEF n
  <2>3. next(n).items = lx.items
    BY <1>1, <2>2, ItemsStay
  <2> QED BY <2>1, <2>2, <2>3, QuietReads, FollowFacts
<1> QED BY <1>2, <1>3

LEMMA RawStringReads ==
  ASSUME LexerInv, ReadInv, lex_raw_string PROVE ReadInv'
<1>1. state = "lex_raw_string" /\ InputOK /\ Sound(lx) /\ Place(lx) /\ AllRead(lx)
  BY InvFacts DEF lex_raw_string, Sound, ReadInv
<1>2. ASSUME NEW l, Place(l), AllRead(l), Go(next(l), "lex_raw_string") PROVE ReadInv'
  <2>1. AllRead(next(l))
    BY <1>1, <1>2, ItemsStay DEF AllRead
  <2> QED BY <1>2, <2>1, ItemReads, FollowFacts
<1>3. CASE Char(lx) = Backtick
  <2> DEFINE l == ignore(next(emit(backup(next(lx)), "rawstring")))
  <2>1. AllRead(l) /\ Place(l)
    BY <1>1, CloseReads
  <2>2. Go(next(l), "lex_raw_string")
    BY <1>3 DEF lex_raw_string
  <2> HIDE DEF l
  <2> QED BY <1>2, <2>1, <2>2
<1>4. CASE Char(lx) # Backtick
  <2> DEFINE l == backup(next(lx))
  <2>1. AllRead(l) /\ Place(l)
    BY <1>1, PutBack, ItemsStay DEF AllRead
  <2>2. Go(next(l), "lex_raw_string")
    BY <1>4 DEF lex_raw_string
  <2> HIDE DEF l
  <2> QED BY <1>2, <2>1, <2>2
<1> QED BY <1>3, <1>4

LEMMA NumberReads ==
  ASSUME LexerInv, ReadInv, lex_number PROVE ReadInv'
<1>1. InputOK /\ Sound(lx) /\ AllRead(lx)
  BY InvFacts DEF lex_number, ReadInv
<1>2. PICK end : \E t \in {"float", "int"} : Tried(lx, end) /\ Go(emit(end, t), "lex_expression")
  BY NumberEnds
<1>3. PICK t \in {"float", "int"} : Tried(lx, end) /\ Go(emit(end, t), "lex_expression")
  BY <1>2
<1>4. Sound(end) /\ Place(end) /\ AllRead(end)
  BY <1>1, <1>3, SameTaken DEF Tried, Ready, Sound, AllRead, Same
<1>5. Reads(end, t) /\ t \in item_type
  BY <1>1, <1>4, ReadsFacts, OthersFacts, WordLexemes DEF Lexemes
<1>6. AllRead(emit(end, t))
  BY <1>1, <1>4, <1>5, EmitReads
<1> QED BY <1>3, <1>6, ItemReads, FollowFacts

(* Every step keeps the invariant,                                         *)
LEMMA ReadStep ==
  ASSUME LexerInv, ReadInv, [lexer_run]_lexerVars PROVE ReadInv'
<1>1. CASE lexer_run
  BY <1>1, ExpressionReads, IdentifierReads, OperatorReads, StringReads, RawStringReads, NumberReads
     DEF lexer_run
<1>2. CASE UNCHANGED lexerVars
  <2>1. Go(lx, state)
    BY <1>2 DEF Go, lexerVars
  <2> QED BY <2>1, GoReads DEF ReadInv
<1> QED BY <1>1, <1>2

(* which holds of a lexer that has read nothing                            *)
LEMMA ReadStart == LexerInit => ReadInv
<1> SUFFICES ASSUME LexerInit PROVE ReadInv
  OBVIOUS
<1> DEFINE l == [start |-> 0, pos |-> 0, width |-> 1, items |-> <<>>]
<1>1. lx = ignore_spaces(l) /\ state = "lex_expression" /\ InputOK
  BY TextsAssumption DEF LexerInit, new_lexer, InputOK
<1>2. Place(l) /\ l.items = <<>>
  <2> DEFINE items == <<>>
  <2>1. items \in Seq(ItemType) /\ len \in Nat
    <3> HIDE DEF ItemType
    <3> QED BY <1>1 DEF InputOK, len
  <2> HIDE DEF items
  <2>2. LET k == [start |-> 0, pos |-> 0, width |-> 1, items |-> items]
        IN Place(k) /\ k.items = items
    BY <2>1 DEF Place, LexerType
  <2> QED BY <2>2 DEF items
<1> HIDE DEF l
<1>3. lx.items = <<>>
  BY <1>1, <1>2, ItemsStay
<1>4. AllRead(lx)
  <2>1. Len(lx.items) = 0
    BY <1>3
  <2>2. 1..Len(lx.items) = {}
    BY <2>1
  <2> QED BY <2>2 DEF AllRead
<1> QED BY <1>1, <1>4, FollowFacts DEF ReadInv, Before

(* and says what ItemsRead does.                                           *)
LEMMA ReadFollows == LexerInv /\ ReadInv => ItemsRead
<1> SUFFICES ASSUME ReadInv, NEW k \in Items
             PROVE  /\ Operator(k) =>
                         /\ Text(k) \notin {<<"/">>, <<"-", "+">>} => Text(k) = itype_lit[lx.items[k].type]
                         /\ \A c \in NextChar(k) : Text(k) \o <<c>> # <<"-", "-">> =>
                              \A t \in OperatorTypes : itype_lit[t] # Text(k) \o <<c>>
                    /\ lx.items[k].type \in DOMAIN Keywords \cup {"ident"} =>
                         /\ NextChar(k) \cap WordChars = {}
                         /\ lx.items[k].type = lookup_type(Text(k))
  BY DEF ItemsRead
<1> DEFINE i == lx.items[k]
<1>1. Read(i)
  BY DEF ReadInv, AllRead, Items
<1>2. Text(k) = Slice(i) /\ NextChar(k) = After(i) /\ (Operator(k) <=> i.type \in OperatorTypes)
  BY DEF Text, Slice, NextChar, After, Operator
<1> HIDE DEF i
<1>3. /\ i.type \in OperatorTypes =>
           /\ Slice(i) \notin {<<"/">>, <<"-", "+">>} => Slice(i) = itype_lit[i.type]
           /\ \A c \in After(i) : Slice(i) \o <<c>> # <<"-", "-">> =>
                \A t \in OperatorTypes : itype_lit[t] # Slice(i) \o <<c>>
      /\ i.type \in DOMAIN Keywords \cup {"ident"} =>
           /\ After(i) \cap WordChars = {}
           /\ i.type = lookup_type(Slice(i))
  BY <1>1 DEF Read, Spells, Ends, Misread, Words
<1> QED BY <1>2, <1>3 DEF i

(* An operator item is spelt like the operator, and no longer operator     *)
(* begins where it does, except that "/", "-+" and "--" are misread; a word*)
(* ends where no letter or digit follows, and it is a keyword exactly if it*)
(* is written like one.  So neither accept's greed nor backup ever splits  *)
(* or merges what is written, in any text.                                 *)
THEOREM ReadAsWritten == LexerSpec => []ItemsRead
<1>1. LexerInit => LexerInv /\ ReadInv
  BY LexerStart, ReadStart
<1>2. LexerInv /\ ReadInv /\ [lexer_run]_lexerVars => (LexerInv /\ ReadInv)'
  BY LexerStep, ReadStep
<1> QED BY <1>1, <1>2, ReadFollows, PTL DEF LexerSpec
=============================================================================
