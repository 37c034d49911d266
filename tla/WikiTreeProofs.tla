--------------------------- MODULE WikiTreeProofs ----------------------------
(***************************************************************************)
(* Proofs about the tree of a wiki space (WikiTree) and imports into it    *)
(* (WikiImport), for any set of nodes, names and numbers and any files,    *)
(* folders and requests, and the types of all parts of a wiki space.       *)
(***************************************************************************)
EXTENDS WikiProofs, SequenceTheorems, WellFoundedInduction

-----------------------------------------------------------------------------
(* The tree: paths and parents *)

\* What a path becomes when its beginning old is replaced.
Replanted(path, old, s) == path \o SubSeq(s, Len(old) + 1, Len(s))

\* What is below a path is what is at it or below it, and a leaf.
LEMMA PathsExtend ==
    ASSUME NEW S, NEW s \in Seq(S), NEW e \in S, NEW top \in Seq(S)
    PROVE  Under(Append(s, e), top) <=> s = top \/ Under(s, top)
<1> DEFINE a == Append(s, e)
<1>1. /\ a \in Seq(S) /\ Len(a) = Len(s) + 1
      /\ \A i \in 1 .. Len(s) : a[i] = s[i]
      /\ Len(s) \in Nat /\ Len(top) \in Nat
  BY AppendProperties, LenProperties
<1> HIDE DEF a
<1>2. ASSUME NEW b \in Seq(S), Len(top) <= Len(b)
      PROVE  /\ SubSeq(b, 1, Len(top)) \in Seq(S)
             /\ Len(SubSeq(b, 1, Len(top))) = Len(top)
             /\ \A i \in 1 .. Len(top) : SubSeq(b, 1, Len(top))[i] = b[i]
  <2>1. Len(b) \in Nat
    BY LenProperties
  <2>2. \A i \in 1 .. Len(top) : b[i] \in S
    BY <1>1, <1>2, <2>1, ElementOfSeq
  <2>3. 1 \in Int /\ Len(top) \in Int
    BY <1>1
  <2> DEFINE w == SubSeq(b, 1, Len(top))
  <2>4. /\ w \in Seq(S) /\ Len(w) = IF 1 <= Len(top) THEN Len(top) - 1 + 1 ELSE 0
        /\ \A i \in 1 .. Len(top) - 1 + 1 : w[i] = b[1 + i - 1]
    BY <2>2, <2>3, SubSeqProperties
  <2> HIDE DEF w
  <2>5. w \in Seq(S) /\ Len(w) = Len(top) /\ \A i \in 1 .. Len(top) : w[i] = b[i]
    BY <1>1, <2>4
  <2> QED
    BY <2>5 DEF w
<1>3. ASSUME Len(top) <= Len(s)
      PROVE  SubSeq(a, 1, Len(top)) = SubSeq(s, 1, Len(top))
  <2> DEFINE u == SubSeq(s, 1, Len(top))
             v == SubSeq(a, 1, Len(top))
  <2>1. /\ u \in Seq(S) /\ Len(u) = Len(top) /\ \A i \in 1 .. Len(top) : u[i] = s[i]
    BY <1>2, <1>3
  <2>2. /\ v \in Seq(S) /\ Len(v) = Len(top) /\ \A i \in 1 .. Len(top) : v[i] = a[i]
    <3>1. Len(top) <= Len(a)
      BY <1>1, <1>3
    <3> QED
      BY <1>1, <1>2, <3>1
  <2> HIDE DEF u, v
  <2>3. \A i \in 1 .. Len(u) : v[i] = u[i]
    BY <1>1, <1>3, <2>1, <2>2
  <2>4. u = v
    BY <2>1, <2>2, <2>3, SeqEqual
  <2> QED
    BY <2>4 DEF u, v
<1>4. CASE Len(s) = Len(top)
  <2>1. SubSeq(s, 1, Len(top)) = s
    BY <1>4, SubSeqFull
  <2> QED
    BY <1>1, <1>3, <1>4, <2>1 DEF Under, a
<1>5. CASE Len(s) > Len(top)
  BY <1>1, <1>3, <1>5 DEF Under, a
<1>6. CASE Len(s) < Len(top)
  BY <1>1, <1>6 DEF Under, a
<1> QED
  BY <1>1, <1>4, <1>5, <1>6

\* The end of a path.
LEMMA EndOfPath ==
    ASSUME NEW S, NEW s \in Seq(S), NEW l \in Nat, l <= Len(s)
    PROVE  /\ SubSeq(s, l + 1, Len(s)) \in Seq(S)
           /\ Len(SubSeq(s, l + 1, Len(s))) = Len(s) - l
           /\ \A i \in 1 .. Len(s) - l : SubSeq(s, l + 1, Len(s))[i] = s[l + i]
<1> DEFINE u == SubSeq(s, l + 1, Len(s))
<1>1. Len(s) \in Nat
  BY LenProperties
<1>2. \A i \in l + 1 .. Len(s) : s[i] \in S
  BY <1>1, ElementOfSeq
<1>3. l + 1 \in Int /\ Len(s) \in Int
  BY <1>1
<1>4. /\ u \in Seq(S) /\ Len(u) = IF l + 1 <= Len(s) THEN Len(s) - (l + 1) + 1 ELSE 0
      /\ \A i \in 1 .. Len(s) - (l + 1) + 1 : u[i] = s[l + 1 + i - 1]
  BY <1>2, <1>3, SubSeqProperties
<1> HIDE DEF u
<1>5. Len(u) = Len(s) - l
  BY <1>1, <1>4
<1>6. \A i \in 1 .. Len(s) - l : i \in 1 .. Len(s) - (l + 1) + 1 /\ l + 1 + i - 1 = l + i
  BY <1>1
<1>7. \A i \in 1 .. Len(s) - l : u[i] = s[l + i]
  BY <1>4, <1>6
<1> QED
  BY <1>4, <1>5, <1>7 DEF u

\* A path that is replanted keeps its leaf.
LEMMA PathsReplant ==
    ASSUME NEW S, NEW s \in Seq(S), NEW e \in S, NEW old \in Seq(S), NEW path \in Seq(S),
           s = old \/ Under(s, old)
    PROVE  /\ Replanted(path, old, s) \in Seq(S)
           /\ Replanted(path, old, old) = path
           /\ Replanted(path, old, Append(s, e)) = Append(Replanted(path, old, s), e)
<1> DEFINE l == Len(old)
           a == Append(s, e)
           u == SubSeq(s, l + 1, Len(s))
           v == SubSeq(a, l + 1, Len(a))
<1>1. /\ a \in Seq(S) /\ Len(a) = Len(s) + 1
      /\ \A i \in 1 .. Len(s) : a[i] = s[i]
      /\ a[Len(s) + 1] = e
      /\ Len(s) \in Nat /\ l \in Nat /\ l <= Len(s)
  BY AppendProperties, LenProperties DEF Under
<1>2. /\ Replanted(path, old, s) = path \o u /\ Replanted(path, old, a) = path \o v
  BY DEF Replanted
<1> HIDE DEF l, a
<1>3. /\ u \in Seq(S) /\ Len(u) = Len(s) - l
      /\ \A i \in 1 .. Len(s) - l : u[i] = s[l + i]
  BY <1>1, EndOfPath
<1>4. l <= Len(a)
  BY <1>1
<1>5. /\ v \in Seq(S) /\ Len(v) = Len(a) - l
      /\ \A i \in 1 .. Len(a) - l : v[i] = a[l + i]
  BY <1>1, <1>4, EndOfPath
<1> HIDE DEF u, v
<1>6. v = Append(u, e)
  <2> DEFINE b == Append(u, e)
  <2>1. /\ b \in Seq(S) /\ Len(b) = Len(u) + 1
        /\ \A i \in 1 .. Len(u) : b[i] = u[i]
        /\ b[Len(u) + 1] = e
    BY <1>3, AppendProperties
  <2> HIDE DEF b
  <2>2. Len(u) \in Nat /\ Len(v) = Len(u) + 1 /\ l + (Len(u) + 1) = Len(s) + 1
    BY <1>1, <1>3, <1>5
  <2>3. ASSUME NEW i \in 1 .. Len(u) PROVE v[i] = b[i]
    <3>1. /\ i \in 1 .. Len(s) - l /\ i \in 1 .. Len(a) - l /\ l + i \in 1 .. Len(s)
      BY <1>1, <1>3, <2>2
    <3>2. v[i] = a[l + i] /\ u[i] = s[l + i] /\ a[l + i] = s[l + i] /\ b[i] = u[i]
      BY <1>1, <1>3, <1>5, <2>1, <3>1
    <3> QED
      BY <3>2
  <2>4. v[Len(u) + 1] = b[Len(u) + 1]
    <3>1. Len(u) + 1 \in 1 .. Len(a) - l
      BY <1>1, <1>3, <2>2
    <3>2. v[Len(u) + 1] = a[l + (Len(u) + 1)]
      BY <1>5, <3>1
    <3> QED
      BY <1>1, <2>1, <2>2, <3>2
  <2>5. \A i \in 1 .. Len(v) : v[i] = b[i]
    <3>1. \A i \in 1 .. Len(v) : i \in 1 .. Len(u) \/ i = Len(u) + 1
      BY <2>2
    <3> QED
      BY <2>3, <2>4, <3>1
  <2>6. v = b
    BY <1>5, <2>1, <2>2, <2>5, SeqEqual
  <2> QED
    BY <2>6 DEF b
<1>7. path \o u \in Seq(S)
  BY <1>3, ConcatProperties
<1>8. path \o v = Append(path \o u, e)
  <2>1. <<e>> \in Seq(S)
    OBVIOUS
  <2>2. v = u \o <<e>>
    BY <1>3, <1>6, AppendIsConcat
  <2>3. path \o v = (path \o u) \o <<e>>
    BY <1>3, <2>1, <2>2, ConcatAssociative
  <2> QED
    BY <1>7, <2>3, AppendIsConcat
<1>9. Replanted(path, old, old) = path
  <2>1. SubSeq(old, Len(old) + 1, Len(old)) = << >>
    <3>1. Len(old) + 1 \in Int /\ Len(old) \in Int /\ Len(old) < Len(old) + 1
      BY LenProperties
    <3> QED
      BY <3>1, SubSeqEmpty
  <2> QED
    BY <2>1, ConcatEmptySeq DEF Replanted
<1> QED
  BY <1>2, <1>7, <1>8, <1>9 DEF a

\* Two paths that are replanted stay two.
LEMMA ReplantedApart ==
    ASSUME NEW S, NEW s \in Seq(S), NEW t \in Seq(S), NEW old \in Seq(S), NEW path \in Seq(S),
           s = old \/ Under(s, old), t = old \/ Under(t, old),
           Replanted(path, old, s) = Replanted(path, old, t)
    PROVE  s = t
<1>1. /\ Len(s) \in Nat /\ Len(old) \in Nat /\ Len(old) <= Len(s)
      /\ Len(t) \in Nat /\ Len(old) <= Len(t)
  BY LenProperties DEF Under
<1>2. ASSUME NEW w \in Seq(S), w = old \/ Under(w, old)
      PROVE  w = old \o SubSeq(w, Len(old) + 1, Len(w)) /\ SubSeq(w, Len(old) + 1, Len(w)) \in Seq(S)
  <2>1. Len(w) \in Nat /\ Len(old) <= Len(w)
    BY <1>1, <1>2, LenProperties DEF Under
  <2>2. SubSeq(w, 1, Len(old)) = old
    BY <1>2, SubSeqFull DEF Under
  <2>3. SubSeq(w, 1, Len(old)) \o SubSeq(w, Len(old) + 1, Len(w)) = SubSeq(w, 1, Len(w))
    <3>1. 1 \in 1 .. Len(w) + 1 /\ Len(old) \in 1 - 1 .. Len(w) /\ Len(w) \in Len(old) .. Len(w)
      BY <1>1, <2>1
    <3> QED
      BY <3>1, ConcatAdjacentSubSeq
  <2>4. SubSeq(w, 1, Len(w)) = w
    BY SubSeqFull
  <2>5. SubSeq(w, Len(old) + 1, Len(w)) \in Seq(S)
    <3>1. \A i \in Len(old) + 1 .. Len(w) : w[i] \in S
      BY <1>1, <2>1, ElementOfSeq
    <3>2. Len(old) + 1 \in Int /\ Len(w) \in Int
      BY <1>1, <2>1
    <3> QED
      BY <3>1, <3>2, SubSeqProperties
  <2> QED
    BY <2>2, <2>3, <2>4, <2>5
<1> DEFINE u == SubSeq(s, Len(old) + 1, Len(s))
<1> DEFINE v == SubSeq(t, Len(old) + 1, Len(t))
<1>3. s = old \o u /\ u \in Seq(S) /\ t = old \o v /\ v \in Seq(S)
  BY <1>2
<1>4. path \o u = path \o v
  BY DEF Replanted
<1> HIDE DEF u, v
<1>5. u = v
  BY <1>3, <1>4, ConcatSimplifications
<1> QED
  BY <1>3, <1>5

\* The natural numbers are well-founded.
LEMMA LeastNatural ==
    ASSUME NEW T, T \subseteq Nat, T # {}
    PROVE  \E x \in T : \A y \in T : x <= y
<1>1. IsWellFoundedOn(OpToRel(<,Nat), Nat)
  BY NatLessThanWellFounded
<1>2. \E x \in T : \A y \in T : ~ (<<y, x>> \in OpToRel(<,Nat))
  BY <1>1, WFMin
<1>3. \A x, y \in T : <<y, x>> \notin OpToRel(<,Nat) => x <= y
  BY DEF OpToRel
<1> QED
  BY <1>2, <1>3

NodeRow == [parent : Ids \cup {None}, type : Types, name : Names \cup {100, 101},
            path : Seq(Leaves), gone : 0 .. 2, owner : Documents \cup Reports \cup {None}]

\* How a row hangs in the tree t, deleted or not: in a folder that is not deleted for
\* longer than it is, or at the top, and then its path says so.
Hangs(t, n) ==
    /\ t[n].parent = None => \E k \in Suffixes : t[n].path = <<<<t[n].name, k>>>>
    /\ t[n].parent # None =>
         /\ t[n].parent \in DOMAIN t
         /\ t[t[n].parent].type = "folder"
         /\ t[n].gone >= t[t[n].parent].gone
    /\ t[n].owner \in Documents => t[n].type = "document"
    /\ t[n].owner \in Reports => t[n].type = "report_ref"
\* What more there is to a row that is active: so is its parent, and its path is one
\* leaf longer.
Follows(t, n) ==
    t[n].parent # None =>
      /\ t[t[n].parent].gone = 0
      /\ \E k \in Suffixes : t[n].path = Append(t[t[n].parent].path, <<t[n].name, k>>)
Shaped(t) ==
    /\ Roots \subseteq DOMAIN t /\ DOMAIN t \subseteq Ids
    /\ t \in [DOMAIN t -> NodeRow]
    /\ \A r \in Roots : t[r] = RootRow(r)
OwnPaths(t) ==
    \A m, n \in DOMAIN t :
      t[m].gone = 0 /\ t[n].gone = 0 /\ t[m].path = t[n].path => m = n
WayOut(t) ==
    \A rows \in SUBSET DOMAIN t : rows # {} => \E n \in rows : t[n].parent \notin rows
\* The tree at all times.  Deleted rows are part of it, for they can come back.
Rooted(t) ==
    /\ Shaped(t)
    /\ \A n \in DOMAIN t : Hangs(t, n)
    /\ \A n \in DOMAIN t : t[n].gone = 0 => Follows(t, n)
    /\ OwnPaths(t)
    /\ WayOut(t)
OlderShape ==
    /\ legacy \in [Documents -> [state : {"none", "active", "deleted"},
                                 name : Names \cup {None}]]
    /\ \A d \in Documents : legacy[d].state = "active" => legacy[d].name \in Names
    /\ files \subseteq Names
    /\ report \in [Reports -> Names \cup {None}]
TreeInv == Rooted(tree) /\ OlderShape

LEMMA NoneIsNoNode ==
    ASSUME TreeAssumption
    PROVE  /\ None \notin Ids /\ Ids \subseteq Nat /\ Roots \subseteq Ids /\ Roots \cap Nodes = {}
           /\ None \notin Documents \cup Reports
           /\ KB \in Roots /\ RP \in Roots
           /\ \A p, q \in Ids \cup {None} : p \in {None} => (q = p <=> q = None)
  BY DEF TreeAssumption, Ids, Roots

\* The top of a path of one leaf.
LEMMA TopPath ==
    ASSUME NEW e \in Leaves
    PROVE  Append(<<>>, e) = <<e>>
  OBVIOUS

LEMMA RowFields ==
    ASSUME NEW t, Shaped(t), NEW n \in DOMAIN t
    PROVE  /\ t[n] \in NodeRow /\ n \in Ids
           /\ t[n].parent \in Ids \cup {None} /\ t[n].type \in Types
           /\ t[n].name \in Names \cup {100, 101}
           /\ t[n].path \in Seq(Leaves) /\ t[n].gone \in 0 .. 2
           /\ t[n].owner \in Documents \cup Reports \cup {None}
<1>1. t[n] \in NodeRow /\ n \in Ids
  BY DEF Shaped
<1> QED
  BY <1>1 DEF NodeRow

\* What the invariant says in the words of the module.
LEMMA RootedIsSound ==
    ASSUME TreeAssumption, TreeInv
    PROVE  TypeOK /\ PathsFollowTree /\ OnePathOneNode /\ Acyclic
<1>1. TypeOK
  BY RowFields DEF TreeInv, Rooted, Shaped, OlderShape, TypeOK, Exists
<1>2. PathsFollowTree
  <2> SUFFICES ASSUME NEW n \in Active
               PROVE  /\ tree[n].parent \in Parents
                      /\ \E k \in Suffixes :
                           tree[n].path = Append(PathOf(tree[n].parent), <<tree[n].name, k>>)
    BY DEF PathsFollowTree
  <2>1. n \in DOMAIN tree /\ tree[n].gone = 0 /\ Hangs(tree, n) /\ Follows(tree, n)
    BY DEF TreeInv, Rooted, Active, Exists
  <2>2. /\ \A k \in Suffixes : <<tree[n].name, k>> \in Leaves
        /\ tree[n].parent \in Ids \cup {None}
    BY <2>1, RowFields DEF TreeInv, Rooted, Leaves
  <2>3. CASE tree[n].parent = None
    BY <2>1, <2>2, <2>3, TopPath DEF Hangs, PathOf, Parents
  <2>4. CASE tree[n].parent # None
    BY <2>1, <2>2, <2>4 DEF Hangs, Follows, PathOf, Parents, Active, Exists
  <2> QED
    BY <2>3, <2>4
<1>3. OnePathOneNode
  BY DEF TreeInv, Rooted, OwnPaths, OnePathOneNode, Active, Exists
<1>4. Acyclic
  BY DEF TreeInv, Rooted, WayOut, Acyclic, Exists
<1> QED
  BY <1>1, <1>2, <1>3, <1>4

\* Among rows whose paths are longer than those of their parents, one has its parent
\* outside.
LEMMA ShortestIsOut ==
    ASSUME NEW t, NEW rows, rows # {},
           \A n \in rows : t[n].path \in Seq(Leaves),
           \A n \in rows : t[n].parent \in rows => Len(t[t[n].parent].path) < Len(t[n].path)
    PROVE  \E n \in rows : t[n].parent \notin rows
<1> DEFINE lengths == {Len(t[n].path) : n \in rows}
<1>1. \A n \in rows : Len(t[n].path) \in Nat
  BY LenProperties
<1>2. lengths \subseteq Nat /\ lengths # {}
  BY <1>1
<1>3. PICK x \in lengths : \A y \in lengths : x <= y
  BY <1>2, LeastNatural
<1>4. PICK n \in rows : x = Len(t[n].path)
  BY <1>3
<1>5. ASSUME t[n].parent \in rows PROVE FALSE
  <2>1. Len(t[t[n].parent].path) \in lengths
    BY <1>5
  <2>2. x <= Len(t[t[n].parent].path)
    BY <1>3, <2>1
  <2>3. Len(t[t[n].parent].path) < x
    BY <1>4, <1>5
  <2> QED
    BY <1>1, <1>4, <1>5, <2>2, <2>3
<1> QED
  BY <1>5

\* A subtree is what its paths say: a row is in it when its parent is, and other than
\* its top only then.
LEMMA SubtreeHangs ==
    ASSUME TreeAssumption, Rooted(tree), NEW n \in Active, NEW m \in Active
    PROVE  /\ m \in Subtree(n, Active) <=> m = n \/ tree[m].parent \in Subtree(n, Active)
           /\ tree[n].parent \notin Subtree(n, Active)
           /\ tree[m].parent \notin {m} /\ tree[m].parent \in Active \cup {None}
<1>1. /\ m \in DOMAIN tree /\ tree[m].gone = 0 /\ Hangs(tree, m) /\ Follows(tree, m)
      /\ n \in DOMAIN tree /\ tree[n].gone = 0 /\ Hangs(tree, n) /\ Follows(tree, n)
  BY DEF Rooted, Active, Exists
<1>2. /\ tree[m].path \in Seq(Leaves) /\ tree[n].path \in Seq(Leaves)
      /\ tree[m].parent \in Ids \cup {None} /\ tree[n].parent \in Ids \cup {None}
      /\ Len(tree[m].path) \in Nat /\ Len(tree[n].path) \in Nat
  BY <1>1, RowFields, LenProperties DEF Rooted
<1>3. ASSUME NEW w \in Active, tree[w].parent # None
      PROVE  /\ tree[w].parent \in Active
             /\ \E e \in Leaves : tree[w].path = Append(tree[tree[w].parent].path, e)
             /\ tree[tree[w].parent].path \in Seq(Leaves)
             /\ Len(tree[w].path) = Len(tree[tree[w].parent].path) + 1
             /\ Len(tree[tree[w].parent].path) \in Nat
  <2>1. w \in DOMAIN tree /\ Hangs(tree, w) /\ Follows(tree, w)
    BY DEF Rooted, Active, Exists
  <2>2. tree[w].name \in Names \cup {100, 101}
    BY <2>1, RowFields DEF Rooted
  <2>3. tree[w].parent \in DOMAIN tree /\ tree[tree[w].parent].gone = 0
    BY <1>3, <2>1 DEF Hangs, Follows
  <2>4. tree[tree[w].parent].path \in Seq(Leaves)
    BY <2>3, RowFields DEF Rooted
  <2>5. PICK k \in Suffixes : tree[w].path = Append(tree[tree[w].parent].path, <<tree[w].name, k>>)
    BY <1>3, <2>1 DEF Follows
  <2>6. <<tree[w].name, k>> \in Leaves
    BY <2>2 DEF Leaves
  <2> QED
    BY <2>3, <2>4, <2>5, <2>6, AppendProperties, LenProperties DEF Active, Exists
<1>4. ASSUME NEW w \in Active, tree[w].parent = None PROVE Len(tree[w].path) = 1
  <2>1. Hangs(tree, w)
    BY DEF Rooted, Active, Exists
  <2>2. PICK k \in Suffixes : tree[w].path = <<<<tree[w].name, k>>>>
    BY <1>4, <2>1 DEF Hangs
  <2> QED
    BY <2>2
<1>5. Len(tree[n].path) >= 1
  <2>1. CASE tree[n].parent = None
    BY <1>4, <2>1
  <2>2. CASE tree[n].parent # None
    <3>1. /\ Len(tree[n].path) = Len(tree[tree[n].parent].path) + 1
          /\ Len(tree[tree[n].parent].path) \in Nat
      BY <1>3, <2>2
    <3> QED
      BY <3>1
  <2> QED
    BY <2>1, <2>2
<1>6. tree[m].parent \in Active \cup {None} /\ tree[n].parent \in Active \cup {None}
  BY <1>3
<1>7. None \notin Subtree(n, Active)
  BY <1>1, NoneIsNoNode DEF Subtree, Active, Exists, Rooted, Shaped
<1>8. ASSUME tree[m].parent = None
      PROVE  m \in Subtree(n, Active) <=> m = n \/ tree[m].parent \in Subtree(n, Active)
  <2>1. ~ Under(tree[m].path, tree[n].path)
    BY <1>2, <1>4, <1>5, <1>8 DEF Under
  <2>2. m \in Subtree(n, Active) <=> m = n
    BY <2>1 DEF Subtree
  <2> QED
    BY <1>7, <1>8, <2>2
<1>9. ASSUME tree[m].parent # None
      PROVE  m \in Subtree(n, Active) <=> m = n \/ tree[m].parent \in Subtree(n, Active)
  <2> DEFINE p == tree[m].parent
  <2>1. p \in Active /\ tree[p].path \in Seq(Leaves)
    BY <1>3, <1>9
  <2>2. PICK e \in Leaves : tree[m].path = Append(tree[p].path, e)
    BY <1>3, <1>9
  <2>3. Under(tree[m].path, tree[n].path) <=> tree[p].path = tree[n].path \/ Under(tree[p].path, tree[n].path)
    BY <1>2, <2>1, <2>2, PathsExtend
  <2>4. tree[p].path = tree[n].path <=> p = n
    BY <2>1 DEF Rooted, OwnPaths, Active, Exists
  <2>5. p \in Subtree(n, Active) <=> p = n \/ Under(tree[p].path, tree[n].path)
    BY <2>1 DEF Subtree
  <2>6. m \in Subtree(n, Active) <=> m = n \/ Under(tree[m].path, tree[n].path)
    BY DEF Subtree
  <2> QED
    BY <2>3, <2>4, <2>5, <2>6
<1>10. tree[n].parent \notin Subtree(n, Active)
  <2>1. CASE tree[n].parent = None
    BY <1>7, <2>1
  <2>2. CASE tree[n].parent # None
    <3>1. /\ Len(tree[n].path) = Len(tree[tree[n].parent].path) + 1
          /\ Len(tree[tree[n].parent].path) \in Nat
      BY <1>3, <2>2
    <3>2. tree[n].parent # n
      BY <3>1
    <3>3. ~ (Len(tree[tree[n].parent].path) > Len(tree[n].path))
      <4>1. \A x \in Nat : ~ (x > x + 1)
        OBVIOUS
      <4> QED
        BY <3>1, <4>1, Zenon
    <3>4. ~ Under(tree[tree[n].parent].path, tree[n].path)
      BY <3>3 DEF Under
    <3> QED
      BY <3>2, <3>4 DEF Subtree
  <2> QED
    BY <2>1, <2>2
<1>11. tree[m].parent \notin {m}
  <2>1. CASE tree[m].parent = None
    BY <1>1, <2>1, NoneIsNoNode DEF Rooted, Shaped
  <2>2. CASE tree[m].parent # None
    BY <1>3, <2>2
  <2> QED
    BY <2>1, <2>2
<1> QED
  BY <1>6, <1>8, <1>9, <1>10, <1>11

\* A row and its parent that keep their paths.
LEMMA StillFollows ==
    ASSUME NEW t, NEW m,
           tree[m].parent # None =>
             \E k \in Suffixes :
               tree[m].path = Append(tree[tree[m].parent].path, <<tree[m].name, k>>),
           t[m].parent = tree[m].parent, t[m].name = tree[m].name, t[m].path = tree[m].path,
           tree[m].parent # None => t[tree[m].parent].path = tree[tree[m].parent].path,
           tree[m].parent # None => t[tree[m].parent].gone = 0
    PROVE  Follows(t, m)
<1> SUFFICES ASSUME t[m].parent # None
             PROVE  /\ t[t[m].parent].gone = 0
                    /\ \E k \in Suffixes :
                         t[m].path = Append(t[t[m].parent].path, <<t[m].name, k>>)
  BY DEF Follows
<1> DEFINE p == tree[m].parent
<1>1. t[p].path = tree[p].path /\ t[p].gone = 0 /\ t[m].parent = p
  OBVIOUS
<1>2. PICK k \in Suffixes : tree[m].path = Append(tree[p].path, <<tree[m].name, k>>)
  OBVIOUS
<1> HIDE DEF p
<1>3. t[m].path = Append(t[p].path, <<t[m].name, k>>)
  BY <1>1, <1>2
<1> QED
  BY <1>1, <1>3

\* Where there is an active row, the shortest path leads out.
LEMMA ActiveWayOut ==
    ASSUME TreeAssumption, NEW t, Shaped(t),
           \A n \in DOMAIN t : Hangs(t, n),
           \A n \in DOMAIN t : t[n].gone = 0 => Follows(t, n),
           NEW rows \in SUBSET DOMAIN t, \E n \in rows : t[n].gone = 0
    PROVE  \E n \in rows : t[n].parent \notin rows
<1> DEFINE some == {n \in rows : t[n].gone = 0}
<1>1. some # {} /\ some \subseteq DOMAIN t
  OBVIOUS
<1>2. \A n \in some : t[n].path \in Seq(Leaves)
  BY <1>1, RowFields
<1>3. ASSUME NEW n \in some, t[n].parent \in some
      PROVE  Len(t[t[n].parent].path) < Len(t[n].path)
  <2>1. t[n].parent \in DOMAIN t /\ t[n].parent # None /\ Follows(t, n)
    BY <1>1, <1>3, NoneIsNoNode DEF Shaped
  <2>2. PICK k \in Suffixes : t[n].path = Append(t[t[n].parent].path, <<t[n].name, k>>)
    BY <2>1 DEF Follows
  <2>3. t[n].name \in Names \cup {100, 101} /\ t[t[n].parent].path \in Seq(Leaves)
    BY <1>1, <2>1, RowFields
  <2>4. <<t[n].name, k>> \in Leaves
    BY <2>3 DEF Leaves
  <2>5. /\ Len(t[n].path) = Len(t[t[n].parent].path) + 1 /\ Len(t[t[n].parent].path) \in Nat
    BY <2>2, <2>3, <2>4, AppendProperties, LenProperties, SMTT(40)
  <2> QED
    BY <2>5
<1> HIDE DEF some
<1>4. PICK n \in some : t[n].parent \notin some
  BY <1>1, <1>2, <1>3, ShortestIsOut
<1>5. n \in DOMAIN t /\ t[n].gone = 0 /\ n \in rows
  BY DEF some
<1>6. t[n].parent = None \/ t[t[n].parent].gone = 0
  BY <1>5 DEF Follows
<1>7. None \notin rows
  BY NoneIsNoNode DEF Shaped
<1> QED
  BY <1>4, <1>5, <1>6, <1>7 DEF some

\* Where a node can be made or hung.
FolderParents == {None} \cup {q \in Active : tree[q].type = "folder"}

\* A path in a folder, and its leaf.
LEMMA NumberedIs ==
    ASSUME TreeAssumption, Rooted(tree), NEW p \in FolderParents,
           NEW name \in Names \cup {100, 101}, NEW k \in Suffixes
    PROVE  /\ Numbered(p, name, k) \in Seq(Leaves)
           /\ p = None => Numbered(p, name, k) = <<<<name, k>>>>
           /\ p # None => Numbered(p, name, k) = Append(tree[p].path, <<name, k>>)
           /\ p \in Ids \cup {None}
           /\ p # None => /\ p \in DOMAIN tree /\ tree[p].type = "folder" /\ tree[p].gone = 0
                          /\ tree[p].path \in Seq(Leaves)
<1>1. <<name, k>> \in Leaves
  BY DEF Leaves
<1>2. CASE p = None
  BY <1>1, <1>2, TopPath DEF Numbered, PathOf
<1>3. CASE p # None
  <2>1. p \in DOMAIN tree /\ tree[p].type = "folder" /\ tree[p].gone = 0
    BY <1>3 DEF FolderParents, Active, Exists
  <2>2. tree[p].path \in Seq(Leaves) /\ p \in Ids
    BY <2>1, RowFields DEF Rooted
  <2> QED
    BY <1>1, <1>3, <2>1, <2>2, AppendProperties DEF Numbered, PathOf
<1> QED
  BY <1>2, <1>3

\* A node that is made under a path no active node has (_insert_node and its callers).
LEMMA InsertKeeps ==
    ASSUME TreeAssumption, Rooted(tree), NEW n, NewId(n), NEW p \in FolderParents,
           NEW type \in Types, NEW name \in Names \cup {100, 101}, NEW k \in Suffixes,
           NEW owner \in Documents \cup Reports \cup {None},
           owner \in Documents => type = "document", owner \in Reports => type = "report_ref",
           Holders(Numbered(p, name, k), Active) = {},
           NEW t, t = Insert(n, Row(p, type, name, Numbered(p, name, k), owner))
    PROVE  Rooted(t)
<1> DEFINE path == Numbered(p, name, k)
<1>1. n \in Ids /\ n \notin DOMAIN tree
  <2>1. ASSUME n \in DOMAIN tree PROVE FALSE
    <3>1. n \in Exists \cap Nodes /\ n \in Nat
      BY <2>1 DEF NewId, Exists, TreeAssumption
    <3>2. n < n
      BY <3>1 DEF NewId
    <3> QED
      BY <3>1, <3>2
  <2> QED
    BY <2>1 DEF NewId, Ids
<1>2. /\ path \in Seq(Leaves) /\ p \in Ids \cup {None}
      /\ p = None => path = <<<<name, k>>>>
      /\ p # None => path = Append(tree[p].path, <<name, k>>)
      /\ p # None => p \in DOMAIN tree /\ tree[p].type = "folder" /\ tree[p].gone = 0
  <2>1. Numbered(p, name, k) \in Seq(Leaves) /\ p \in Ids \cup {None}
    BY NumberedIs
  <2>2. p = None => Numbered(p, name, k) = <<<<name, k>>>>
    BY NumberedIs
  <2>3. p # None => Numbered(p, name, k) = Append(tree[p].path, <<name, k>>)
    BY NumberedIs
  <2>4. p # None => p \in DOMAIN tree /\ tree[p].type = "folder" /\ tree[p].gone = 0
    BY NumberedIs
  <2> QED
    BY <2>1, <2>2, <2>3, <2>4
<1>3. \A m \in DOMAIN tree : tree[m].gone = 0 => tree[m].path # path
  BY DEF Holders, Active, Exists
<1>4. /\ DOMAIN t = DOMAIN tree \cup {n}
      /\ t = [m \in DOMAIN t |-> t[m]]
      /\ \A m \in DOMAIN tree : t[m] = tree[m]
      /\ t[n] = Row(p, type, name, path, owner)
  BY <1>1 DEF Insert, Exists
<1> HIDE DEF path
<1>5. /\ t[n].parent = p /\ t[n].type = type /\ t[n].name = name /\ t[n].path = path
      /\ t[n].gone = 0 /\ t[n].owner = owner
      /\ t[n] \in NodeRow
  BY <1>2, <1>4 DEF Row, NodeRow
<1>6. Shaped(t)
  BY <1>1, <1>4, <1>5 DEF Rooted, Shaped
<1>7. ASSUME NEW m \in DOMAIN tree, tree[m].parent # None
      PROVE  tree[m].parent \in DOMAIN tree
  BY <1>7 DEF Rooted, Hangs
<1>8. \A m \in DOMAIN t : Hangs(t, m)
  <2>1. ASSUME NEW m \in DOMAIN tree PROVE Hangs(t, m)
    <3>1. Hangs(tree, m)
      BY DEF Rooted
    <3> QED
      BY <1>4, <1>7, <3>1 DEF Hangs
  <2>2. Hangs(t, n)
    <3>1. p # None => t[p] = tree[p] /\ p \in DOMAIN t
      BY <1>2, <1>4
    <3> QED
      BY <1>2, <1>5, <3>1 DEF Hangs
  <2> QED
    BY <1>4, <2>1, <2>2
<1>9. \A m \in DOMAIN t : t[m].gone = 0 => Follows(t, m)
  <2>1. ASSUME NEW m \in DOMAIN tree, t[m].gone = 0 PROVE Follows(t, m)
    <3>1. Follows(tree, m)
      BY <1>4, <2>1 DEF Rooted
    <3> QED
      BY <1>4, <1>7, <3>1, SMTT(40) DEF Follows
  <2>2. Follows(t, n)
    <3>1. p # None => t[p] = tree[p]
      BY <1>2, <1>4
    <3> QED
      BY <1>2, <1>5, <3>1 DEF Follows
  <2> QED
    BY <1>4, <2>1, <2>2
<1>10. OwnPaths(t)
  <2> SUFFICES ASSUME NEW m \in DOMAIN t, NEW l \in DOMAIN t, t[m].gone = 0, t[l].gone = 0,
                      t[m].path = t[l].path
               PROVE  m = l
    BY DEF OwnPaths
  <2>1. CASE m \in DOMAIN tree /\ l \in DOMAIN tree
    BY <1>4, <2>1 DEF Rooted, OwnPaths
  <2>2. CASE m = n \/ l = n
    BY <1>3, <1>4, <1>5, <2>2
  <2> QED
    BY <1>4, <2>1, <2>2
<1>11. WayOut(t)
  <2> SUFFICES ASSUME NEW rows \in SUBSET DOMAIN t, rows # {}
               PROVE  \E m \in rows : t[m].parent \notin rows
    BY DEF WayOut
  <2>1. CASE n \in rows
    BY <1>5, <1>6, <1>8, <1>9, <2>1, ActiveWayOut
  <2>2. CASE n \notin rows
    <3>1. rows \in SUBSET DOMAIN tree
      BY <1>4, <2>2
    <3>2. PICK m \in rows : tree[m].parent \notin rows
      BY <3>1 DEF Rooted, WayOut
    <3> QED
      BY <1>4, <3>1, <3>2
  <2> QED
    BY <2>1, <2>2
<1> QED
  BY <1>6, <1>8, <1>9, <1>10, <1>11 DEF Rooted

\* Rows that are deleted or brought back keep everything else.
LEMMA GoneFields ==
    ASSUME TreeAssumption, Rooted(tree), NEW rows, NEW g \in 0 .. 2,
           g = 0 \/ rows \cap Roots = {}, NEW t, t = SetGone(rows, g)
    PROVE  /\ DOMAIN t = DOMAIN tree
           /\ \A m \in DOMAIN tree :
                /\ t[m].parent = tree[m].parent /\ t[m].type = tree[m].type
                /\ t[m].name = tree[m].name /\ t[m].path = tree[m].path
                /\ t[m].owner = tree[m].owner
                /\ t[m].gone = IF m \in rows THEN g ELSE tree[m].gone
           /\ Shaped(t) /\ WayOut(t)
<1>1. /\ DOMAIN t = DOMAIN tree /\ t = [m \in DOMAIN t |-> t[m]]
      /\ \A m \in DOMAIN tree : t[m] = IF m \in rows THEN [tree[m] EXCEPT !.gone = g] ELSE tree[m]
  BY DEF SetGone, Exists
<1>2. ASSUME NEW m \in DOMAIN tree
      PROVE  /\ t[m].parent = tree[m].parent /\ t[m].type = tree[m].type
             /\ t[m].name = tree[m].name /\ t[m].path = tree[m].path
             /\ t[m].owner = tree[m].owner
             /\ t[m].gone = IF m \in rows THEN g ELSE tree[m].gone
             /\ t[m] \in NodeRow
  <2>1. tree[m] \in NodeRow
    BY RowFields DEF Rooted
  <2> QED
    BY <1>1, <2>1 DEF NodeRow
<1>3. ASSUME NEW r \in Roots PROVE t[r] = RootRow(r)
  <2>1. r \in DOMAIN tree /\ tree[r] = RootRow(r)
    BY DEF Rooted, Shaped
  <2>2. [tree[r] EXCEPT !.gone = 0] = tree[r]
    BY <2>1 DEF RootRow, Row
  <2> QED
    BY <1>1, <2>1, <2>2
<1>4. Shaped(t)
  BY <1>1, <1>2, <1>3 DEF Rooted, Shaped
<1>5. WayOut(t)
  BY <1>1, <1>2 DEF Rooted, WayOut
<1> QED
  BY <1>1, <1>2, <1>4, <1>5

\* Rows that are deleted with every active row below them (delete_node, and the
\* soft-deletion of the node of an older document).
LEMMA DeletingKeeps ==
    ASSUME TreeAssumption, Rooted(tree), NEW rows, rows \subseteq Active, rows \cap Roots = {},
           \A m \in Active : tree[m].parent \in rows => m \in rows,
           NEW t, t = SetGone(rows, 1)
    PROVE  Rooted(t)
<1>1. /\ DOMAIN t = DOMAIN tree
      /\ \A m \in DOMAIN tree :
           /\ t[m].parent = tree[m].parent /\ t[m].type = tree[m].type
           /\ t[m].name = tree[m].name /\ t[m].path = tree[m].path
           /\ t[m].owner = tree[m].owner
           /\ t[m].gone = IF m \in rows THEN 1 ELSE tree[m].gone
      /\ Shaped(t) /\ WayOut(t)
  BY GoneFields
<1>2. ASSUME NEW m \in DOMAIN tree PROVE Hangs(t, m)
  <2>1. Hangs(tree, m)
    BY DEF Rooted
  <2>2. ASSUME tree[m].parent # None
        PROVE  /\ tree[m].parent \in DOMAIN t /\ t[tree[m].parent].type = "folder"
               /\ t[m].gone >= t[tree[m].parent].gone
    <3> DEFINE p == tree[m].parent
    <3>1. p \in DOMAIN tree /\ tree[p].type = "folder" /\ tree[m].gone >= tree[p].gone
      BY <2>1, <2>2 DEF Hangs
    <3>2. tree[m].gone \in 0 .. 2 /\ tree[p].gone \in 0 .. 2
      BY <3>1, RowFields DEF Rooted
    <3>3. m \in rows => tree[m].gone = 0
      BY DEF Active
    <3>4. p \in rows /\ tree[m].gone = 0 => m \in rows
      BY DEF Active, Exists
    <3> HIDE DEF p
    <3>5. t[m].gone >= t[p].gone
      <4>1. /\ t[m].gone = IF m \in rows THEN 1 ELSE tree[m].gone
            /\ t[p].gone = IF p \in rows THEN 1 ELSE tree[p].gone
        BY <1>1, <3>1
      <4> QED
        BY <3>1, <3>2, <3>3, <3>4, <4>1
    <3> QED
      BY <1>1, <3>1, <3>5 DEF p
  <2> QED
    BY <1>1, <2>1, <2>2 DEF Hangs
<1>3. ASSUME NEW m \in DOMAIN tree, t[m].gone = 0 PROVE Follows(t, m)
  <2>1. m \notin rows /\ tree[m].gone = 0
    BY <1>1, <1>3
  <2>2. Follows(tree, m) /\ Hangs(tree, m)
    BY <2>1 DEF Rooted
  <2>3. ASSUME tree[m].parent # None
        PROVE  tree[m].parent \in DOMAIN tree /\ tree[m].parent \notin rows
    BY <2>1, <2>2, <2>3 DEF Hangs, Active, Exists
  <2>4. ASSUME tree[m].parent # None
        PROVE  /\ t[tree[m].parent].path = tree[tree[m].parent].path
               /\ t[tree[m].parent].gone = 0
    BY <1>1, <2>2, <2>3, <2>4 DEF Follows
  <2>7. t[m].parent = tree[m].parent /\ t[m].name = tree[m].name /\ t[m].path = tree[m].path
    BY <1>1
  <2>8. tree[m].parent # None =>
          \E k \in Suffixes :
            tree[m].path = Append(tree[tree[m].parent].path, <<tree[m].name, k>>)
    BY <2>2 DEF Follows
  <2>9. /\ tree[m].parent # None => t[tree[m].parent].path = tree[tree[m].parent].path
        /\ tree[m].parent # None => t[tree[m].parent].gone = 0
    BY <2>4
  <2> QED
    BY <2>7, <2>8, <2>9, StillFollows
<1>4. OwnPaths(t)
  <2>1. \A m \in DOMAIN tree : t[m].gone = 0 => tree[m].gone = 0 /\ t[m].path = tree[m].path
    BY <1>1
  <2> QED
    BY <1>1, <2>1 DEF Rooted, OwnPaths
<1> QED
  BY <1>1, <1>2, <1>3, <1>4 DEF Rooted

\* Deleted rows that grow old.
LEMMA AgeingKeeps ==
    ASSUME TreeAssumption, Rooted(tree),
           NEW t, t = SetGone({m \in Exists : tree[m].gone = 1}, 2)
    PROVE  Rooted(t)
<1> DEFINE rows == {m \in Exists : tree[m].gone = 1}
<1>0. rows \cap Roots = {}
  <2>1. ASSUME NEW r \in Roots PROVE tree[r].gone = 0
    <3>1. tree[r] = RootRow(r)
      BY DEF Rooted, Shaped
    <3> QED
      BY <3>1 DEF RootRow, Row
  <2> QED
    BY <2>1
<1>1. /\ DOMAIN t = DOMAIN tree
      /\ \A m \in DOMAIN tree :
           /\ t[m].parent = tree[m].parent /\ t[m].type = tree[m].type
           /\ t[m].name = tree[m].name /\ t[m].path = tree[m].path
           /\ t[m].owner = tree[m].owner
           /\ t[m].gone = IF m \in rows THEN 2 ELSE tree[m].gone
      /\ Shaped(t) /\ WayOut(t)
  BY <1>0, GoneFields
<1>2. \A m \in DOMAIN tree : t[m].gone = IF tree[m].gone = 1 THEN 2 ELSE tree[m].gone
  BY <1>1 DEF Exists
<1>3. \A m \in DOMAIN tree : tree[m].gone \in 0 .. 2
  BY RowFields DEF Rooted
<1>4. \A m, p \in DOMAIN tree : tree[m].gone >= tree[p].gone => t[m].gone >= t[p].gone
  BY <1>2, <1>3
<1>5. \A m \in DOMAIN tree : t[m].gone = 0 <=> tree[m].gone = 0
  BY <1>2, <1>3
<1> HIDE DEF rows
<1>6. ASSUME NEW m \in DOMAIN tree PROVE Hangs(t, m)
  <2>1. Hangs(tree, m)
    BY DEF Rooted
  <2> QED
    BY <1>1, <1>4, <2>1 DEF Hangs
<1>7. ASSUME NEW m \in DOMAIN tree, t[m].gone = 0 PROVE Follows(t, m)
  <2>1. Follows(tree, m) /\ Hangs(tree, m)
    BY <1>5, <1>7 DEF Rooted
  <2>2. ASSUME tree[m].parent # None
        PROVE  /\ t[tree[m].parent].path = tree[tree[m].parent].path
               /\ t[tree[m].parent].gone = 0
    BY <1>1, <1>5, <2>1, <2>2 DEF Follows, Hangs
  <2>7. t[m].parent = tree[m].parent /\ t[m].name = tree[m].name /\ t[m].path = tree[m].path
    BY <1>1
  <2>8. tree[m].parent # None =>
          \E k \in Suffixes :
            tree[m].path = Append(tree[tree[m].parent].path, <<tree[m].name, k>>)
    BY <2>1 DEF Follows
  <2>9. /\ tree[m].parent # None => t[tree[m].parent].path = tree[tree[m].parent].path
        /\ tree[m].parent # None => t[tree[m].parent].gone = 0
    BY <2>2
  <2> QED
    BY <2>7, <2>8, <2>9, StillFollows
<1>8. OwnPaths(t)
  BY <1>1, <1>5 DEF Rooted, OwnPaths
<1> QED
  BY <1>1, <1>6, <1>7, <1>8 DEF Rooted

\* A subtree that comes back while its rows hang where their paths say
\* (restore_node).
LEMMA RestoringKeeps ==
    ASSUME TreeAssumption, Rooted(tree), NEW n \in DOMAIN tree, Untouched(n),
           NEW own, own = Subtree(n, Exists),
           \A m \in own : Available(tree[m].path, own),
           \A m, k \in own : tree[m].path = tree[k].path => m = k,
           NEW t, t = SetGone(own, 0)
    PROVE  Rooted(t)
<1>0. own \subseteq DOMAIN tree
  BY DEF Subtree, Exists
<1>1. /\ DOMAIN t = DOMAIN tree
      /\ \A m \in DOMAIN tree :
           /\ t[m].parent = tree[m].parent /\ t[m].type = tree[m].type
           /\ t[m].name = tree[m].name /\ t[m].path = tree[m].path
           /\ t[m].owner = tree[m].owner
           /\ t[m].gone = IF m \in own THEN 0 ELSE tree[m].gone
      /\ Shaped(t) /\ WayOut(t)
  BY GoneFields
<1>2. ASSUME NEW m \in own, tree[m].parent # None
      PROVE  /\ tree[m].parent \in DOMAIN tree /\ t[tree[m].parent].gone = 0
             /\ \E k \in Suffixes :
                  tree[m].path = Append(tree[tree[m].parent].path, <<tree[m].name, k>>)
  <2>1. /\ tree[m].parent \in Active \cup own
        /\ \E k \in Suffixes :
             tree[m].path = Append(PathOf(tree[m].parent), <<tree[m].name, k>>)
    BY <1>2 DEF Untouched
  <2>2. tree[m].parent \in DOMAIN tree
    BY <1>0, <2>1 DEF Active, Exists
  <2>3. t[tree[m].parent].gone = 0
    BY <1>1, <2>1, <2>2 DEF Active
  <2> QED
    BY <1>2, <2>1, <2>2, <2>3 DEF PathOf
<1>3. ASSUME NEW m \in DOMAIN tree PROVE Hangs(t, m)
  <2>1. Hangs(tree, m)
    BY DEF Rooted
  <2>2. ASSUME tree[m].parent # None
        PROVE  t[m].gone >= t[tree[m].parent].gone /\ tree[m].parent \in DOMAIN tree
    <3> DEFINE p == tree[m].parent
    <3>1. p \in DOMAIN tree /\ tree[m].gone >= tree[p].gone
      BY <2>1, <2>2 DEF Hangs
    <3>2. tree[m].gone \in 0 .. 2 /\ tree[p].gone \in 0 .. 2
      BY <3>1, RowFields DEF Rooted
    <3>3. m \in own => t[p].gone = 0
      BY <1>2, <2>2
    <3> HIDE DEF p
    <3>4. /\ t[m].gone = IF m \in own THEN 0 ELSE tree[m].gone
          /\ t[p].gone = IF p \in own THEN 0 ELSE tree[p].gone
      BY <1>1, <3>1
    <3>5. t[m].gone >= t[p].gone
      BY <3>1, <3>2, <3>3, <3>4
    <3> QED
      BY <3>1, <3>5 DEF p
  <2> QED
    BY <1>1, <2>1, <2>2 DEF Hangs
<1>4. ASSUME NEW m \in DOMAIN tree, t[m].gone = 0 PROVE Follows(t, m)
  <2>1. CASE m \in own
    <3>1. ASSUME tree[m].parent # None
          PROVE  /\ t[tree[m].parent].path = tree[tree[m].parent].path
                 /\ t[tree[m].parent].gone = 0
                 /\ \E k \in Suffixes :
                      tree[m].path = Append(tree[tree[m].parent].path, <<tree[m].name, k>>)
      BY <1>1, <1>2, <2>1, <3>1
    <3>7. t[m].parent = tree[m].parent /\ t[m].name = tree[m].name /\ t[m].path = tree[m].path
      BY <1>1
    <3>8. tree[m].parent # None =>
            \E k \in Suffixes :
              tree[m].path = Append(tree[tree[m].parent].path, <<tree[m].name, k>>)
      BY <3>1
    <3>9. /\ tree[m].parent # None => t[tree[m].parent].path = tree[tree[m].parent].path
          /\ tree[m].parent # None => t[tree[m].parent].gone = 0
      BY <3>1
    <3> QED
      BY <3>7, <3>8, <3>9, StillFollows
  <2>2. CASE m \notin own
    <3>1. Follows(tree, m) /\ Hangs(tree, m)
      BY <1>1, <1>4, <2>2 DEF Rooted
    <3>2. ASSUME tree[m].parent # None
          PROVE  /\ t[tree[m].parent].path = tree[tree[m].parent].path
                 /\ t[tree[m].parent].gone = 0
      BY <1>1, <3>1, <3>2 DEF Follows, Hangs
    <3>7. t[m].parent = tree[m].parent /\ t[m].name = tree[m].name /\ t[m].path = tree[m].path
      BY <1>1
    <3>8. tree[m].parent # None =>
            \E k \in Suffixes :
              tree[m].path = Append(tree[tree[m].parent].path, <<tree[m].name, k>>)
      BY <3>1 DEF Follows
    <3>9. /\ tree[m].parent # None => t[tree[m].parent].path = tree[tree[m].parent].path
          /\ tree[m].parent # None => t[tree[m].parent].gone = 0
      BY <3>2
    <3> QED
      BY <3>7, <3>8, <3>9, StillFollows
  <2> QED
    BY <2>1, <2>2
<1>5. OwnPaths(t)
  <2> SUFFICES ASSUME NEW m \in DOMAIN tree, NEW l \in DOMAIN tree, t[m].gone = 0, t[l].gone = 0,
                      tree[m].path = tree[l].path
               PROVE  m = l
    BY <1>1 DEF OwnPaths
  <2>1. \A w \in DOMAIN tree \ own : t[w].gone = 0 => w \in Active \ own
    BY <1>1 DEF Active, Exists
  <2>2. \A w \in own : \A v \in Active \ own : tree[w].path # tree[v].path
    BY DEF Available, Holders
  <2>3. CASE m \in own /\ l \in own
    BY <2>3
  <2>4. CASE m \notin own /\ l \notin own
    BY <2>1, <2>4 DEF Rooted, OwnPaths, Active, Exists
  <2> QED
    BY <2>1, <2>2, <2>3, <2>4
<1> QED
  BY <1>1, <1>3, <1>4, <1>5 DEF Rooted

\* Rows that go and leave no child behind (purge, and the row of a deleted report).
LEMMA WithoutKeeps ==
    ASSUME TreeAssumption, Rooted(tree), NEW rows, rows \cap Roots = {},
           \A m \in DOMAIN tree \ rows : tree[m].parent \notin rows,
           NEW t, t = Without(rows)
    PROVE  Rooted(t)
<1>1. /\ DOMAIN t = DOMAIN tree \ rows /\ t = [m \in DOMAIN t |-> t[m]]
      /\ \A m \in DOMAIN t : t[m] = tree[m]
  BY DEF Without, Exists
<1>2. Shaped(t)
  BY <1>1 DEF Rooted, Shaped
<1>3. ASSUME NEW m \in DOMAIN t
      PROVE  Hangs(t, m) /\ (t[m].gone = 0 => Follows(t, m))
  <2>1. Hangs(tree, m) /\ (tree[m].gone = 0 => Follows(tree, m))
    BY <1>1 DEF Rooted
  <2>2. tree[m].parent # None => tree[m].parent \in DOMAIN t
    BY <1>1, <2>1 DEF Hangs
  <2> QED
    BY <1>1, <2>1, <2>2 DEF Hangs, Follows
<1>4. OwnPaths(t)
  BY <1>1 DEF Rooted, OwnPaths
<1>5. WayOut(t)
  <2> SUFFICES ASSUME NEW some \in SUBSET DOMAIN t, some # {}
               PROVE  \E m \in some : t[m].parent \notin some
    BY DEF WayOut
  <2>1. some \in SUBSET DOMAIN tree
    BY <1>1
  <2>2. PICK m \in some : tree[m].parent \notin some
    BY <2>1 DEF Rooted, WayOut
  <2> QED
    BY <1>1, <2>2
<1> QED
  BY <1>2, <1>3, <1>4, <1>5 DEF Rooted

\* A row that is changed in one field or three.
Rerow(row, p, name, path) == [row EXCEPT !.parent = p, !.name = name, !.path = path]
LEMMA RowChanged ==
    ASSUME NEW row \in NodeRow, NEW p \in Ids \cup {None}, NEW name \in Names \cup {100, 101},
           NEW path \in Seq(Leaves)
    PROVE  LET new == Rerow(row, p, name, path)
           IN  /\ new.parent = p /\ new.name = name /\ new.path = path
               /\ new.type = row.type /\ new.gone = row.gone /\ new.owner = row.owner
               /\ new \in NodeRow
<1> DEFINE S == Seq(Leaves)
           I == Ids \cup {None}
           O == Documents \cup Reports \cup {None}
           Called == Names \cup {100, 101}
           new == Rerow(row, p, name, path)
<1>1. NodeRow = [parent : I, type : Types, name : Called, path : S, gone : 0 .. 2, owner : O]
  BY DEF NodeRow
<1>2. p \in I /\ name \in Called /\ path \in S
  OBVIOUS
<1>0. new = [row EXCEPT !.parent = p, !.name = name, !.path = path]
  BY DEF Rerow
<1> HIDE DEF S, I, O, Called, new
<1>3. new = [parent |-> p, type |-> row.type, name |-> name, path |-> path,
             gone |-> row.gone, owner |-> row.owner]
  BY <1>0, <1>1
<1>4. /\ new.parent = p /\ new.name = name /\ new.path = path
      /\ new.type = row.type /\ new.gone = row.gone /\ new.owner = row.owner
      /\ new \in NodeRow
  BY <1>1, <1>2, <1>3
<1> QED
  BY <1>4 DEF new

LEMMA RowRepathed ==
    ASSUME NEW row \in NodeRow, NEW path \in Seq(Leaves), NEW new, new = [row EXCEPT !.path = path]
    PROVE  /\ new.parent = row.parent /\ new.name = row.name /\ new.path = path
           /\ new.type = row.type /\ new.gone = row.gone /\ new.owner = row.owner
           /\ new \in NodeRow
<1> DEFINE S == Seq(Leaves)
           I == Ids \cup {None}
           O == Documents \cup Reports \cup {None}
           Called == Names \cup {100, 101}
<1>1. NodeRow = [parent : I, type : Types, name : Called, path : S, gone : 0 .. 2, owner : O]
  BY DEF NodeRow
<1>2. path \in S
  OBVIOUS
<1> HIDE DEF S, I, O, Called
<1>3. new = [parent |-> row.parent, type |-> row.type, name |-> row.name, path |-> path,
             gone |-> row.gone, owner |-> row.owner]
  BY <1>1
<1> QED
  BY <1>1, <1>2, <1>3

\* A node that is hung elsewhere with its active subtree (update_node and move_node):
\* nothing is hung below itself, and no path is taken.
LEMMA MovedFields ==
    ASSUME TreeAssumption, Rooted(tree), NEW n \in Active, NEW p, NEW name, NEW path \in Seq(Leaves),
           p \in Ids \cup {None}, name \in Names \cup {100, 101},
           NEW own, own = Subtree(n, Active), NEW t, t = Moved(n, p, name, path)
    PROVE  /\ DOMAIN t = DOMAIN tree /\ t = [m \in DOMAIN t |-> t[m]]
           /\ own \subseteq Active /\ n \in own
           /\ t[n].parent = p /\ t[n].name = name /\ t[n].path = path
           /\ \A m \in DOMAIN tree :
                /\ t[m] \in NodeRow
                /\ t[m].type = tree[m].type /\ t[m].gone = tree[m].gone
                /\ t[m].owner = tree[m].owner
                /\ m # n => t[m].parent = tree[m].parent /\ t[m].name = tree[m].name
                /\ m \notin own => t[m] = tree[m]
                /\ m \in own => /\ tree[m].path = tree[n].path \/ Under(tree[m].path, tree[n].path)
                                /\ t[m].path = Replanted(path, tree[n].path, tree[m].path)
<1> DEFINE old == tree[n].path
<1>1. own \subseteq Active /\ n \in own /\ Active \subseteq DOMAIN tree
  BY DEF Subtree, Active, Exists
<1>2. /\ DOMAIN t = DOMAIN tree /\ t = [m \in DOMAIN t |-> t[m]]
      /\ \A m \in DOMAIN tree :
           t[m] = IF m = n THEN [tree[n] EXCEPT !.parent = p, !.name = name, !.path = path]
                  ELSE IF m \in own
                       THEN [tree[m] EXCEPT !.path = path \o SubSeq(tree[m].path, Len(old) + 1, Len(tree[m].path))]
                  ELSE tree[m]
  <2>1. t = [m \in DOMAIN tree |->
               IF m = n THEN [tree[n] EXCEPT !.parent = p, !.name = name, !.path = path]
               ELSE IF m \in own
                    THEN [tree[m] EXCEPT !.path = path \o SubSeq(tree[m].path, Len(old) + 1, Len(tree[m].path))]
               ELSE tree[m]]
    BY DEF Moved, Exists
  <2> QED
    BY <2>1
<1> HIDE DEF old
<1>3. \A m \in own : tree[m].path = tree[n].path \/ Under(tree[m].path, tree[n].path)
  BY DEF Subtree
<1>4. ASSUME NEW m \in DOMAIN tree
      PROVE  /\ tree[m] \in NodeRow /\ tree[m].path \in Seq(Leaves)
             /\ tree[m] = [tree[m] EXCEPT !.gone = tree[m].gone]
  BY RowFields DEF Rooted, NodeRow
<1>5. old \in Seq(Leaves)
  BY <1>1, <1>4 DEF old
<1>6. t[n] = [tree[n] EXCEPT !.parent = p, !.name = name, !.path = path]
  BY <1>1, <1>2
<1>7. /\ t[n].parent = p /\ t[n].name = name /\ t[n].path = path
      /\ t[n].type = tree[n].type /\ t[n].gone = tree[n].gone /\ t[n].owner = tree[n].owner
      /\ t[n] \in NodeRow
  <2>1. tree[n] \in NodeRow
    BY <1>1, <1>4
  <2> DEFINE row == tree[n]
             new == t[n]
  <2>2. row \in NodeRow /\ new = Rerow(row, p, name, path)
    BY <1>6, <2>1 DEF Rerow
  <2> HIDE DEF row, new
  <2>3. /\ new.parent = p /\ new.name = name /\ new.path = path
        /\ new.type = row.type /\ new.gone = row.gone /\ new.owner = row.owner
        /\ new \in NodeRow
    BY <2>2, RowChanged, SMTT(40)
  <2> QED
    BY <2>3 DEF row, new
<1>8. Replanted(path, old, old) = path
  <2>1. Len(old) + 1 \in Int /\ Len(old) \in Int /\ Len(old) < Len(old) + 1
    BY <1>5, LenProperties
  <2>2. SubSeq(old, Len(old) + 1, Len(old)) = << >>
    BY <2>1, SubSeqEmpty
  <2> QED
    BY <2>2, ConcatEmptySeq DEF Replanted
<1>9. ASSUME NEW m \in own, m # n
      PROVE  /\ t[m].parent = tree[m].parent /\ t[m].name = tree[m].name
             /\ t[m].path = Replanted(path, old, tree[m].path)
             /\ t[m].type = tree[m].type /\ t[m].gone = tree[m].gone
             /\ t[m].owner = tree[m].owner /\ t[m] \in NodeRow
  <2> DEFINE new == Replanted(path, old, tree[m].path)
  <2>1. m \in DOMAIN tree
    BY <1>1
  <2>2. tree[m] \in NodeRow /\ tree[m].path \in Seq(Leaves)
    BY <1>4, <2>1
  <2>3. t[m] = [tree[m] EXCEPT !.path = new]
    BY <1>2, <1>9, <2>1, ZenonT(40) DEF Replanted
  <2>4. \E e \in Leaves : TRUE
    <3>1. <<100, 1>> \in Leaves
      BY DEF TreeAssumption, Leaves
    <3> QED
      BY <3>1
  <2>5. new \in Seq(Leaves)
    <3>1. tree[m].path = old \/ Under(tree[m].path, old)
      BY <1>3 DEF old
    <3> QED
      BY <1>5, <2>2, <2>4, <3>1, PathsReplant
  <2> HIDE DEF new
  <2>6. /\ t[m].parent = tree[m].parent /\ t[m].name = tree[m].name /\ t[m].path = new
        /\ t[m].type = tree[m].type /\ t[m].gone = tree[m].gone
        /\ t[m].owner = tree[m].owner /\ t[m] \in NodeRow
    BY <2>2, <2>3, <2>5, RowRepathed
  <2> QED
    BY <2>6 DEF new
<1>10. ASSUME NEW m \in DOMAIN tree
      PROVE  /\ t[m] \in NodeRow
             /\ t[m].type = tree[m].type /\ t[m].gone = tree[m].gone
             /\ t[m].owner = tree[m].owner
             /\ m # n => t[m].parent = tree[m].parent /\ t[m].name = tree[m].name
             /\ m \notin own => t[m] = tree[m]
             /\ m \in own => /\ tree[m].path = tree[n].path \/ Under(tree[m].path, tree[n].path)
                             /\ t[m].path = Replanted(path, tree[n].path, tree[m].path)
  <2>1. CASE m = n
    BY <1>1, <1>3, <1>7, <1>8, <2>1 DEF old
  <2>2. CASE m # n /\ m \in own
    BY <1>3, <1>9, <2>2 DEF old
  <2>3. CASE m \notin own
    <3>1. t[m] = tree[m] /\ m # n
      BY <1>1, <1>2, <2>3
    <3> QED
      BY <1>4, <2>3, <3>1
  <2> QED
    BY <2>1, <2>2, <2>3
<1> QED
  BY <1>1, <1>2, <1>7, <1>10

LEMMA MovingKeeps ==
    ASSUME TreeAssumption, Rooted(tree), NEW n \in Active, n \notin Roots, NEW p \in FolderParents,
           p \notin Subtree(n, Active), NEW name \in Names \cup {100, 101},
           Fits(n, p, name, Join(p, name)),
           NEW t, t = Moved(n, p, name, Join(p, name))
    PROVE  Rooted(t)
<1> DEFINE own == Subtree(n, Active)
           path == Join(p, name)
           old == tree[n].path
<1>1. /\ path \in Seq(Leaves) /\ p \in Ids \cup {None} /\ 1 \in Suffixes
      /\ p = None => path = <<<<name, 1>>>>
      /\ p # None => path = Append(tree[p].path, <<name, 1>>)
      /\ p # None => p \in DOMAIN tree /\ tree[p].type = "folder" /\ tree[p].gone = 0
  <2>1. 1 \in Suffixes
    BY DEF TreeAssumption
  <2>2. path = Numbered(p, name, 1)
    BY DEF Join, Numbered
  <2>3. /\ Numbered(p, name, 1) \in Seq(Leaves) /\ p \in Ids \cup {None}
        /\ p = None => Numbered(p, name, 1) = <<<<name, 1>>>>
        /\ p # None => Numbered(p, name, 1) = Append(tree[p].path, <<name, 1>>)
    BY <2>1, NumberedIs
  <2>4. p # None => p \in DOMAIN tree /\ tree[p].type = "folder" /\ tree[p].gone = 0
    BY <2>1, NumberedIs
  <2> QED
    BY <2>1, <2>2, <2>3, <2>4
<1>2. \A m \in own : \A l \in Active \ own : tree[l].path # t[m].path
  BY DEF Fits, Available, Holders
<1>3. p \notin own
  OBVIOUS
<1>4. ASSUME NEW m \in Active
      PROVE  /\ (m \in own) <=> (m = n \/ tree[m].parent \in own)
             /\ tree[m].parent # m /\ tree[m].parent \in Active \cup {None}
  BY SubtreeHangs
<1>5. None \notin own /\ None \notin DOMAIN tree
  BY NoneIsNoNode DEF Rooted, Shaped, Subtree, Active, Exists
<1> HIDE DEF own, path
<1>6. /\ DOMAIN t = DOMAIN tree /\ t = [m \in DOMAIN t |-> t[m]]
      /\ own \subseteq Active /\ n \in own
      /\ t[n].parent = p /\ t[n].name = name /\ t[n].path = path
      /\ \A m \in DOMAIN tree :
           /\ t[m] \in NodeRow
           /\ t[m].type = tree[m].type /\ t[m].gone = tree[m].gone
           /\ t[m].owner = tree[m].owner
           /\ m # n => t[m].parent = tree[m].parent /\ t[m].name = tree[m].name
           /\ m \notin own => t[m] = tree[m]
           /\ m \in own => /\ tree[m].path = old \/ Under(tree[m].path, old)
                           /\ t[m].path = Replanted(path, old, tree[m].path)
  BY <1>1, MovedFields DEF own, path
<1>7. Active \subseteq DOMAIN tree /\ \A m \in DOMAIN tree : m \in Active <=> tree[m].gone = 0
  BY DEF Active, Exists
<1>8. \A m \in DOMAIN tree : tree[m].path \in Seq(Leaves) /\ tree[m].name \in Names \cup {100, 101}
  BY RowFields DEF Rooted
<1>9. old \in Seq(Leaves)
  BY <1>7, <1>8
<1> HIDE DEF old
<1>10. Roots \cap own = {}
  <2>1. ASSUME NEW r \in Roots, r \in own PROVE FALSE
    <3>1. tree[r] = RootRow(r)
      BY DEF Rooted, Shaped
    <3>2. tree[r].parent = None /\ r # n
      BY <3>1 DEF RootRow, Row
    <3> QED
      BY <1>4, <1>5, <1>6, <2>1, <3>2
  <2> QED
    BY <2>1
<1>11. Shaped(t)
  <2>1. \A r \in Roots : t[r] = RootRow(r)
    BY <1>6, <1>10 DEF Rooted, Shaped
  <2> QED
    BY <1>6, <2>1 DEF Rooted, Shaped
<1>12. ASSUME NEW m \in DOMAIN tree PROVE Hangs(t, m)
  <2>1. Hangs(tree, m)
    BY DEF Rooted
  <2>2. /\ t[m].type = tree[m].type /\ t[m].gone = tree[m].gone /\ t[m].owner = tree[m].owner
    BY <1>6
  <2>3. CASE m = n
    <3>1. p # None => t[p].type = "folder" /\ t[p].gone = 0 /\ p \in DOMAIN t
      BY <1>1, <1>6
    <3>2. t[n].gone = 0
      BY <1>6, <1>7
    <3> QED
      BY <1>1, <1>6, <2>1, <2>2, <2>3, <3>1, <3>2 DEF Hangs
  <2>4. CASE m # n
    <3>1. t[m].parent = tree[m].parent /\ t[m].name = tree[m].name
      BY <1>6, <2>4
    <3>2. tree[m].parent = None => t[m].path = tree[m].path
      <4>1. ASSUME tree[m].parent = None, m \in own PROVE FALSE
        BY <1>4, <1>5, <1>6, <2>4, <4>1
      <4> QED
        BY <1>6, <4>1
    <3>3. tree[m].parent # None => /\ tree[m].parent \in DOMAIN t
                                   /\ t[tree[m].parent].type = "folder"
                                   /\ t[m].gone >= t[tree[m].parent].gone
      BY <1>6, <2>1 DEF Hangs
    <3> QED
      BY <2>1, <2>2, <3>1, <3>2, <3>3 DEF Hangs
  <2> QED
    BY <2>3, <2>4
<1>13. ASSUME NEW m \in DOMAIN tree, t[m].gone = 0 PROVE Follows(t, m)
  <2>1. m \in Active /\ Follows(tree, m) /\ Hangs(tree, m)
    BY <1>6, <1>7, <1>13 DEF Rooted
  <2>2. CASE m = n
    <3>1. p # None => t[p] = tree[p]
      BY <1>1, <1>3, <1>6 DEF own
    <3>2. ASSUME p # None
          PROVE  t[p].gone = 0 /\ t[n].path = Append(t[p].path, <<t[n].name, 1>>)
      BY <1>1, <1>6, <3>1, <3>2
    <3> QED
      BY <1>1, <1>6, <2>2, <3>2 DEF Follows
  <2>3. CASE m \notin own
    <3>1. t[m] = tree[m] /\ m # n
      BY <1>6, <2>3
    <3>2. ASSUME tree[m].parent # None
          PROVE  t[tree[m].parent] = tree[tree[m].parent] /\ tree[tree[m].parent].gone = 0
      BY <1>4, <1>6, <1>7, <2>1, <2>3, <3>2
    <3>3. /\ tree[m].parent # None => t[tree[m].parent].path = tree[tree[m].parent].path
          /\ tree[m].parent # None => t[tree[m].parent].gone = 0
      BY <3>2
    <3>4. tree[m].parent # None =>
            \E k \in Suffixes :
              tree[m].path = Append(tree[tree[m].parent].path, <<tree[m].name, k>>)
      BY <2>1 DEF Follows
    <3>5. t[m].parent = tree[m].parent /\ t[m].name = tree[m].name /\ t[m].path = tree[m].path
      BY <3>1
    <3> QED
      BY <3>3, <3>4, <3>5, StillFollows, SMTT(40)
  <2>4. CASE m # n /\ m \in own
    <3> DEFINE q == tree[m].parent
    <3>1. q \in own /\ q \in DOMAIN tree /\ q # None /\ tree[q].gone = 0
      BY <1>4, <1>5, <1>6, <1>7, <2>1, <2>4
    <3>2. PICK k \in Suffixes : tree[m].path = Append(tree[q].path, <<tree[m].name, k>>)
      BY <2>1, <3>1 DEF Follows
    <3>3. t[m].parent = q /\ t[m].name = tree[m].name
      BY <1>6, <2>4
    <3> HIDE DEF q
    <3>4. t[m].path = Replanted(path, old, tree[m].path)
      BY <1>6, <2>4
    <3>5. t[q].path = Replanted(path, old, tree[q].path) /\ t[q].gone = 0
      BY <1>6, <3>1
    <3>6. tree[q].path = old \/ Under(tree[q].path, old)
      BY <1>6, <3>1
    <3>7. <<tree[m].name, k>> \in Leaves /\ tree[q].path \in Seq(Leaves)
      BY <1>8, <3>1 DEF Leaves
    <3>8. Replanted(path, old, Append(tree[q].path, <<tree[m].name, k>>))
            = Append(Replanted(path, old, tree[q].path), <<tree[m].name, k>>)
      <4> DEFINE e == <<tree[m].name, k>>
                 sq == tree[q].path
      <4>1. e \in Leaves /\ sq \in Seq(Leaves) /\ (sq = old \/ Under(sq, old))
        BY <3>6, <3>7
      <4> HIDE DEF e, sq
      <4>2. Replanted(path, old, Append(sq, e)) = Append(Replanted(path, old, sq), e)
        BY <1>1, <1>9, <4>1, PathsReplant
      <4> QED
        BY <4>2 DEF e, sq
    <3>9. t[m].path = Append(t[q].path, <<t[m].name, k>>)
      BY <3>2, <3>3, <3>4, <3>5, <3>8, ZenonT(40)
    <3> QED
      BY <3>3, <3>5, <3>9 DEF Follows
  <2> QED
    BY <2>2, <2>3, <2>4
<1>14. OwnPaths(t)
  <2> SUFFICES ASSUME NEW m \in DOMAIN tree, NEW l \in DOMAIN tree, t[m].gone = 0, t[l].gone = 0,
                      t[m].path = t[l].path
               PROVE  m = l
    BY <1>6 DEF OwnPaths
  <2>1. tree[m].gone = 0 /\ tree[l].gone = 0 /\ m \in Active /\ l \in Active
    BY <1>6, <1>7
  <2>2. tree[m].path = tree[l].path => m = l
    BY <2>1 DEF Rooted, OwnPaths
  <2>3. CASE m \in own /\ l \in own
    <3>1. /\ tree[m].path = old \/ Under(tree[m].path, old)
          /\ tree[l].path = old \/ Under(tree[l].path, old)
          /\ Replanted(path, old, tree[m].path) = Replanted(path, old, tree[l].path)
      BY <1>6, <2>3
    <3> QED
      BY <1>1, <1>8, <1>9, <2>2, <3>1, ReplantedApart
  <2>4. CASE m \notin own /\ l \notin own
    BY <1>6, <2>2, <2>4
  <2>5. CASE (m \in own) # (l \in own)
    BY <1>2, <1>6, <2>1, <2>5
  <2> QED
    BY <2>3, <2>4, <2>5
<1>15. WayOut(t)
  <2> SUFFICES ASSUME NEW rows \in SUBSET DOMAIN t, rows # {}
               PROVE  \E m \in rows : t[m].parent \notin rows
    BY DEF WayOut
  <2>1. CASE \E m \in rows : t[m].gone = 0
    BY <1>6, <1>11, <1>12, <1>13, <2>1, ActiveWayOut
  <2>2. CASE \A m \in rows : t[m].gone # 0
    <3>1. rows \in SUBSET DOMAIN tree
      BY <1>6
    <3>2. PICK m \in rows : tree[m].parent \notin rows
      BY <3>1 DEF Rooted, WayOut
    <3>3. m # n
      BY <1>6, <1>7, <2>2, <3>2
    <3> QED
      BY <1>6, <3>1, <3>2, <3>3
  <2> QED
    BY <2>1, <2>2
<1> QED
  BY <1>6, <1>11, <1>12, <1>13, <1>14, <1>15 DEF Rooted

\* A report's node that is put back under the reports folder: it is not a folder, so
\* nothing hangs below it (sync_report_node).
LEMMA RehangingKeeps ==
    ASSUME TreeAssumption, Rooted(tree), NEW r \in Reports, NEW n \in NodeOf(r),
           NEW title \in Names, NEW k \in Suffixes,
           Holders(Numbered(RP, title, k), Exists) \subseteq {n},
           NEW t, t = [tree EXCEPT ![n].parent = RP, ![n].name = title,
                                   ![n].path = Numbered(RP, title, k)]
    PROVE  Rooted(t)
<1> DEFINE path == Numbered(RP, title, k)
<1>1. n \in DOMAIN tree /\ tree[n].owner = r
  BY DEF NodeOf, Exists
<1>2. /\ RP \in DOMAIN tree /\ tree[RP] = RootRow(RP) /\ RP \in Ids /\ RP # None
      /\ None \notin Documents \cup Reports
  BY NoneIsNoNode DEF Rooted, Shaped
<1>3. tree[RP].type = "folder" /\ tree[RP].gone = 0 /\ tree[RP].parent = None /\ RP \in FolderParents
  <2>1. tree[RP].type = "folder" /\ tree[RP].gone = 0 /\ tree[RP].parent = None
    BY <1>2 DEF RootRow, Row
  <2> QED
    BY <1>2, <2>1 DEF FolderParents, Active, Exists
<1>4. path \in Seq(Leaves) /\ path = Append(tree[RP].path, <<title, k>>)
  BY <1>2, <1>3, NumberedIs
<1>5. \A m \in DOMAIN tree : tree[m].path = path => m = n
  BY DEF Holders, Exists
<1> HIDE DEF path
<1>6. tree[n].type = "report_ref" /\ tree[n] \in NodeRow
  <2>1. Hangs(tree, n)
    BY <1>1 DEF Rooted
  <2> QED
    BY <1>1, <2>1, RowFields DEF Hangs, Rooted
<1>7. ASSUME NEW m \in DOMAIN tree, tree[m].parent # None
      PROVE  tree[m].parent # n /\ tree[m].parent \in DOMAIN tree
  <2>1. Hangs(tree, m)
    BY DEF Rooted
  <2> QED
    BY <1>6, <1>7, <2>1 DEF Hangs
<1>8. n \notin Roots
  <2>1. ASSUME n \in Roots PROVE FALSE
    <3>1. tree[n] = RootRow(n)
      BY <2>1 DEF Rooted, Shaped
    <3>2. tree[n].owner = None
      BY <3>1 DEF RootRow, Row
    <3> QED
      BY <1>1, <1>2, <3>2
  <2> QED
    BY <2>1
<1>9. /\ DOMAIN t = DOMAIN tree /\ t = [m \in DOMAIN t |-> t[m]]
      /\ \A m \in DOMAIN tree : m # n => t[m] = tree[m]
      /\ t[n] = [tree[n] EXCEPT !.parent = RP, !.name = title, !.path = path]
  <2>1. tree = [m \in DOMAIN tree |-> tree[m]]
    BY DEF Rooted, Shaped
  <2>2. t = [tree EXCEPT ![n] = [tree[n] EXCEPT !.parent = RP, !.name = title, !.path = path]]
    BY <1>1, <1>6, <2>1 DEF path
  <2> QED
    BY <1>1, <2>1, <2>2, ZenonT(40)
<1>10. /\ t[n].parent = RP /\ t[n].name = title /\ t[n].path = path
       /\ t[n].type = tree[n].type /\ t[n].gone = tree[n].gone /\ t[n].owner = tree[n].owner
       /\ t[n] \in NodeRow
  <2> DEFINE row == tree[n]
             new == t[n]
  <2>1. /\ row \in NodeRow /\ new = Rerow(row, RP, title, path)
        /\ RP \in Ids \cup {None} /\ title \in Names \cup {100, 101} /\ path \in Seq(Leaves)
    BY <1>2, <1>4, <1>6, <1>9 DEF Rerow
  <2> HIDE DEF row, new
  <2>2. /\ new.parent = RP /\ new.name = title /\ new.path = path
        /\ new.type = row.type /\ new.gone = row.gone /\ new.owner = row.owner
        /\ new \in NodeRow
    BY <2>1, RowChanged
  <2> QED
    BY <2>2 DEF row, new
<1>11. RP # n
  BY <1>8, NoneIsNoNode
<1>12. Shaped(t)
  BY <1>8, <1>9, <1>10 DEF Rooted, Shaped
<1>13. ASSUME NEW m \in DOMAIN tree PROVE Hangs(t, m) /\ (t[m].gone = 0 => Follows(t, m))
  <2>1. Hangs(tree, m) /\ (tree[m].gone = 0 => Follows(tree, m))
    BY DEF Rooted
  <2>2. CASE m = n
    <3>1. t[RP] = tree[RP] /\ RP \in DOMAIN t
      BY <1>2, <1>9, <1>11
    <3>2. t[n].gone \in 0 .. 2
      BY <1>9, <1>10, <1>12, <1>1, RowFields
    <3>3. t[n].gone >= t[RP].gone
      BY <1>3, <3>1, <3>2
    <3> QED
      BY <1>2, <1>3, <1>4, <1>10, <2>1, <2>2, <3>1, <3>3, ZenonT(40) DEF Hangs, Follows
  <2>3. CASE m # n
    <3>1. t[m] = tree[m]
      BY <1>9, <2>3
    <3>2. tree[m].parent # None => t[tree[m].parent] = tree[tree[m].parent]
      BY <1>7, <1>9
    <3> QED
      BY <1>9, <2>1, <3>1, <3>2, ZenonT(40) DEF Hangs, Follows
  <2> QED
    BY <2>2, <2>3
<1>14. OwnPaths(t)
  <2> SUFFICES ASSUME NEW m \in DOMAIN tree, NEW l \in DOMAIN tree, t[m].gone = 0, t[l].gone = 0,
                      t[m].path = t[l].path
               PROVE  m = l
    BY <1>9 DEF OwnPaths
  <2>1. CASE m # n /\ l # n
    BY <1>9, <2>1 DEF Rooted, OwnPaths
  <2>2. CASE m = n \/ l = n
    BY <1>5, <1>9, <1>10, <2>2
  <2> QED
    BY <2>1, <2>2
<1>15. WayOut(t)
  <2> SUFFICES ASSUME NEW rows \in SUBSET DOMAIN tree, rows # {}
               PROVE  \E m \in rows : t[m].parent \notin rows
    BY <1>9 DEF WayOut
  <2>1. None \notin rows
    BY NoneIsNoNode DEF Rooted, Shaped
  <2>2. CASE RP \in rows
    BY <1>3, <1>9, <1>11, <2>1, <2>2
  <2>3. CASE RP \notin rows /\ n \in rows
    BY <1>10, <2>3
  <2>4. CASE n \notin rows
    <3>1. PICK m \in rows : tree[m].parent \notin rows
      BY DEF Rooted, WayOut
    <3> QED
      BY <1>9, <2>4, <3>1
  <2> QED
    BY <2>2, <2>3, <2>4
<1> QED
  BY <1>9, <1>12, <1>13, <1>14, <1>15 DEF Rooted

\* A name that is asked for is free among the rows that were asked.
LEMMA FirstFreeIsFree ==
    ASSUME NEW p, NEW name, NEW k, NEW rows, IsFirstFree(p, name, k, rows), Active \subseteq rows
    PROVE  Holders(Numbered(p, name, k), Active) = {}
  BY DEF IsFirstFree, Holders

LEMMA FoldersAre ==
    ASSUME TreeAssumption, Rooted(tree)
    PROVE  /\ KB \in FolderParents /\ RP \in FolderParents /\ Parents \cap Containers \subseteq FolderParents
           /\ Active \subseteq Exists
<1>1. \A r \in Roots : r \in FolderParents
  <2>1. ASSUME NEW r \in Roots PROVE r \in FolderParents
    <3>1. tree[r] = RootRow(r) /\ r \in DOMAIN tree
      BY DEF Rooted, Shaped
    <3>2. tree[r].type = "folder" /\ tree[r].gone = 0
      BY <3>1 DEF RootRow, Row
    <3> QED
      BY <3>1, <3>2 DEF FolderParents, Active, Exists
  <2> QED
    BY <2>1
<1> QED
  BY <1>1, NoneIsNoNode DEF Parents, Containers, FolderParents, Active, Exists

LEMMA MakingKeeps ==
    ASSUME TreeAssumption, Rooted(tree), NEW p \in FolderParents, NEW name \in Names,
           \/ \E type \in {"folder", "document"} : CreateNode(p, type, name)
           \/ UploadAsset(p, name)
    PROVE  Rooted(tree') /\ UNCHANGED <<legacy, files, report>>
<1>1. ASSUME NEW type \in {"folder", "document"}, CreateNode(p, type, name) PROVE Rooted(tree')
  <2>1. PICK n \in Nodes :
          /\ NewId(n) /\ Available(Join(p, name), {})
          /\ tree' = Insert(n, Row(p, type, name, Join(p, name), None))
    BY <1>1 DEF CreateNode
  <2>2. Join(p, name) = Numbered(p, name, 1) /\ 1 \in Suffixes
    BY DEF Join, Numbered, TreeAssumption
  <2>3. Holders(Numbered(p, name, 1), Active) = {}
    BY <2>1, <2>2 DEF Available
  <2>4. type \in Types /\ name \in Names \cup {100, 101} /\ None \notin Documents \cup Reports
    BY NoneIsNoNode DEF Types
  <2> QED
    BY <2>1, <2>2, <2>3, <2>4, InsertKeeps
<1>2. ASSUME UploadAsset(p, name) PROVE Rooted(tree')
  <2>1. PICK n \in Nodes, k \in Suffixes :
          /\ NewId(n) /\ IsFirstFree(p, name, k, Active)
          /\ tree' = Insert(n, Row(p, "asset", name, Numbered(p, name, k), None))
    BY <1>2 DEF UploadAsset
  <2>2. Holders(Numbered(p, name, k), Active) = {}
    BY <2>1, FirstFreeIsFree
  <2>4. "asset" \in Types /\ name \in Names \cup {100, 101} /\ None \notin Documents \cup Reports
    BY NoneIsNoNode DEF Types
  <2> QED
    BY <2>1, <2>2, <2>4, InsertKeeps
<1> QED
  BY <1>1, <1>2 DEF CreateNode, UploadAsset

LEMMA NodeMovesKeep ==
    ASSUME TreeAssumption, Rooted(tree), NEW n \in Active, NEW p,
           \/ MoveNode(n, p) /\ p \in FolderParents
           \/ \E name \in Names : UpdateNode(n, p, name) /\ p \in FolderParents \cup {tree[n].parent}
    PROVE  Rooted(tree') /\ UNCHANGED <<legacy, files, report>>
<1>0. /\ n \in DOMAIN tree /\ tree[n].name \in Names \cup {100, 101}
      /\ tree[n].parent \notin Subtree(n, Active)
      /\ tree[n].parent \in Active \cup {None}
      /\ tree[n].parent # None => tree[tree[n].parent].type = "folder"
  <2>1. n \in DOMAIN tree /\ Hangs(tree, n)
    BY DEF Rooted, Active, Exists
  <2> QED
    BY <2>1, RowFields, SubtreeHangs DEF Hangs, Rooted
<1>1. tree[n].parent \in FolderParents
  BY <1>0 DEF FolderParents
<1>2. ASSUME p \in FolderParents, Reachable(n, p) PROVE p \notin Subtree(n, Active)
  <2>1. CASE p = None
    BY <2>1, NoneIsNoNode DEF Rooted, Shaped, Subtree, Active, Exists
  <2>2. CASE p # None
    BY <1>2, <2>2 DEF Reachable, PathOf, Subtree
  <2> QED
    BY <2>1, <2>2
<1>3. ASSUME MoveNode(n, p), p \in FolderParents PROVE Rooted(tree')
  <2>1. /\ n \notin Roots /\ (p # None => Reachable(n, p))
        /\ Fits(n, p, tree[n].name, Join(p, tree[n].name))
        /\ tree' = Moved(n, p, tree[n].name, Join(p, tree[n].name))
    BY <1>3 DEF MoveNode, Mutable
  <2>2. p \notin Subtree(n, Active)
    BY <1>2, <1>3, <2>1, NoneIsNoNode DEF Rooted, Shaped, Subtree, Active, Exists
  <2> DEFINE name == tree[n].name
  <2>3. /\ name \in Names \cup {100, 101} /\ Fits(n, p, name, Join(p, name))
        /\ tree' = Moved(n, p, name, Join(p, name))
    BY <1>0, <2>1
  <2> HIDE DEF name
  <2> QED
    BY <1>3, <2>1, <2>2, <2>3, MovingKeeps
<1>4. ASSUME NEW name \in Names, UpdateNode(n, p, name), p \in FolderParents \cup {tree[n].parent}
      PROVE  Rooted(tree')
  <2>1. /\ n \notin Roots /\ (p = tree[n].parent \/ Reachable(n, p))
        /\ Fits(n, p, name, Join(p, name))
        /\ tree' = Moved(n, p, name, Join(p, name))
    BY <1>4 DEF UpdateNode, Mutable
  <2>2. p \in FolderParents
    BY <1>1, <1>4
  <2>3. p \notin Subtree(n, Active)
    BY <1>0, <1>2, <2>1, <2>2
  <2>4. name \in Names \cup {100, 101}
    OBVIOUS
  <2> QED
    BY <2>1, <2>2, <2>3, <2>4, MovingKeeps
<1> QED
  BY <1>3, <1>4 DEF MoveNode, UpdateNode

LEMMA DeleteNodeKeeps ==
    ASSUME TreeAssumption, Rooted(tree), NEW n \in Active, DeleteNode(n)
    PROVE  Rooted(tree') /\ UNCHANGED <<legacy, files, report>>
<1> DEFINE rows == Subtree(n, Active)
<1>1. n \notin Roots /\ tree' = SetGone(rows, 1) /\ rows \subseteq Active
  BY DEF DeleteNode, Mutable, Subtree
<1>2. \A m \in Active : m \in rows <=> (m = n \/ tree[m].parent \in rows)
  BY SubtreeHangs
<1>3. None \notin rows
  BY NoneIsNoNode DEF Rooted, Shaped, Subtree, Active, Exists
<1> HIDE DEF rows
<1>4. rows \cap Roots = {}
  <2>1. ASSUME NEW r \in Roots, r \in rows PROVE FALSE
    <3>1. tree[r] = RootRow(r)
      BY DEF Rooted, Shaped
    <3>2. tree[r].parent = None /\ r # n
      BY <1>1, <3>1 DEF RootRow, Row
    <3> QED
      BY <1>1, <1>2, <1>3, <2>1, <3>2
  <2> QED
    BY <2>1
<1>5. \A m \in Active : tree[m].parent \in rows => m \in rows
  BY <1>2
<1>6. Rooted(tree')
  BY <1>1, <1>4, <1>5, DeletingKeeps
<1> QED
  BY <1>6 DEF DeleteNode

\* The node of an older document is no folder and none of the two roots.
LEMMA OwnedIsLeaf ==
    ASSUME TreeAssumption, Rooted(tree), NEW d \in Documents \cup Reports
    PROVE  /\ NodeOf(d) \cap Roots = {}
           /\ \A m \in DOMAIN tree : tree[m].parent \notin NodeOf(d)
<1>1. ASSUME NEW n \in NodeOf(d) PROVE n \in DOMAIN tree /\ tree[n].owner = d /\ tree[n].type # "folder"
  <2>1. n \in DOMAIN tree /\ tree[n].owner = d
    BY DEF NodeOf, Exists
  <2>2. Hangs(tree, n)
    BY <2>1 DEF Rooted
  <2> QED
    BY <2>1, <2>2 DEF Hangs
<1>2. ASSUME NEW n \in NodeOf(d), n \in Roots PROVE FALSE
  <2>1. tree[n] = RootRow(n)
    BY <1>2 DEF Rooted, Shaped
  <2>2. tree[n].owner = None
    BY <2>1 DEF RootRow, Row
  <2> QED
    BY <1>1, <2>2, NoneIsNoNode
<1>3. ASSUME NEW m \in DOMAIN tree, tree[m].parent \in NodeOf(d) PROVE FALSE
  <2>1. tree[m].parent \in DOMAIN tree /\ tree[tree[m].parent].type # "folder"
    BY <1>1, <1>3
  <2>2. tree[m].parent # None
    BY <2>1, NoneIsNoNode DEF Rooted, Shaped
  <2>3. Hangs(tree, m)
    BY DEF Rooted
  <2> QED
    BY <2>1, <2>2, <2>3 DEF Hangs
<1> QED
  BY <1>2, <1>3

LEMMA SyncDocumentKeeps ==
    ASSUME TreeAssumption, Rooted(tree), NEW d \in Documents, NEW name \in Names,
           SyncDocument(d, name)
    PROVE  Rooted(tree')
<1>1. PICK n \in Nodes, k \in Suffixes :
        /\ NewId(n) /\ IsFirstFree(KB, name, k, Exists)
        /\ tree' = Insert(n, Row(KB, "document", name, Numbered(KB, name, k), d))
  BY DEF SyncDocument
<1>2. Holders(Numbered(KB, name, k), Active) = {} /\ KB \in FolderParents
  BY <1>1, FirstFreeIsFree, FoldersAre
<1>3. /\ "document" \in Types /\ name \in Names \cup {100, 101} /\ d \notin Reports
      /\ d \in Documents \cup Reports \cup {None}
  BY DEF Types, TreeAssumption
<1> QED
  BY <1>1, <1>2, <1>3, InsertKeeps

LEMMA SyncReportKeeps ==
    ASSUME TreeAssumption, Rooted(tree), NEW r \in Reports, NEW title \in Names,
           SyncReport(r, title)
    PROVE  Rooted(tree')
<1>1. CASE \E n \in Nodes, k \in Suffixes :
             /\ NewId(n)
             /\ IsFirstFree(RP, title, k, Exists)
             /\ tree' = Insert(n, Row(RP, "report_ref", title, Numbered(RP, title, k), r))
  <2>1. PICK n \in Nodes, k \in Suffixes :
             /\ NewId(n)
             /\ IsFirstFree(RP, title, k, Exists)
             /\ tree' = Insert(n, Row(RP, "report_ref", title, Numbered(RP, title, k), r))
    BY <1>1
  <2>2. Holders(Numbered(RP, title, k), Active) = {} /\ RP \in FolderParents
    BY <2>1, FirstFreeIsFree, FoldersAre
  <2>3. /\ "report_ref" \in Types /\ title \in Names \cup {100, 101} /\ r \notin Documents
        /\ r \in Documents \cup Reports \cup {None}
    BY DEF Types, TreeAssumption
  <2> QED
    BY <2>1, <2>2, <2>3, InsertKeeps
<1>2. CASE \E n \in NodeOf(r), k \in Suffixes :
             /\ Holders(Numbered(RP, title, k), Exists) \subseteq {n}
             /\ tree' = [tree EXCEPT ![n].parent = RP, ![n].name = title,
                                     ![n].path = Numbered(RP, title, k)]
  BY <1>2, RehangingKeeps
<1> QED
  BY <1>1, <1>2 DEF SyncReport

LEMMA OlderKeeps ==
    ASSUME TreeAssumption, TreeInv, OlderStep
    PROVE  TreeInv'
<1> USE DEF TreeInv
<1>1. ASSUME NEW d \in Documents, NEW name \in Names, UploadDocument(d, name) PROVE TreeInv'
  <2>1. Rooted(tree')
    BY <1>1, SyncDocumentKeeps DEF UploadDocument
  <2>2. OlderShape'
    BY <1>1 DEF UploadDocument, OlderShape
  <2> QED
    BY <2>1, <2>2
<1>2. ASSUME NEW name \in Names, RefuseDocument(name) PROVE TreeInv'
  BY <1>2 DEF RefuseDocument, OlderShape
<1>3. ASSUME NEW d \in Documents, DeleteDocument(d) PROVE TreeInv'
  <2>1. Rooted(tree')
    <3>1. \A m \in Active : tree[m].parent \notin NodeOf(d)
      BY OwnedIsLeaf DEF Active, Exists
    <3> DEFINE rows == NodeOf(d) \cap Active
    <3>2. /\ rows \subseteq Active /\ rows \cap Roots = {}
          /\ \A m \in Active : tree[m].parent \in rows => m \in rows
          /\ tree' = SetGone(rows, 1)
      BY <1>3, <3>1, OwnedIsLeaf DEF DeleteDocument
    <3> HIDE DEF rows
    <3> QED
      BY <3>2, DeletingKeeps
  <2>2. OlderShape'
    BY <1>3 DEF DeleteDocument, OlderShape
  <2> QED
    BY <2>1, <2>2
<1>4. ASSUME NEW d \in Documents, BackfillDocument(d) PROVE TreeInv'
  <2>1. legacy[d].name \in Names
    BY <1>4 DEF BackfillDocument, OlderShape
  <2>2. Rooted(tree')
    BY <1>4, <2>1, SyncDocumentKeeps DEF BackfillDocument
  <2> QED
    BY <1>4, <2>2 DEF BackfillDocument, OlderShape
<1>5. ASSUME NEW r \in Reports, NEW title \in Names, WriteReport(r, title) PROVE TreeInv'
  <2>1. Rooted(tree')
    BY <1>5, SyncReportKeeps DEF WriteReport
  <2> QED
    BY <1>5, <2>1 DEF WriteReport, OlderShape
<1>6. ASSUME NEW r \in Reports, DeleteReport(r) PROVE TreeInv'
  <2>1. Rooted(tree')
    <3> DEFINE rows == NodeOf(r)
    <3>1. /\ rows \cap Roots = {} /\ tree' = Without(rows)
          /\ \A m \in DOMAIN tree \ rows : tree[m].parent \notin rows
      BY <1>6, OwnedIsLeaf DEF DeleteReport
    <3> HIDE DEF rows
    <3> QED
      BY <3>1, WithoutKeeps
  <2> QED
    BY <1>6, <2>1 DEF DeleteReport, OlderShape
<1>7. ASSUME NEW r \in Reports, BackfillReport(r) PROVE TreeInv'
  <2>1. report[r] \in Names
    BY <1>7 DEF BackfillReport, OlderShape
  <2>2. Rooted(tree')
    BY <1>7, <2>1, SyncReportKeeps DEF BackfillReport
  <2> QED
    BY <1>7, <2>2 DEF BackfillReport, OlderShape
<1> QED
  BY <1>1, <1>2, <1>3, <1>4, <1>5, <1>6, <1>7 DEF OlderStep

LEMMA PurgeKeeps ==
    ASSUME TreeAssumption, Rooted(tree), Purge
    PROVE  Rooted(tree')
<1> DEFINE old == {n \in Exists : tree[n].gone = 2}
<1>1. tree' = Without(old)
  BY DEF Purge
<1>2. old \cap Roots = {}
  <2>1. ASSUME NEW r \in Roots PROVE r \notin old
    <3>1. tree[r] = RootRow(r)
      BY DEF Rooted, Shaped
    <3>2. tree[r].gone = 0
      BY <3>1 DEF RootRow, Row
    <3> QED
      BY <3>2
  <2> QED
    BY <2>1
<1>3. ASSUME NEW m \in DOMAIN tree \ old, tree[m].parent \in old PROVE FALSE
  <2> DEFINE p == tree[m].parent
  <2>1. p \in DOMAIN tree /\ tree[p].gone = 2 /\ tree[m].gone # 2
    BY <1>3 DEF Exists
  <2>2. p # None /\ Hangs(tree, m)
    BY <2>1, NoneIsNoNode DEF Rooted, Shaped
  <2>3. tree[m].gone >= tree[p].gone
    BY <2>2 DEF Hangs
  <2>4. tree[m].gone \in 0 .. 2
    BY RowFields DEF Rooted
  <2> HIDE DEF p
  <2> QED
    BY <2>1, <2>3, <2>4
<1> HIDE DEF old
<1> QED
  BY <1>1, <1>2, <1>3, WithoutKeeps

LEMMA RestoreNodeKeeps ==
    ASSUME TreeAssumption, Rooted(tree), NEW n \in Exists, Untouched(n), RestoreNode(n)
    PROVE  Rooted(tree')
<1> DEFINE own == Subtree(n, Exists)
<1>1. /\ n \in DOMAIN tree /\ own = Subtree(n, Exists)
      /\ \A m \in own : Available(tree[m].path, own)
      /\ \A m, k \in own : tree[m].path = tree[k].path => m = k
      /\ tree' = SetGone(own, 0)
  BY DEF RestoreNode, Exists
<1> HIDE DEF own
<1> QED
  BY <1>1, RestoringKeeps

LEMMA TreeStep ==
    ASSUME TreeAssumption, TreeInv, Careful
    PROVE  TreeInv'
<1> DEFINE places == Parents \cap Containers
<1>1. places \subseteq FolderParents
  BY FoldersAre DEF TreeInv
<1> HIDE DEF places
<1>2. ASSUME UNCHANGED <<legacy, files, report>> PROVE OlderShape'
  BY <1>2 DEF TreeInv, OlderShape
<1>3. ASSUME UserStep(places) PROVE Rooted(tree') /\ UNCHANGED <<legacy, files, report>>
  <2>1. ASSUME NEW p \in places, NEW name \in Names,
               \/ \E type \in {"folder", "document"} : CreateNode(p, type, name)
               \/ UploadAsset(p, name)
               \/ PromoteAttachment(p, name)
        PROVE  Rooted(tree') /\ UNCHANGED <<legacy, files, report>>
    <3>1. \/ \E type \in {"folder", "document"} : CreateNode(p, type, name)
          \/ UploadAsset(p, name)
      BY <2>1 DEF PromoteAttachment
    <3> QED
      BY <1>1, <3>1, MakingKeeps DEF TreeInv
  <2>2. ASSUME NEW n \in Active, NEW p \in places, MoveNode(n, p)
        PROVE  Rooted(tree') /\ UNCHANGED <<legacy, files, report>>
    BY <1>1, <2>2, NodeMovesKeep DEF TreeInv
  <2>3. ASSUME NEW n \in Active, NEW p \in places, NEW name \in Names, UpdateNode(n, p, name)
        PROVE  Rooted(tree') /\ UNCHANGED <<legacy, files, report>>
    BY <1>1, <2>3, NodeMovesKeep DEF TreeInv
  <2>4. ASSUME NEW n \in Active, NEW name \in Names, UpdateNode(n, tree[n].parent, name)
        PROVE  Rooted(tree') /\ UNCHANGED <<legacy, files, report>>
    BY <2>4, NodeMovesKeep DEF TreeInv
  <2>5. ASSUME NEW n \in Active, DeleteNode(n)
        PROVE  Rooted(tree') /\ UNCHANGED <<legacy, files, report>>
    BY <2>5, DeleteNodeKeeps DEF TreeInv
  <2> QED
    BY <1>3, <2>1, <2>2, <2>3, <2>4, <2>5 DEF UserStep
<1>4. CASE UserStep(places)
  BY <1>2, <1>3, <1>4 DEF TreeInv
<1>5. CASE OlderStep
  BY <1>5, OlderKeeps
<1>6. CASE CarefulRestore
  <2>1. PICK n \in Exists : Untouched(n) /\ RestoreNode(n)
    BY <1>6 DEF CarefulRestore
  <2>2. Rooted(tree')
    BY <2>1, RestoreNodeKeeps DEF TreeInv
  <2> QED
    BY <1>2, <2>1, <2>2 DEF TreeInv, RestoreNode
<1>7. CASE GrowOld
  <2>1. Rooted(tree')
    BY <1>7, AgeingKeeps DEF GrowOld, TreeInv
  <2> QED
    BY <1>2, <1>7, <2>1 DEF GrowOld, TreeInv
<1>8. CASE Purge
  <2>1. Rooted(tree')
    BY <1>8, PurgeKeeps DEF TreeInv
  <2> QED
    BY <1>2, <1>8, <2>1 DEF Purge, TreeInv
<1> QED
  BY <1>4, <1>5, <1>6, <1>7, <1>8 DEF Careful, places

LEMMA TreeStart ==
    ASSUME TreeAssumption, Init
    PROVE  TreeInv
<1>1. /\ DOMAIN tree = Roots /\ tree = [r \in Roots |-> tree[r]]
      /\ \A r \in Roots : tree[r] = RootRow(r)
  BY DEF Init
<1>2. ASSUME NEW r \in Roots
      PROVE  /\ tree[r].parent = None /\ tree[r].type = "folder" /\ tree[r].name = RootName(r)
             /\ tree[r].path = <<<<RootName(r), 1>>>> /\ tree[r].gone = 0
             /\ tree[r].owner = None /\ tree[r] \in NodeRow
  <2>1. RootName(r) \in {100, 101} /\ 1 \in Suffixes
    BY DEF RootName, TreeAssumption
  <2>2. <<RootName(r), 1>> \in Leaves
    BY <2>1 DEF Leaves
  <2>3. <<<<RootName(r), 1>>>> \in Seq(Leaves)
    BY <2>2
  <2> DEFINE path == <<<<RootName(r), 1>>>>
             top == RootName(r)
  <2>4. tree[r] = [parent |-> None, type |-> "folder", name |-> top, path |-> path,
                   gone |-> 0, owner |-> None]
    BY <1>1 DEF RootRow, Row
  <2>5. path \in Seq(Leaves) /\ top \in Names \cup {100, 101}
    BY <2>1, <2>3
  <2> HIDE DEF path, top
  <2>6. /\ tree[r].parent = None /\ tree[r].type = "folder" /\ tree[r].name = top
        /\ tree[r].path = path /\ tree[r].gone = 0
        /\ tree[r].owner = None /\ tree[r] \in NodeRow
    BY <2>4, <2>5 DEF NodeRow, Types
  <2> QED
    BY <2>6 DEF path, top
<1>3. Shaped(tree)
  BY <1>1, <1>2, NoneIsNoNode DEF Shaped
<1>4. \A n \in DOMAIN tree : Hangs(tree, n) /\ Follows(tree, n)
  <2>1. ASSUME NEW n \in Roots PROVE Hangs(tree, n) /\ Follows(tree, n)
    <3>1. 1 \in Suffixes /\ None \notin Documents \cup Reports
      BY DEF TreeAssumption
    <3>2. tree[n].path = <<<<tree[n].name, 1>>>>
      BY <1>2
    <3> QED
      BY <1>2, <3>1, <3>2 DEF Hangs, Follows
  <2> QED
    BY <1>1, <2>1
<1>5. OwnPaths(tree)
  <2> SUFFICES ASSUME NEW m \in Roots, NEW n \in Roots, tree[m].path = tree[n].path
               PROVE  m = n
    BY <1>1 DEF OwnPaths
  <2>1. RootName(m) = RootName(n)
    <3>1. <<<<RootName(m), 1>>>>[1][1] = <<<<RootName(n), 1>>>>[1][1]
      BY <1>2
    <3> QED
      BY <3>1
  <2> QED
    BY <2>1 DEF RootName, Roots
<1>6. WayOut(tree)
  <2> SUFFICES ASSUME NEW rows \in SUBSET Roots, rows # {}
               PROVE  \E m \in rows : tree[m].parent \notin rows
    BY <1>1 DEF WayOut
  <2>1. None \notin rows
    BY NoneIsNoNode
  <2>2. PICK m \in rows : TRUE
    OBVIOUS
  <2> QED
    BY <1>2, <2>1, <2>2
<1>7. OlderShape
  BY DEF Init, OlderShape
<1> QED
  BY <1>3, <1>4, <1>5, <1>6, <1>7 DEF TreeInv, Rooted

TreeKept == part = "tree" => TreeInv
LEMMA TreeStays ==
    ASSUME TreeAssumption, TreeKept, [WikiNext]_<<parts, part>>
    PROVE  TreeKept'
<1>1. ASSUME UNCHANGED <<parts, part>> PROVE TreeKept'
  BY <1>1 DEF TreeKept, TreeInv, OlderShape, parts, vars
<1>2. ASSUME WikiNext, part = "tree" PROVE TreeKept'
  <2>1. Careful /\ part' = "tree"
    BY <1>2 DEF WikiNext, DocumentParts, ImportParts
  <2> QED
    BY <1>2, <2>1, TreeStep DEF TreeKept
<1>3. ASSUME WikiNext, part # "tree" PROVE TreeKept'
  BY <1>3 DEF WikiNext, TreeKept
<1> QED
  BY <1>1, <1>2, <1>3

\* Paths and parents tell one and the same tree: an active node hangs on an active
\* one, one leaf below it; no two have one path; nothing hangs below itself, deleted
\* or not.  For any set of nodes, names and numbers.
THEOREM TreeStaysSound == WikiSpec => []TreeIsSound
<1>1. ASSUME WikiInit PROVE TreeKept
  BY <1>1, TreeAssumption, TreeStart DEF WikiInit, TreeKept
<1>2. ASSUME TreeKept, [WikiNext]_<<parts, part>> PROVE TreeKept'
  BY <1>2, TreeAssumption, TreeStays
<1>3. ASSUME TreeKept PROVE TreeIsSound
  BY <1>3, TreeAssumption, RootedIsSound DEF TreeKept, TreeIsSound
<1> QED
  BY <1>1, <1>2, <1>3, PTL DEF WikiSpec

-----------------------------------------------------------------------------
(* What holds up to a number, and steps from one number to the next *)

\* What is so at first and stays so from one number to the next is so of all.
LEMMA AllOfThem ==
    ASSUME NEW n \in Nat, NEW G, 0 \in G, \A k \in 0 .. n - 1 : k \in G => k + 1 \in G
    PROVE  0 .. n \subseteq G
<1> SUFFICES ASSUME ~ (0 .. n \subseteq G) PROVE FALSE
  OBVIOUS
<1> DEFINE B == {k \in 0 .. n : k \notin G}
<1>1. B \subseteq Nat /\ B # {}
  OBVIOUS
<1>2. IsWellFoundedOn(OpToRel(<, Nat), Nat)
  BY NatLessThanWellFounded, Zenon
<1> HIDE DEF B
<1>3. PICK x \in B : \A y \in B : ~ (<<y, x>> \in OpToRel(<, Nat))
  BY <1>1, <1>2, WFMin, Zenon
<1>4. x \in 0 .. n /\ x \notin G
  BY <1>3, Zenon DEF B
<1>5. x # 0 /\ x - 1 \in 0 .. n - 1
  BY <1>4
<1>6. x - 1 \notin G
  BY <1>4, <1>5
<1>7. x - 1 \in B
  BY <1>5, <1>6 DEF B
<1>8. <<x - 1, x>> \in OpToRel(<, Nat)
  BY <1>4, <1>5 DEF OpToRel
<1> QED
  BY <1>3, <1>7, <1>8, Zenon

\* A function that goes from each number to the next in the way of another.
Leads(G, n, S) == G \in [(1 .. n) \X S -> S]
GoesFrom(f, s0, n, S, G) ==
    f \in [0 .. n -> S] /\ f[0] = s0 /\ \A k \in 1 .. n : f[k] = G[<<k, f[k - 1]>>]
LEMMA StepsExist ==
    ASSUME NEW n \in Nat, NEW S, NEW s0 \in S, NEW G, Leads(G, n, S)
    PROVE  \E f : GoesFrom(f, s0, n, S, G)
<1> USE DEF Leads
<1> DEFINE Steps(f, m) == /\ f \in [0 .. m -> S] /\ f[0] = s0
                          /\ \A k \in 1 .. m : f[k] = G[<<k, f[k - 1]>>]
           T == {m \in 0 .. n : \E f : Steps(f, m)}
<1>1. 0 \in T
  <2> DEFINE f == [k \in 0 .. 0 |-> s0]
  <2>1. Steps(f, 0)
    OBVIOUS
  <2> HIDE DEF f
  <2> QED
    BY <2>1
<1>2. ASSUME NEW k \in 0 .. n - 1, k \in T PROVE k + 1 \in T
  <2>1. PICK f : Steps(f, k)
    BY <1>2
  <2>2. f[k] \in S /\ k + 1 \in 1 .. n
    BY <2>1
  <2>3. G[<<k + 1, f[k]>>] \in S
    BY <2>2
  <2> DEFINE g == [i \in 0 .. k + 1 |-> IF i = k + 1 THEN G[<<k + 1, f[k]>>] ELSE f[i]]
  <2>4. g \in [0 .. k + 1 -> S] /\ g[0] = s0
    <3>1. ASSUME NEW i \in 0 .. k + 1, i # k + 1 PROVE f[i] \in S
      <4>1. i \in 0 .. k
        BY <3>1
      <4> QED
        BY <2>1, <4>1
    <3> QED
      BY <2>1, <2>3, <3>1
  <2>5. ASSUME NEW i \in 1 .. k + 1 PROVE g[i] = G[<<i, g[i - 1]>>]
    <3>1. CASE i = k + 1
      <4>1. g[i - 1] = f[k] /\ g[i] = G[<<k + 1, f[k]>>]
        BY <3>1
      <4> QED
        BY <3>1, <4>1
    <3>2. CASE i # k + 1
      <4>1. i \in 1 .. k /\ i - 1 \in 0 .. k + 1 /\ i - 1 # k + 1 /\ i \in 0 .. k + 1
        BY <3>2
      <4>2. g[i] = f[i] /\ g[i - 1] = f[i - 1]
        BY <4>1, <3>2
      <4> QED
        BY <2>1, <4>1, <4>2
    <3> QED
      BY <3>1, <3>2
  <2> HIDE DEF g
  <2>6. Steps(g, k + 1)
    BY <2>4, <2>5
  <2>7. k + 1 \in 0 .. n
    OBVIOUS
  <2> QED
    BY <2>6, <2>7
<1>3. n \in T
  <2> HIDE DEF T
  <2>1. 0 .. n \subseteq T /\ n \in 0 .. n
    BY <1>1, <1>2, AllOfThem
  <2> QED
    BY <2>1
<1> QED
  BY <1>3 DEF GoesFrom

-----------------------------------------------------------------------------
(* Imports: making nodes of files *)

Path == Seq(Nat)
\* A node has a path that is not empty.
ImportNode == [path : Path \ {<<>>}, by : -1 .. 2 * N]
Walks == [ns : SUBSET ImportNode, at : Path, ok : BOOLEAN]
\* One folder on the way, as EnsureFolders takes it.
Advance(i, t, k, w) ==
    LET here == SubSeq(t, 1, k)
        new == Append(w.at, FolderName(i, t, k))
    IN IF ~w.ok THEN w
       ELSE IF here \in Taken(w.ns) THEN [w EXCEPT !.at = here]
       ELSE IF new \in Taken(w.ns) THEN [w EXCEPT !.ok = FALSE]
       ELSE [w EXCEPT !.ns = @ \cup {NodeAt(new, Folder)}, !.at = new]
\* The beginnings of a path that are not there are made by their own names.
OnTheWay(ns, i, t) ==
    \A k \in 1 .. Len(t) - 1 : FolderName(i, t, k) = t[k] \/ SubSeq(t, 1, k) \in Taken(ns)

LEMMA BeginningOfPath ==
    ASSUME NEW t \in Path, NEW k \in 0 .. Len(t)
    PROVE  /\ SubSeq(t, 1, k) \in Path /\ Len(SubSeq(t, 1, k)) = k
           /\ \A i \in 1 .. k : SubSeq(t, 1, k)[i] = t[i]
<1>1. Len(t) \in Nat /\ \A i \in 1 .. Len(t) : t[i] \in Nat
  BY LenProperties, ElementOfSeq DEF Path
<1>2. \A i \in 1 .. k : t[i] \in Nat
  BY <1>1
<1>3. 1 \in Int /\ k \in Int
  BY <1>1
<1> DEFINE u == SubSeq(t, 1, k)
<1>4. /\ u \in Seq(Nat) /\ Len(u) = IF 1 <= k THEN k - 1 + 1 ELSE 0
      /\ \A i \in 1 .. k - 1 + 1 : u[i] = t[1 + i - 1]
  BY <1>2, <1>3, SubSeqProperties
<1> HIDE DEF u
<1>5. u \in Seq(Nat) /\ Len(u) = k /\ \A i \in 1 .. k : u[i] = t[i]
  BY <1>1, <1>4
<1> QED
  BY <1>5 DEF u, Path

LEMMA AppendIsPath ==
    ASSUME NEW s \in Path, NEW name \in Nat
    PROVE  Append(s, name) \in Path \ {<<>>}
<1> DEFINE u == Append(s, name)
<1>1. u \in Seq(Nat) /\ Len(u) = Len(s) + 1 /\ Len(s) \in Nat
  BY AppendProperties, LenProperties DEF Path
<1> HIDE DEF u
<1>2. Len(u) # 0 /\ Len(<<>>) = 0
  BY <1>1
<1>3. u # <<>>
  BY <1>2
<1> QED
  BY <1>1, <1>3 DEF u, Path

\* A beginning with the next name is the next beginning.
LEMMA NextBeginning ==
    ASSUME NEW t \in Path, NEW k \in 1 .. Len(t)
    PROVE  Append(SubSeq(t, 1, k - 1), t[k]) = SubSeq(t, 1, k)
<1>1. Len(t) \in Nat /\ t[k] \in Nat /\ k - 1 \in 0 .. Len(t) /\ k \in 0 .. Len(t) /\ k - 1 \in Nat
  BY LenProperties, ElementOfSeq DEF Path
<1> DEFINE u == SubSeq(t, 1, k - 1)
           v == SubSeq(t, 1, k)
           a == Append(u, t[k])
<1>2. u \in Path /\ Len(u) = k - 1 /\ \A i \in 1 .. k - 1 : u[i] = t[i]
  BY <1>1, BeginningOfPath
<1>3. v \in Path /\ Len(v) = k /\ \A i \in 1 .. k : v[i] = t[i]
  BY <1>1, BeginningOfPath
<1> HIDE DEF u, v
<1>4. /\ a \in Seq(Nat) /\ Len(a) = Len(u) + 1
      /\ \A i \in 1 .. Len(u) : a[i] = u[i]
      /\ a[Len(u) + 1] = t[k]
  BY <1>1, <1>2, AppendProperties DEF Path
<1> HIDE DEF a
<1>5. Len(a) = k /\ (\A i \in 1 .. k - 1 : a[i] = t[i]) /\ a[k] = t[k]
  BY <1>1, <1>2, <1>4
<1>6. \A i \in 1 .. Len(a) : a[i] = v[i]
  BY <1>1, <1>3, <1>5
<1>7. a = v
  BY <1>3, <1>4, <1>5, <1>6, SeqEqual DEF Path
<1> QED
  BY <1>7 DEF a, u, v

LEMMA FoldersHaveNames ==
    ASSUME NEW i \in Files, NEW t \in Path, NEW k \in 1 .. Len(t)
    PROVE  FolderName(i, t, k) \in Nat
<1>1. Source[i] \in Seq(Nat) /\ Len(Source[i]) \in Nat /\ k \in Nat
  BY ImportAssumption, LenProperties
<1>2. t[k] \in Nat
  BY ElementOfSeq DEF Path
<1>3. k < Len(Source[i]) => Source[i][k] \in Nat
  BY <1>1, ElementOfSeq
<1> QED
  BY <1>2, <1>3 DEF FolderName

\* What is there stays, and only folders are added.
GrownBy(ns, more, by) == /\ ns \subseteq more /\ more \subseteq ImportNode
                         /\ \A n \in more \ ns : n.by \in by

LEMMA NodeIsNode ==
    ASSUME NEW path \in Path \ {<<>>}, NEW by \in -1 .. 2 * N
    PROVE  /\ NodeAt(path, by) \in ImportNode
           /\ NodeAt(path, by).path = path /\ NodeAt(path, by).by = by
BY DEF NodeAt, ImportNode

LEMMA FolderIsKind == 0 \in -1 .. 2 * N /\ -1 \in -1 .. 2 * N /\ N \in Nat
BY ImportAssumption

LEMMA OneFolder ==
    ASSUME NEW i \in Files, NEW t \in Path, NEW k \in 1 .. Len(t), NEW ns, NEW w \in Walks,
           GrownBy(ns, w.ns, {Folder})
    PROVE  /\ Advance(i, t, k, w) \in Walks
           /\ GrownBy(ns, Advance(i, t, k, w).ns, {Folder})
           /\ Advance(i, t, k, w).ok => w.ok
           /\ (w.ok /\ Advance(i, t, k, w).ok) =>
                 \/ Advance(i, t, k, w).at = SubSeq(t, 1, k)
                 \/ /\ Advance(i, t, k, w).at = Append(w.at, FolderName(i, t, k))
                    /\ SubSeq(t, 1, k) \notin Taken(w.ns)
<1> DEFINE here == SubSeq(t, 1, k)
           new == Append(w.at, FolderName(i, t, k))
           a == Advance(i, t, k, w)
<1>1. /\ w.ns \subseteq ImportNode /\ w.at \in Path /\ w.ok \in BOOLEAN
      /\ w = [ns |-> w.ns, at |-> w.at, ok |-> w.ok]
  BY DEF Walks
<1>2. here \in Path
  <2>1. k \in 0 .. Len(t)
    OBVIOUS
  <2> QED
    BY <2>1, BeginningOfPath
<1>3. new \in Path \ {<<>>}
  BY <1>1, FoldersHaveNames, AppendIsPath
<1>4. NodeAt(new, Folder) \in ImportNode /\ NodeAt(new, Folder).by = Folder
  BY <1>3, FolderIsKind, NodeIsNode DEF Folder
<1>5. a = IF ~w.ok THEN w
          ELSE IF here \in Taken(w.ns) THEN [w EXCEPT !.at = here]
          ELSE IF new \in Taken(w.ns) THEN [w EXCEPT !.ok = FALSE]
          ELSE [w EXCEPT !.ns = @ \cup {NodeAt(new, Folder)}, !.at = new]
  BY DEF Advance
<1> HIDE DEF a, here, new
<1>6. CASE ~w.ok
  <2>1. a = w
    BY <1>5, <1>6
  <2> QED
    BY <1>6, <2>1 DEF a
<1>7. CASE w.ok /\ here \in Taken(w.ns)
  <2>1. a = [ns |-> w.ns, at |-> here, ok |-> w.ok]
    BY <1>1, <1>5, <1>7
  <2> QED
    BY <1>1, <1>2, <2>1, <1>7 DEF Walks, here, a
<1>8. CASE w.ok /\ here \notin Taken(w.ns) /\ new \in Taken(w.ns)
  <2>1. a = [ns |-> w.ns, at |-> w.at, ok |-> FALSE]
    BY <1>1, <1>5, <1>8
  <2> QED
    BY <1>1, <2>1 DEF Walks, a
<1>9. CASE w.ok /\ here \notin Taken(w.ns) /\ new \notin Taken(w.ns)
  <2>1. a = [ns |-> w.ns \cup {NodeAt(new, Folder)}, at |-> new, ok |-> w.ok]
    BY <1>1, <1>5, <1>9
  <2>2. a \in Walks
    BY <1>1, <1>3, <1>4, <2>1 DEF Walks
  <2>3. GrownBy(ns, a.ns, {Folder})
    BY <1>1, <1>4, <2>1 DEF GrownBy
  <2> QED
    BY <1>9, <2>1, <2>2, <2>3 DEF a, here, new
<1> QED
  BY <1>6, <1>7, <1>8, <1>9

\* The folders on the way to a file are there or are made: nothing goes, and where
\* the beginnings of the path are there or have its names, it is their last.
LEMMA FoldersFound ==
    ASSUME NEW ns \in SUBSET ImportNode, NEW i \in Files, NEW t \in Path, t # <<>>,
           NEW f, f = EnsureFolders(ns, i, t)
    PROVE  /\ f \in Walks /\ GrownBy(ns, f.ns, {Folder})
           /\ f.ok /\ OnTheWay(ns, i, t) => f.at = SubSeq(t, 1, Len(t) - 1)
<1> DEFINE n == Len(t) - 1
           start == [ns |-> ns, at |-> <<>>, ok |-> TRUE]
           S == {w \in Walks : GrownBy(ns, w.ns, {Folder})}
           G == [p \in (1 .. n) \X S |-> Advance(i, t, p[1], p[2])]
           Way(h) == h = [k \in 0 .. n |-> IF k = 0 THEN start ELSE Advance(i, t, k, h[k - 1])]
<1>1. Len(t) \in Nat /\ n \in Nat
  BY LenProperties, EmptySeq DEF Path
<1>2. start \in S
  BY DEF Walks, GrownBy, Path
<1>3. Leads(G, n, S)
  <2>1. ASSUME NEW k \in 1 .. n, NEW w \in S PROVE Advance(i, t, k, w) \in S
    <3>1. k \in 1 .. Len(t)
      BY <1>1
    <3> QED
      BY <3>1, OneFolder
  <2> QED
    BY <2>1 DEF Leads
<1> HIDE DEF S, start
<1>4. PICK h : GoesFrom(h, start, n, S, G)
  <2> HIDE DEF G, n
  <2>1. n \in Nat
    BY <1>1
  <2> QED
    BY <1>2, <1>3, <2>1, StepsExist, Zenon
<1>5. ASSUME NEW k \in 1 .. n PROVE h[k] = Advance(i, t, k, h[k - 1])
  <2>1. h[k - 1] \in S
    BY <1>1, <1>4 DEF GoesFrom
  <2> QED
    BY <1>4, <2>1 DEF GoesFrom
<1> HIDE DEF G
<1>6. Way(h)
  BY <1>4, <1>5 DEF GoesFrom
<1> DEFINE walk == CHOOSE g : Way(g)
<1>7. Way(walk)
  <2>1. \E g : Way(g)
    BY <1>6
  <2> HIDE DEF Way
  <2> QED
    BY <2>1
<1>8. f = walk[n]
  BY DEF EnsureFolders, Advance, start
<1> HIDE DEF walk
<1>9. walk[0] = start /\ \A k \in 1 .. n : walk[k] = Advance(i, t, k, walk[k - 1])
  BY <1>1, <1>7
<1> DEFINE Good == {k \in 0 .. n : walk[k] \in S /\
                      (walk[k].ok /\ OnTheWay(ns, i, t) => walk[k].at = SubSeq(t, 1, k))}
<1>10. 0 \in Good
  <2>1. start.at = <<>> /\ SubSeq(t, 1, 0) = <<>>
    BY SubSeqEmpty DEF start
  <2>2. walk[0] \in S /\ walk[0].at = SubSeq(t, 1, 0) /\ 0 \in 0 .. n
    BY <1>1, <1>2, <1>9, <2>1
  <2> QED
    BY <2>2, Zenon
<1>11. ASSUME NEW k \in 0 .. n - 1, k \in Good PROVE k + 1 \in Good
  <2> DEFINE w == walk[k]
             v == walk[k + 1]
  <2>1. /\ k + 1 \in 1 .. n /\ k + 1 \in 1 .. Len(t) /\ k + 1 - 1 = k /\ k + 1 \in 0 .. n
        /\ k + 1 \in 1 .. Len(t) - 1
    BY <1>1
  <2>2. v = Advance(i, t, k + 1, w)
    BY <1>9, <2>1
  <2>3. w \in Walks /\ GrownBy(ns, w.ns, {Folder})
        /\ (w.ok /\ OnTheWay(ns, i, t) => w.at = SubSeq(t, 1, k))
    BY <1>11 DEF S
  <2> HIDE DEF w, v
  <2>4. /\ v \in Walks /\ GrownBy(ns, v.ns, {Folder}) /\ (v.ok => w.ok)
        /\ (w.ok /\ v.ok) => \/ v.at = SubSeq(t, 1, k + 1)
                             \/ /\ v.at = Append(w.at, FolderName(i, t, k + 1))
                                /\ SubSeq(t, 1, k + 1) \notin Taken(w.ns)
    BY <2>1, <2>2, <2>3, OneFolder
  <2>5. ASSUME v.ok, OnTheWay(ns, i, t) PROVE v.at = SubSeq(t, 1, k + 1)
    <3>1. CASE v.at = Append(w.at, FolderName(i, t, k + 1)) /\ SubSeq(t, 1, k + 1) \notin Taken(w.ns)
      <4>1. Taken(ns) \subseteq Taken(w.ns)
        BY <2>3 DEF GrownBy, Taken
      <4>2. FolderName(i, t, k + 1) = t[k + 1]
        BY <2>1, <2>5, <3>1, <4>1 DEF OnTheWay
      <4>3. w.at = SubSeq(t, 1, k)
        BY <2>3, <2>4, <2>5
      <4>4. Append(SubSeq(t, 1, k + 1 - 1), t[k + 1]) = SubSeq(t, 1, k + 1)
        BY <2>1, NextBeginning
      <4> QED
        BY <2>1, <3>1, <4>2, <4>3, <4>4
    <3> QED
      BY <2>4, <2>5, <3>1
  <2>6. v \in S
    BY <2>4 DEF S
  <2> QED
    BY <2>1, <2>5, <2>6 DEF v
<1>12. n \in Good
  <2>0. n \in Nat
    BY <1>1
  <2> HIDE DEF Good, n
  <2>1. 0 .. n \subseteq Good
    BY <2>0, <1>10, <1>11, AllOfThem, Zenon
  <2>2. n \in 0 .. n
    BY <2>0
  <2> QED
    BY <2>1, <2>2
<1> QED
  BY <1>8, <1>12 DEF S

\* What making a file leaves: its node at its target, if it could be made.
MadeOf(ns, more, i, t, by) ==
    /\ ns \subseteq more /\ more \subseteq ImportNode
    /\ \A n \in more \ ns : n.by = Folder \/ (n.by = by /\ (OnTheWay(ns, i, t) => n.path = t))

LEMMA OnePlaced ==
    ASSUME NEW ns \in SUBSET ImportNode, NEW i \in Files, NEW t \in Path, t # <<>>,
           NEW by \in -1 .. 2 * N, NEW p, p = Place(ns, i, t, by)
    PROVE  /\ p = [ns |-> p.ns, ok |-> p.ok] /\ p.ok \in BOOLEAN /\ MadeOf(ns, p.ns, i, t, by)
           /\ p.ok => \E n \in p.ns \ ns : n.by = by
<1> DEFINE f == EnsureFolders(ns, i, t)
           path == IF i \in Assets THEN t ELSE Append(f.at, t[Len(t)])
<1>1. p = IF t \in Taken(ns) THEN [ns |-> ns, ok |-> FALSE]
          ELSE IF ~f.ok \/ path \in Taken(f.ns) THEN [ns |-> f.ns, ok |-> FALSE]
          ELSE [ns |-> f.ns \cup {NodeAt(path, by)}, ok |-> TRUE]
  BY DEF Place
<1> HIDE DEF f
<1>2. /\ f \in Walks /\ GrownBy(ns, f.ns, {Folder})
      /\ f.ok /\ OnTheWay(ns, i, t) => f.at = SubSeq(t, 1, Len(t) - 1)
  BY FoldersFound DEF f
<1>3. Len(t) \in Nat /\ Len(t) \in 1 .. Len(t) /\ t[Len(t)] \in Nat
  <2>1. Len(t) \in Nat \ {0}
    BY EmptySeq DEF Path
  <2>2. Len(t) \in 1 .. Len(t)
    BY <2>1
  <2> QED
    BY <2>1, <2>2, ElementOfSeq DEF Path
<1>4. path \in Path \ {<<>>}
  <2>1. Append(f.at, t[Len(t)]) \in Path \ {<<>>}
    BY <1>2, <1>3, AppendIsPath DEF Walks
  <2> QED
    BY <2>1
<1>5. f.ok /\ OnTheWay(ns, i, t) => path = t
  <2>1. SubSeq(t, 1, Len(t)) = t
    BY SubSeqFull DEF Path
  <2>2. Append(SubSeq(t, 1, Len(t) - 1), t[Len(t)]) = t
    BY <1>3, <2>1, NextBeginning
  <2> QED
    BY <1>2, <2>2
<1> HIDE DEF path
<1>6. NodeAt(path, by) \in ImportNode /\ NodeAt(path, by).path = path /\ NodeAt(path, by).by = by
  BY <1>4, NodeIsNode
<1>7. MadeOf(ns, ns, i, t, by) /\ MadeOf(ns, f.ns, i, t, by)
  BY <1>2 DEF MadeOf, GrownBy
<1>8. CASE t \in Taken(ns)
  <2>1. p = [ns |-> ns, ok |-> FALSE]
    BY <1>1, <1>8
  <2> QED
    BY <1>7, <2>1
<1>9. CASE t \notin Taken(ns) /\ (~f.ok \/ path \in Taken(f.ns))
  <2>1. p = [ns |-> f.ns, ok |-> FALSE]
    BY <1>1, <1>9
  <2> QED
    BY <1>7, <2>1
<1>10. CASE t \notin Taken(ns) /\ f.ok /\ path \notin Taken(f.ns)
  <2>1. p = [ns |-> f.ns \cup {NodeAt(path, by)}, ok |-> TRUE]
    BY <1>1, <1>10
  <2>2. NodeAt(path, by) \notin ns
    BY <1>2, <1>6, <1>10 DEF Taken, GrownBy
  <2>3. MadeOf(ns, p.ns, i, t, by)
    BY <1>2, <1>5, <1>6, <1>7, <1>10, <2>1 DEF MadeOf
  <2>4. NodeAt(path, by) \in p.ns \ ns
    BY <2>1, <2>2
  <2> QED
    BY <1>6, <2>1, <2>3, <2>4
<1> QED
  BY <1>8, <1>9, <1>10

LEMMA WayStays ==
    ASSUME NEW ns, NEW more, ns \subseteq more, NEW i, NEW t, OnTheWay(ns, i, t)
    PROVE  OnTheWay(more, i, t)
BY DEF OnTheWay, Taken

\* All files of a set, with their targets and whose their nodes are.
Runs == [ns : SUBSET ImportNode, ok : BOOLEAN]
TakeFile(list, tf, bf, k, run) ==
    IF ~run.ok \/ k \notin list THEN run ELSE Place(run.ns, k, tf[k], bf[k])
AllMade(ns, more, list, tf, bf) ==
    /\ ns \subseteq more /\ more \subseteq ImportNode
    /\ \A n \in more \ ns : n.by = Folder \/
          \E i \in list : n.by = bf[i] /\ (OnTheWay(ns, i, tf[i]) => n.path = tf[i])
IsRun(run, ns, list, tf, bf) ==
    run = [k \in 0 .. N |-> IF k = 0 THEN [ns |-> ns, ok |-> TRUE]
                            ELSE TakeFile(list, tf, bf, k, run[k - 1])]

LEMMA OneTaken ==
    ASSUME NEW ns, NEW list, list \subseteq Files,
           NEW tf, \A i \in Files : tf[i] \in Path /\ tf[i] # <<>>,
           NEW bf, \A i \in Files : bf[i] \in -1 .. 2 * N,
           NEW k \in Files, NEW run \in Runs, AllMade(ns, run.ns, list, tf, bf),
           NEW next, next = TakeFile(list, tf, bf, k, run)
    PROVE  /\ next \in Runs /\ AllMade(ns, next.ns, list, tf, bf) /\ run.ns \subseteq next.ns
           /\ next.ok => run.ok
           /\ (next.ok /\ k \in list) => \E n \in next.ns \ ns : n.by = bf[k]
<1>1. CASE ~run.ok \/ k \notin list
  <2>1. next = run
    BY <1>1 DEF TakeFile
  <2> QED
    BY <1>1, <2>1
<1>2. CASE run.ok /\ k \in list
  <2>1. next = Place(run.ns, k, tf[k], bf[k])
    BY <1>2 DEF TakeFile
  <2>2. run.ns \in SUBSET ImportNode /\ ns \subseteq run.ns
    BY DEF Runs, AllMade
  <2>3. /\ next = [ns |-> next.ns, ok |-> next.ok] /\ next.ok \in BOOLEAN
        /\ MadeOf(run.ns, next.ns, k, tf[k], bf[k])
        /\ next.ok => \E n \in next.ns \ run.ns : n.by = bf[k]
    BY <2>1, <2>2, OnePlaced
  <2>4. next.ns \in SUBSET ImportNode /\ run.ns \subseteq next.ns
    BY <2>3 DEF MadeOf
  <2>5. next \in Runs
    BY <2>3, <2>4 DEF Runs
  <2>6. AllMade(ns, next.ns, list, tf, bf)
    <3>1. ASSUME NEW n \in next.ns \ ns
          PROVE  n.by = Folder \/
                 \E i \in list : n.by = bf[i] /\ (OnTheWay(ns, i, tf[i]) => n.path = tf[i])
      <4>1. CASE n \in run.ns
        BY <3>1, <4>1 DEF AllMade
      <4>2. CASE n \notin run.ns
        <5>1. n.by = Folder \/ (n.by = bf[k] /\ (OnTheWay(run.ns, k, tf[k]) => n.path = tf[k]))
          BY <2>3, <4>2 DEF MadeOf
        <5>2. OnTheWay(ns, k, tf[k]) => OnTheWay(run.ns, k, tf[k])
          BY <2>2, WayStays
        <5> QED
          BY <1>2, <5>1, <5>2
      <4> QED
        BY <4>1, <4>2
    <3> QED
      BY <2>2, <2>4, <3>1 DEF AllMade
  <2> QED
    BY <1>2, <2>2, <2>3, <2>4, <2>5, <2>6
<1> QED
  BY <1>1, <1>2

LEMMA TakenStays ==
    ASSUME NEW ns, NEW list, list \subseteq Files,
           NEW tf, \A i \in Files : tf[i] \in Path /\ tf[i] # <<>>,
           NEW bf, \A i \in Files : bf[i] \in -1 .. 2 * N,
           NEW k \in Files, NEW run \in Runs, AllMade(ns, run.ns, list, tf, bf)
    PROVE  /\ TakeFile(list, tf, bf, k, run) \in Runs
           /\ AllMade(ns, TakeFile(list, tf, bf, k, run).ns, list, tf, bf)
BY OneTaken

LEMMA RunExists ==
    ASSUME NEW ns \in SUBSET ImportNode, NEW list, list \subseteq Files,
           NEW tf, \A i \in Files : tf[i] \in Path /\ tf[i] # <<>>,
           NEW bf, \A i \in Files : bf[i] \in -1 .. 2 * N
    PROVE  \E run : IsRun(run, ns, list, tf, bf)
<1> DEFINE start == [ns |-> ns, ok |-> TRUE]
           S == {run \in Runs : AllMade(ns, run.ns, list, tf, bf)}
           G == [p \in (1 .. N) \X S |-> TakeFile(list, tf, bf, p[1], p[2])]
<1>1. N \in Nat
  BY ImportAssumption
<1>2. start \in S
  BY DEF Runs, AllMade
<1>3. Leads(G, N, S)
  <2>1. ASSUME NEW k \in 1 .. N, NEW run \in S PROVE TakeFile(list, tf, bf, k, run) \in S
    <3>1. k \in Files /\ run \in Runs /\ AllMade(ns, run.ns, list, tf, bf)
      BY DEF Files
    <3>2. TakeFile(list, tf, bf, k, run) \in Runs
          /\ AllMade(ns, TakeFile(list, tf, bf, k, run).ns, list, tf, bf)
      BY <3>1, TakenStays
    <3> QED
      BY <3>2
  <2> QED
    BY <2>1 DEF Leads
<1> HIDE DEF S, start
<1>4. PICK h : GoesFrom(h, start, N, S, G)
  <2> HIDE DEF G
  <2> QED
    BY <1>1, <1>2, <1>3, StepsExist, Zenon
<1>5. ASSUME NEW k \in 1 .. N PROVE h[k] = TakeFile(list, tf, bf, k, h[k - 1])
  <2>1. h[k - 1] \in S
    BY <1>1, <1>4 DEF GoesFrom
  <2> QED
    BY <1>4, <2>1 DEF GoesFrom
<1> HIDE DEF G
<1>6. IsRun(h, ns, list, tf, bf)
  BY <1>4, <1>5 DEF GoesFrom, IsRun, start
<1> QED
  BY <1>6

LEMMA RunMakesAll ==
    ASSUME NEW ns \in SUBSET ImportNode, NEW list, list \subseteq Files,
           NEW tf, \A i \in Files : tf[i] \in Path /\ tf[i] # <<>>,
           NEW bf, \A i \in Files : bf[i] \in -1 .. 2 * N,
           NEW run, IsRun(run, ns, list, tf, bf)
    PROVE  /\ run[N] \in Runs /\ AllMade(ns, run[N].ns, list, tf, bf)
           /\ run[N].ok => \A i \in list : \E n \in run[N].ns \ ns : n.by = bf[i]
<1> DEFINE Good == {k \in 0 .. N : /\ run[k] \in Runs /\ AllMade(ns, run[k].ns, list, tf, bf)
                                   /\ run[k].ok => \A i \in list : i <= k =>
                                         \E n \in run[k].ns \ ns : n.by = bf[i]}
<1>1. N \in Nat /\ list \subseteq 1 .. N
  BY ImportAssumption DEF Files
<1>2. run[0] = [ns |-> ns, ok |-> TRUE]
      /\ \A k \in 1 .. N : run[k] = TakeFile(list, tf, bf, k, run[k - 1])
  <2>1. ASSUME NEW k \in 0 .. N
        PROVE  run[k] = IF k = 0 THEN [ns |-> ns, ok |-> TRUE]
                        ELSE TakeFile(list, tf, bf, k, run[k - 1])
    BY DEF IsRun
  <2>2. 0 \in 0 .. N /\ \A k \in 1 .. N : k \in 0 .. N /\ k # 0
    BY <1>1
  <2> QED
    BY <2>1, <2>2
<1>3. 0 \in Good
  <2>1. run[0] \in Runs /\ AllMade(ns, run[0].ns, list, tf, bf)
    BY <1>2 DEF Runs, AllMade
  <2>2. \A i \in list : ~ (i <= 0)
    BY <1>1
  <2> QED
    BY <1>1, <2>1, <2>2
<1>4. ASSUME NEW k \in 0 .. N - 1, k \in Good PROVE k + 1 \in Good
  <2>1. k + 1 \in 1 .. N /\ k + 1 - 1 = k /\ k + 1 \in 0 .. N
    BY <1>1
  <2>2. run[k + 1] = TakeFile(list, tf, bf, k + 1, run[k])
    BY <1>2, <2>1
  <2>3. k + 1 \in Files
    BY <2>1 DEF Files
  <2>4. /\ run[k + 1] \in Runs /\ AllMade(ns, run[k + 1].ns, list, tf, bf)
        /\ run[k].ns \subseteq run[k + 1].ns /\ (run[k + 1].ok => run[k].ok)
        /\ (run[k + 1].ok /\ k + 1 \in list) => \E n \in run[k + 1].ns \ ns : n.by = bf[k + 1]
    BY <1>4, <2>2, <2>3, OneTaken
  <2>5. ASSUME run[k + 1].ok, NEW i \in list, i <= k + 1
        PROVE  \E n \in run[k + 1].ns \ ns : n.by = bf[i]
    <3>1. CASE i = k + 1
      BY <2>4, <2>5, <3>1
    <3>2. CASE i # k + 1
      <4>1. i <= k
        BY <1>1, <2>5, <3>2
      <4>2. \E n \in run[k].ns \ ns : n.by = bf[i]
        BY <1>4, <2>4, <2>5, <4>1
      <4> QED
        BY <2>4, <4>2
    <3> QED
      BY <3>1, <3>2
  <2> QED
    BY <2>1, <2>4, <2>5
<1>5. N \in Good
  <2> HIDE DEF Good
  <2>1. 0 .. N \subseteq Good
    BY <1>1, <1>3, <1>4, AllOfThem, Zenon
  <2> QED
    BY <1>1, <2>1
<1> QED
  BY <1>1, <1>5

LEMMA InnerIsPath ==
    ASSUME NEW i \in Files
    PROVE  /\ Source[i] \in Path /\ Len(Source[i]) \in Nat \ {0}
           /\ Inner(i) \in Path /\ Len(Inner(i)) \in Nat \ {0}
           /\ Len(Source[i]) > 1 =>
                 /\ Len(Inner(i)) = Len(Source[i]) - 1
                 /\ \A k \in 1 .. Len(Inner(i)) : Inner(i)[k] = Source[i][k + 1]
           /\ ~ (Len(Source[i]) > 1) => Len(Inner(i)) = 1
<1>1. Source[i] \in Seq(Nat) /\ Source[i] # <<>> /\ Len(Source[i]) \in Nat \ {0}
  BY ImportAssumption, EmptySeq
<1>2. /\ Tail(Source[i]) \in Seq(Nat) /\ Len(Tail(Source[i])) = Len(Source[i]) - 1
      /\ \A k \in 1 .. Len(Tail(Source[i])) : Tail(Source[i])[k] = Source[i][k + 1]
  BY <1>1, HeadTailProperties
<1> DEFINE source == Source[i]
           tail == Tail(Source[i])
<1> HIDE DEF source, tail
<1>3. Inner(i) = IF Len(source) > 1 THEN tail ELSE source
  BY DEF Inner, source, tail
<1>4. /\ source \in Seq(Nat) /\ Len(source) \in Nat \ {0} /\ tail \in Seq(Nat)
      /\ Len(tail) = Len(source) - 1 /\ \A k \in 1 .. Len(tail) : tail[k] = source[k + 1]
  BY <1>1, <1>2 DEF source, tail
<1> DEFINE inner == Inner(i)
<1> HIDE DEF inner
<1>5. inner = IF Len(source) > 1 THEN tail ELSE source
  BY <1>3 DEF inner
<1>6. CASE Len(source) > 1
  <2>1. inner = tail /\ Len(tail) \in Nat \ {0}
    BY <1>4, <1>5, <1>6, SMTT(40)
  <2> QED
    BY <1>4, <1>6, <2>1 DEF Path, source, inner
<1>7. CASE ~ (Len(source) > 1)
  <2>1. inner = source /\ Len(source) = 1
    BY <1>4, <1>5, <1>7
  <2> QED
    BY <1>4, <1>7, <2>1 DEF Path, source, inner
<1> QED
  BY <1>6, <1>7

LEMMA PathsJoin ==
    ASSUME NEW s \in Path, NEW t \in Path, Len(t) > 0
    PROVE  /\ s \o t \in Path /\ s \o t # <<>> /\ Len(s \o t) = Len(s) + Len(t)
           /\ Len(s) \in Nat /\ Len(t) \in Nat
           /\ \A k \in 1 .. Len(s) : (s \o t)[k] = s[k]
           /\ \A k \in Len(s) + 1 .. Len(s) + Len(t) : (s \o t)[k] = t[k - Len(s)]
<1> DEFINE u == s \o t
<1>1. /\ u \in Seq(Nat) /\ Len(u) = Len(s) + Len(t)
      /\ \A k \in 1 .. Len(s) + Len(t) : u[k] = IF k <= Len(s) THEN s[k] ELSE t[k - Len(s)]
  BY ConcatProperties DEF Path
<1>2. Len(s) \in Nat /\ Len(t) \in Nat
  BY LenProperties DEF Path
<1> HIDE DEF u
<1>3. u # <<>>
  <2>1. Len(<<>>) = 0 /\ Len(u) # 0
    BY <1>1, <1>2
  <2> QED
    BY <2>1
<1>4. \A k \in 1 .. Len(s) : u[k] = s[k]
  BY <1>1, <1>2
<1>5. \A k \in Len(s) + 1 .. Len(s) + Len(t) : u[k] = t[k - Len(s)]
  BY <1>1, <1>2
<1> QED
  BY <1>1, <1>2, <1>3, <1>4, <1>5 DEF u, Path

LEMMA TargetsArePaths ==
    ASSUME imp.base \in Path, NEW i \in Files
    PROVE  Target(i) \in Path /\ Target(i) # <<>> /\ Len(Target(i)) > Len(imp.base)
           /\ Len(Target(i)) \in Nat /\ Len(imp.base) \in Nat
<1>1. Inner(i) \in Path /\ Len(Inner(i)) > 0 /\ Len(Inner(i)) \in Nat
  BY InnerIsPath
<1>2. Target(i) = imp.base \o Inner(i)
  BY DEF Target
<1> DEFINE base == imp.base
           inner == Inner(i)
           t == Target(i)
<1> HIDE DEF base, inner, t
<1>3. base \in Path /\ inner \in Path /\ Len(inner) > 0 /\ t = base \o inner
  BY <1>1, <1>2 DEF base, inner, t
<1>4. t \in Path /\ t # <<>> /\ Len(t) = Len(base) + Len(inner) /\ Len(base) \in Nat /\ Len(inner) \in Nat
  BY <1>3, PathsJoin
<1>5. Len(t) \in Nat /\ Len(t) > Len(base)
  BY <1>3, <1>4
<1> QED
  BY <1>4, <1>5 DEF base, t

LEMMA JobTargetsArePaths ==
    ASSUME job.base \in Path, NEW i \in Files
    PROVE  JobTarget(i) \in Path /\ JobTarget(i) # <<>>
BY InnerIsPath, PathsJoin DEF JobTarget

\* A folder at the top that is there leads to the files that are put below it.
LEMMA SessionOnTheWay ==
    ASSUME imp.base \in Path, Len(imp.base) = 1, NEW ns, imp.base \in Taken(ns), NEW i \in Files
    PROVE  OnTheWay(ns, i, Target(i))
<1> DEFINE base == imp.base
           inner == Inner(i)
           t == Target(i)
           source == Source[i]
<1> HIDE DEF base, inner, t, source
<1>1. /\ source \in Path /\ Len(source) \in Nat \ {0}
      /\ inner \in Path /\ Len(inner) \in Nat \ {0}
      /\ Len(source) > 1 => /\ Len(inner) = Len(source) - 1
                            /\ \A k \in 1 .. Len(inner) : inner[k] = source[k + 1]
      /\ ~ (Len(source) > 1) => Len(inner) = 1
  BY InnerIsPath DEF source, inner
<1>2. t = base \o inner /\ base \in Path /\ Len(base) = 1
  BY DEF Target, t, base, inner
<1>3. Len(inner) > 0
  BY <1>1
<1>4. /\ t \in Path /\ Len(t) = 1 + Len(inner) /\ t[1] = base[1]
      /\ \A k \in 2 .. 1 + Len(inner) : t[k] = inner[k - 1]
  <2>1. /\ Len(base \o inner) = Len(base) + Len(inner) /\ base \o inner \in Path
        /\ \A k \in 1 .. Len(base) : (base \o inner)[k] = base[k]
        /\ \A k \in Len(base) + 1 .. Len(base) + Len(inner) : (base \o inner)[k] = inner[k - Len(base)]
    BY <1>1, <1>2, <1>3, PathsJoin
  <2>2. 1 \in 1 .. Len(base)
    BY <1>2
  <2> QED
    BY <1>1, <1>2, <2>1, <2>2
<1>5. ASSUME NEW k \in 1 .. Len(t) - 1
      PROVE  FolderName(i, t, k) = t[k] \/ SubSeq(t, 1, k) \in Taken(ns)
  <2>1. CASE k = 1
    <3>1. SubSeq(t, 1, 1) \in Path /\ Len(SubSeq(t, 1, 1)) = 1 /\ SubSeq(t, 1, 1)[1] = t[1]
      <4>1. 1 \in 0 .. Len(t) /\ 1 \in 1 .. 1
        BY <1>1, <1>4
      <4> QED
        BY <1>4, <4>1, BeginningOfPath
    <3> DEFINE u == SubSeq(t, 1, 1)
    <3> HIDE DEF u
    <3>2. u \in Seq(Nat) /\ base \in Seq(Nat) /\ Len(u) = Len(base) /\ \A j \in 1 .. Len(u) : u[j] = base[j]
      BY <1>2, <1>4, <3>1 DEF u, Path
    <3>3. u = base
      BY <3>2, SeqEqual
    <3> QED
      BY <2>1, <3>3 DEF u, base
  <2>2. CASE k # 1
    <3>1. Len(source) > 1 /\ k < Len(source) /\ k \in 2 .. 1 + Len(inner) /\ k - 1 \in 1 .. Len(inner)
      BY <1>1, <1>4, <2>2
    <3>2. t[k] = inner[k - 1]
      BY <1>4, <3>1
    <3>3. inner[k - 1] = source[k - 1 + 1]
      BY <1>1, <3>1
    <3>4. k - 1 + 1 = k
      BY <3>1
    <3>5. FolderName(i, t, k) = source[k]
      BY <3>1 DEF FolderName, source
    <3> QED
      BY <3>2, <3>3, <3>4, <3>5
  <2> QED
    BY <2>1, <2>2
<1> QED
  BY <1>5 DEF OnTheWay, t

\* At the top of the wiki the names of the way are those of the source.
LEMMA JobOnTheWay ==
    ASSUME job.base \in Path, Len(job.base) = 0, NEW ns, NEW i \in Files
    PROVE  OnTheWay(ns, i, JobTarget(i))
<1>1. Source[i] \in Path /\ Len(Source[i]) \in Nat
  BY InnerIsPath
<1>2. job.base = <<>>
  BY EmptySeq DEF Path
<1>3. JobTarget(i) = Source[i]
  BY <1>1, <1>2, ConcatEmptySeq DEF JobTarget, Path
<1> QED
  BY <1>1, <1>3 DEF OnTheWay, FolderName

\* The files of the session, and those of the job.
SessionTargets == [i \in Files |-> Target(i)]
SessionOwners == [i \in Files |-> i]
JobTargets == [i \in Files |-> JobTarget(i)]
JobOwners == [i \in Files |-> JobOf(i)]

LEMMA OwnersAreNumbers ==
    ASSUME NEW i \in Files
    PROVE  /\ i \in -1 .. 2 * N /\ JobOf(i) \in -1 .. 2 * N /\ i \in 1 .. N
           /\ \A j \in Files : JobOf(i) # j
           /\ JobOf(i) # Folder /\ JobOf(i) # User /\ i # Folder /\ i # User
           /\ \A j \in Files : JobOf(i) = JobOf(j) => i = j
BY ImportAssumption DEF Files, JobOf, Folder, User

\* All files of the session that are made are made at their targets.
LEMMA SessionRuns ==
    ASSUME NEW ns \in SUBSET ImportNode, NEW list, list \subseteq Files, imp.base \in Path,
           NEW p, p = PlaceAll(ns, list, Target, Itself)
    PROVE  /\ p \in Runs
           /\ AllMade(ns, p.ns, list, SessionTargets, SessionOwners)
           /\ p.ok => \A i \in list : \E n \in p.ns \ ns : n.by = i
<1> DEFINE Run(run) == run = [k \in 0 .. N |->
              IF k = 0 THEN [ns |-> ns, ok |-> TRUE]
              ELSE IF ~run[k - 1].ok \/ k \notin list THEN run[k - 1]
              ELSE Place(run[k - 1].ns, k, Target(k), Itself(k))]
           tf == SessionTargets
           bf == SessionOwners
<1>1. /\ \A i \in Files : tf[i] = Target(i) /\ bf[i] = i
      /\ \A i \in Files : tf[i] \in Path /\ tf[i] # <<>>
      /\ \A i \in Files : bf[i] \in -1 .. 2 * N
  BY TargetsArePaths, OwnersAreNumbers DEF SessionTargets, SessionOwners
<1> HIDE DEF tf, bf
<1>2. ASSUME NEW run PROVE IsRun(run, ns, list, tf, bf) <=> Run(run)
  <2>1. ASSUME NEW k \in 0 .. N, k # 0
        PROVE  TakeFile(list, tf, bf, k, run[k - 1]) =
               IF ~run[k - 1].ok \/ k \notin list THEN run[k - 1]
               ELSE Place(run[k - 1].ns, k, Target(k), Itself(k))
    <3>1. k \in Files
      BY <2>1, ImportAssumption DEF Files
    <3> QED
      BY <1>1, <3>1 DEF TakeFile, Itself
  <2> QED
    BY <2>1 DEF IsRun
<1> DEFINE chosen == CHOOSE run : Run(run)
<1>3. p = chosen[N]
  BY DEF PlaceAll
<1>4. Run(chosen)
  <2>1. \E run : IsRun(run, ns, list, tf, bf)
    BY <1>1, RunExists
  <2>2. \E run : Run(run)
    <3> HIDE DEF Run
    <3> QED
      BY <1>2, <2>1
  <2> HIDE DEF Run
  <2> QED
    BY <2>2
<1> HIDE DEF chosen
<1>5. IsRun(chosen, ns, list, tf, bf)
  BY <1>2, <1>4
<1>6. /\ chosen[N] \in Runs /\ AllMade(ns, chosen[N].ns, list, tf, bf)
      /\ chosen[N].ok => \A i \in list : \E n \in chosen[N].ns \ ns : n.by = bf[i]
  BY <1>1, <1>5, RunMakesAll
<1> QED
  BY <1>1, <1>3, <1>6 DEF tf, bf

\* All files of the job that are made are made at theirs.
LEMMA JobRuns ==
    ASSUME NEW ns \in SUBSET ImportNode, job.base \in Path,
           NEW p, p = PlaceAll(ns, Files, JobTarget, JobOf)
    PROVE  /\ p \in Runs
           /\ AllMade(ns, p.ns, Files, JobTargets, JobOwners)
           /\ p.ok => \A i \in Files : \E n \in p.ns \ ns : n.by = JobOf(i)
<1> DEFINE Run(run) == run = [k \in 0 .. N |->
              IF k = 0 THEN [ns |-> ns, ok |-> TRUE]
              ELSE IF ~run[k - 1].ok \/ k \notin Files THEN run[k - 1]
              ELSE Place(run[k - 1].ns, k, JobTarget(k), JobOf(k))]
           tf == JobTargets
           bf == JobOwners
<1>1. /\ \A i \in Files : tf[i] = JobTarget(i) /\ bf[i] = JobOf(i)
      /\ \A i \in Files : tf[i] \in Path /\ tf[i] # <<>>
      /\ \A i \in Files : bf[i] \in -1 .. 2 * N
  BY JobTargetsArePaths, OwnersAreNumbers DEF JobTargets, JobOwners
<1> HIDE DEF tf, bf
<1>2. ASSUME NEW run PROVE IsRun(run, ns, Files, tf, bf) <=> Run(run)
  <2>1. ASSUME NEW k \in 0 .. N, k # 0
        PROVE  TakeFile(Files, tf, bf, k, run[k - 1]) =
               IF ~run[k - 1].ok \/ k \notin Files THEN run[k - 1]
               ELSE Place(run[k - 1].ns, k, JobTarget(k), JobOf(k))
    <3>1. k \in Files
      BY <2>1, ImportAssumption DEF Files
    <3> QED
      BY <1>1, <3>1 DEF TakeFile
  <2> QED
    BY <2>1 DEF IsRun
<1> DEFINE chosen == CHOOSE run : Run(run)
<1>3. p = chosen[N]
  BY DEF PlaceAll
<1>4. Run(chosen)
  <2>1. \E run : IsRun(run, ns, Files, tf, bf)
    BY <1>1, RunExists
  <2>2. \E run : Run(run)
    <3> HIDE DEF Run
    <3> QED
      BY <1>2, <2>1
  <2> HIDE DEF Run
  <2> QED
    BY <2>2
<1> HIDE DEF chosen
<1>5. IsRun(chosen, ns, Files, tf, bf)
  BY <1>2, <1>4
<1>6. /\ chosen[N] \in Runs /\ AllMade(ns, chosen[N].ns, Files, tf, bf)
      /\ chosen[N].ok => \A i \in Files : \E n \in chosen[N].ns \ ns : n.by = bf[i]
  BY <1>1, <1>5, RunMakesAll
<1> QED
  BY <1>1, <1>3, <1>6 DEF tf, bf

-----------------------------------------------------------------------------
(* Imports: what holds between the rows, the requests and the nodes *)

ItemStatus == {"absent", "pending", "uploaded", "conflict", "failed", "ignored", "skipped"}
OpenStatus == {"pending", "conflict", "failed"}
FileRows == [Files -> [status : ItemStatus, made : BOOLEAN]]
Defaults == {None, "skip", "overwrite"}
ForMany == {"retry_all", "skip_all", "overwrite_all"}
RequestOps == OnOne \cup ForMany \cup {"none", "cancel", "apply"}

\* What is there stays; what is new are folders and files of the session, in their
\* places where the way to them is there.
SessionAdds(ns, more) ==
    /\ ns \subseteq more /\ more \in SUBSET ImportNode
    /\ \A n \in more \ ns : n.by = Folder \/
          \E i \in Files : n.by = i /\ (OnTheWay(ns, i, Target(i)) => n.path = Target(i))

LEMMA FirstIsOne ==
    ASSUME NEW list, list \subseteq Files, list # {}
    PROVE  First(list) \in list
<1>1. N \in Nat /\ list \subseteq Nat
  BY ImportAssumption DEF Files
<1>2. IsWellFoundedOn(OpToRel(<, Nat), Nat)
  BY NatLessThanWellFounded, Zenon
<1>3. PICK x \in list : \A y \in list : ~ (<<y, x>> \in OpToRel(<, Nat))
  BY <1>1, <1>2, WFMin, Zenon
<1>4. ASSUME NEW y \in list PROVE x <= y
  <2>1. x \in Nat /\ y \in Nat
    BY <1>1
  <2>2. ~ (y < x)
    BY <1>3, <2>1 DEF OpToRel
  <2> QED
    BY <2>1, <2>2
<1>5. \E i \in list : \A j \in list : i <= j
  BY <1>4
<1> QED
  BY <1>5 DEF First

\* Carrying an import out: the rows keep their status, and if all goes well every
\* file that was taken has its node.
LEMMA CarriedOut ==
    ASSUME NEW ns \in SUBSET ImportNode, NEW rows \in FileRows, imp.base \in Path,
           NEW m, m = Materialize(rows, ns)
    PROVE  /\ SessionAdds(ns, m.ns)
           /\ \A i \in Files : m.rows[i].status = rows[i].status /\ m.rows[i].made \in BOOLEAN
           /\ m.ok \in BOOLEAN
           /\ m.ok => \A i \in Files : rows[i].status = "uploaded" => m.rows[i].made
<1> DEFINE list == {i \in Files : rows[i].status = "uploaded"}
           placed == PlaceAll(ns, list, Target, Itself)
           broken == list \cap Broken
           noted == {i \in list : \E n \in placed.ns \ ns : n.by = i
                       /\ (i \in Assets \/ (placed.ok /\ \A b \in broken : i < b))}
<1> HIDE DEF placed
<1>1. /\ m.ns = placed.ns /\ m.ok = (placed.ok /\ broken = {})
      /\ m.rows = [i \in Files |-> IF i \in noted THEN [rows[i] EXCEPT !.made = TRUE] ELSE rows[i]]
  BY DEF Materialize, placed
<1>2. /\ placed \in Runs /\ AllMade(ns, placed.ns, list, SessionTargets, SessionOwners)
      /\ placed.ok => \A i \in list : \E n \in placed.ns \ ns : n.by = i
  <2>1. list \subseteq Files
    OBVIOUS
  <2> HIDE DEF list
  <2> QED
    BY <2>1, SessionRuns DEF placed
<1>3. SessionAdds(ns, placed.ns)
  <2>1. ns \subseteq placed.ns /\ placed.ns \in SUBSET ImportNode
    BY <1>2 DEF AllMade
  <2>2. ASSUME NEW n \in placed.ns \ ns
        PROVE  n.by = Folder \/
               \E i \in Files : n.by = i /\ (OnTheWay(ns, i, Target(i)) => n.path = Target(i))
    <3>1. \A i \in list : i \in Files /\ SessionTargets[i] = Target(i) /\ SessionOwners[i] = i
      BY DEF SessionTargets, SessionOwners
    <3> HIDE DEF list
    <3>2. n.by = Folder \/ \E i \in list : n.by = SessionOwners[i] /\
             (OnTheWay(ns, i, SessionTargets[i]) => n.path = SessionTargets[i])
      BY <1>2 DEF AllMade
    <3> QED
      BY <3>1, <3>2
  <2> QED
    BY <2>1, <2>2 DEF SessionAdds
<1>4. \A i \in Files : rows[i] \in [status : ItemStatus, made : BOOLEAN]
  BY DEF FileRows
<1>5. ASSUME NEW i \in Files
      PROVE  /\ m.rows[i].status = rows[i].status /\ m.rows[i].made \in BOOLEAN
             /\ (i \in noted => m.rows[i].made)
  <2> HIDE DEF noted
  <2>1. rows[i] \in [status : ItemStatus, made : BOOLEAN]
    BY <1>4
  <2>2. CASE i \in noted
    <3>1. m.rows[i] = [rows[i] EXCEPT !.made = TRUE]
      BY <1>1, <2>2
    <3> QED
      BY <2>1, <3>1
  <2>3. CASE i \notin noted
    <3>1. m.rows[i] = rows[i]
      BY <1>1, <2>3
    <3> QED
      BY <2>1, <2>3, <3>1
  <2> QED
    BY <2>2, <2>3
<1>6. ASSUME m.ok, NEW i \in Files, rows[i].status = "uploaded" PROVE m.rows[i].made
  <2>1. placed.ok /\ broken = {} /\ i \in list
    BY <1>1, <1>6
  <2>2. i \in noted
    BY <1>2, <2>1
  <2> QED
    BY <1>5, <2>2
<1>7. m.ok \in BOOLEAN
  BY <1>1, <1>2 DEF Runs
<1> QED
  BY <1>1, <1>3, <1>5, <1>6, <1>7

-----------------------------------------------------------------------------

\* The folders at the top that can be imported into are those nobody can delete.
TopsAreSystem == \A b \in Bases : Len(b) = 1 => b \in SystemFolders

ImportShape ==
    /\ nodes \in SUBSET ImportNode
    /\ imp \in [status : {"none", "running", "completed", "cancelled"},
                base : Path, default : Defaults]
    /\ item \in FileRows
    /\ job \in [status : {"none", "queued", "succeeded"}, base : Path]
    /\ inreq \in [Requests -> [op : RequestOps, i : 0 .. N, default : Defaults,
                               rows : FileRows \cup {<<>>}]]

\* A request that waits for its turn still finds what it was asked for.
Finds(r) ==
    /\ inreq[r].op \in OnOne =>
          inreq[r].i \in Files /\ Open(inreq[r].i) /\ imp.status = "running"
    /\ inreq[r].op \in ForMany => inreq[r].rows = item /\ imp.status = "running"
    /\ inreq[r].op = "retry_all" => Was(r, "failed") # {}
    /\ inreq[r].op \in {"skip_all", "overwrite_all"} => Was(r, "conflict") # {}
    /\ inreq[r].op = "cancel" => imp.status \in {"running", "cancelled"}
Apart(r, q) ==
    inreq[r].op \in OnOne /\ inreq[q].op \in OnOne /\ inreq[r].i # inreq[q].i
RequestsFit ==
    /\ \A r \in Requests : Finds(r)
    /\ \A r \in Busy : \A q \in Busy : r # q => Apart(r, q)

FilesFit ==
    /\ SettledIsCarriedOut /\ CompletedIsWhole
    /\ imp.status = "none" => ~Scanned
    /\ imp.status = "completed" => Scanned

\* The node of a file is where it belongs.
InPlace(n, i) == TopsAreSystem /\ Len(imp.base) = 1 => n.path = Target(i)
NodesFit ==
    \A n \in nodes, i \in Files : n.by = i => imp.status # "none" /\ InPlace(n, i)
JobFits ==
    \A n \in nodes, i \in Files :
      n.by = JobOf(i) => job.status = "succeeded" /\ (Len(job.base) = 0 => n.path = JobTarget(i))
BaseFits ==
    TopsAreSystem /\ imp.status # "none" /\ Len(imp.base) = 1 =>
      imp.base \in SystemFolders /\ imp.base \in Taken(nodes)

ImportInv == ImportShape /\ RequestsFit /\ FilesFit /\ NodesFit /\ JobFits /\ BaseFits

LEMMA StartFits == ASSUME ImportInit PROVE ImportInv
<1> USE DEF ImportInit
<1>1. ImportShape
  <2>1. nodes \in SUBSET ImportNode
    <3>1. ASSUME NEW p \in SystemFolders \cup UNION {Prefixes(b) : b \in Bases}
          PROVE  NodeAt(p, Folder) \in ImportNode
      <4>1. p \in Path \ {<<>>}
        <5>1. CASE p \in SystemFolders
          BY <5>1, ImportAssumption DEF Path
        <5>2. CASE \E b \in Bases : p \in Prefixes(b)
          <6>1. PICK b \in Bases : p \in Prefixes(b)
            BY <5>2
          <6>2. PICK k \in 1 .. Len(b) : p = SubSeq(b, 1, k)
            BY <6>1 DEF Prefixes
          <6>3. b \in Path /\ Len(b) \in Nat
            BY ImportAssumption, LenProperties DEF Path
          <6>4. p \in Path /\ Len(p) = k
            <7>1. k \in 0 .. Len(b)
              BY <6>3
            <7> QED
              BY <6>2, <6>3, <7>1, BeginningOfPath
          <6>5. p # <<>>
            <7>1. Len(<<>>) = 0 /\ k # 0
              BY <6>3
            <7> QED
              BY <6>4, <7>1
          <6> QED
            BY <6>4, <6>5
        <5> QED
          BY <5>1, <5>2
      <4> QED
        BY <4>1, NodeIsNode, FolderIsKind DEF Folder
    <3> QED
      BY <3>1
  <2>2. item \in FileRows
    BY DEF FileRows, ItemRow, ItemStatus
  <2>3. <<>> \in Path
    BY DEF Path
  <2>4. inreq \in [Requests -> [op : RequestOps, i : 0 .. N, default : Defaults,
                               rows : FileRows \cup {<<>>}]]
    BY ImportAssumption DEF NoRequest, RequestOps, Defaults
  <2> QED
    BY <2>1, <2>2, <2>3, <2>4 DEF ImportShape, Defaults
<1>2. RequestsFit
  BY DEF RequestsFit, Finds, Busy, OnOne, ForMany, NoRequest
<1>3. FilesFit
  BY DEF FilesFit, SettledIsCarriedOut, CompletedIsWhole, Scanned, ItemRow
<1>4. NodesFit /\ JobFits
  <2>1. \A n \in nodes : n.by = Folder
    BY DEF NodeAt
  <2> QED
    BY <2>1, OwnersAreNumbers DEF NodesFit, JobFits
<1>5. BaseFits
  BY DEF BaseFits
<1> QED
  BY <1>1, <1>2, <1>3, <1>4, <1>5 DEF ImportInv

\* What the end of a request leaves: the import goes on and a file is open, or it
\* is complete, or all is as it was.
GoesOn(rows) ==
    /\ imp'.status = imp.status /\ item' \in FileRows
    /\ \E i \in Files : item'[i].status \in OpenStatus
    /\ \A i \in Files : rows[i].status \in OpenStatus => item'[i].status \in OpenStatus
    /\ \A i \in Files : rows[i].status # "absent" => item'[i].status # "absent"
EndsWhole(rows) ==
    /\ imp'.status = "completed" /\ item' \in FileRows
    /\ \A i \in Files : /\ rows[i].status \notin OpenStatus
                        /\ item'[i].status = rows[i].status
                        /\ item'[i].status = "uploaded" => item'[i].made
RequestEnds(r, rows, ns) ==
    /\ inreq' = [inreq EXCEPT ![r] = NoRequest] /\ job' = job
    /\ imp' \in [status : {"none", "running", "completed", "cancelled"},
                 base : Path, default : Defaults]
    /\ imp'.base = imp.base
    /\ \/ nodes' = nodes /\ item' = item /\ imp' = imp
       \/ SessionAdds(ns, nodes') /\ (GoesOn(rows) \/ EndsWhole(rows))

LEMMA RowIsRow ==
    ASSUME NEW rows \in FileRows, NEW i \in Files
    PROVE  rows[i] \in [status : ItemStatus, made : BOOLEAN]
BY DEF FileRows

LEMMA RequestIsEnded ==
    ASSUME ImportShape, NEW r, NEW rows \in FileRows, NEW ns \in SUBSET ImportNode,
           NEW default \in Defaults, NEW failed \in 0 .. N,
           Finish(r, rows, rows, ns, default, failed)
    PROVE  RequestEnds(r, rows, ns)
<1> DEFINE m == Materialize(rows, ns)
           made == [i \in Files |-> [rows[i] EXCEPT !.made = @ \/ m.rows[i].made]]
<1> HIDE DEF m
<1>1. /\ imp \in [status : {"none", "running", "completed", "cancelled"},
                  base : Path, default : Defaults]
      /\ [imp EXCEPT !.default = default] \in
            [status : {"none", "running", "completed", "cancelled"}, base : Path, default : Defaults]
      /\ [imp EXCEPT !.status = "completed", !.default = default] \in
            [status : {"none", "running", "completed", "cancelled"}, base : Path, default : Defaults]
  BY DEF ImportShape
<1>2. /\ SessionAdds(ns, m.ns)
      /\ \A i \in Files : m.rows[i].status = rows[i].status /\ m.rows[i].made \in BOOLEAN
      /\ m.ok \in BOOLEAN
      /\ m.ok => \A i \in Files : rows[i].status = "uploaded" => m.rows[i].made
  BY <1>1, CarriedOut DEF m
<1>3. SessionAdds(ns, ns)
  BY DEF SessionAdds
<1>4. ASSUME NEW i \in Files
      PROVE  /\ made[i] \in [status : ItemStatus, made : BOOLEAN]
             /\ made[i].status = rows[i].status /\ (m.rows[i].made => made[i].made)
  <2>1. rows[i] \in [status : ItemStatus, made : BOOLEAN] /\ m.rows[i].made \in BOOLEAN
    BY <1>2, RowIsRow
  <2>2. made[i] = [rows[i] EXCEPT !.made = rows[i].made \/ m.rows[i].made]
    OBVIOUS
  <2> HIDE DEF made
  <2> QED
    BY <2>1, <2>2
<1>5. made \in FileRows
  <2>1. made = [i \in Files |-> made[i]]
    OBVIOUS
  <2> HIDE DEF made
  <2> QED
    BY <1>4, <2>1 DEF FileRows
<1>6. Finish(r, rows, rows, ns, default, failed) <=>
       /\ Answered(r) /\ UNCHANGED job
       /\ \/ /\ ~Ready(rows)
             /\ nodes' = ns /\ item' = rows /\ imp' = [imp EXCEPT !.default = default]
          \/ /\ Ready(rows) /\ m.ok
             /\ nodes' = m.ns /\ item' = made
             /\ imp' = [imp EXCEPT !.status = "completed", !.default = default]
          \/ /\ Ready(rows) /\ ~m.ok /\ failed # 0
             /\ nodes' = m.ns
             /\ item' = [made EXCEPT ![failed].status = "failed"]
             /\ imp' = [imp EXCEPT !.default = default]
          \/ /\ Ready(rows) /\ ~m.ok /\ failed = 0
             /\ UNCHANGED <<nodes, item, imp>>
  BY DEF Finish, m
<1> HIDE DEF made
<1>7. inreq' = [inreq EXCEPT ![r] = NoRequest] /\ job' = job
  BY <1>6 DEF Answered
<1>8. Ready(rows) <=> \A i \in Files : rows[i].status \notin OpenStatus
  BY DEF Ready, OpenStatus
<1>9. CASE ~Ready(rows) /\ nodes' = ns /\ item' = rows /\ imp' = [imp EXCEPT !.default = default]
  <2>1. GoesOn(rows)
    BY <1>1, <1>8, <1>9 DEF GoesOn
  <2> QED
    BY <1>1, <1>3, <1>7, <1>9, <2>1 DEF RequestEnds
<1>10. CASE /\ Ready(rows) /\ m.ok /\ nodes' = m.ns /\ item' = made
            /\ imp' = [imp EXCEPT !.status = "completed", !.default = default]
  <2>1. EndsWhole(rows)
    BY <1>1, <1>2, <1>4, <1>5, <1>8, <1>10 DEF EndsWhole
  <2> QED
    BY <1>1, <1>2, <1>7, <1>10, <2>1 DEF RequestEnds
<1>11. CASE /\ Ready(rows) /\ ~m.ok /\ failed # 0 /\ nodes' = m.ns
            /\ item' = [made EXCEPT ![failed].status = "failed"]
            /\ imp' = [imp EXCEPT !.default = default]
  <2>1. failed \in Files
    BY <1>11, ImportAssumption DEF Files
  <2>2. ASSUME NEW i \in Files
        PROVE  /\ item'[i] \in [status : ItemStatus, made : BOOLEAN]
               /\ item'[i].status = IF i = failed THEN "failed" ELSE rows[i].status
    <3>1. DOMAIN made = Files
      BY <1>5 DEF FileRows
    <3>2. CASE i = failed
      <4>1. item'[i] = [made[i] EXCEPT !.status = "failed"]
        BY <1>11, <2>1, <3>1, <3>2
      <4>2. "failed" \in ItemStatus
        BY DEF ItemStatus
      <4> QED
        BY <1>4, <3>2, <4>1, <4>2
    <3>3. CASE i # failed
      <4>1. item'[i] = made[i]
        BY <1>11, <3>1, <3>3
      <4> QED
        BY <1>4, <3>3, <4>1
    <3> QED
      BY <3>2, <3>3
  <2>3. item' \in FileRows
    <3>1. DOMAIN made = Files
      BY <1>5 DEF FileRows
    <3>2. item' = [i \in Files |-> item'[i]]
      BY <1>11, <3>1
    <3> QED
      BY <2>2, <3>2 DEF FileRows
  <2>4. GoesOn(rows)
    BY <1>1, <1>11, <2>1, <2>2, <2>3 DEF GoesOn, OpenStatus
  <2> QED
    BY <1>1, <1>2, <1>7, <1>11, <2>4 DEF RequestEnds
<1>12. CASE nodes' = nodes /\ item' = item /\ imp' = imp
  BY <1>1, <1>7, <1>12 DEF RequestEnds
<1> QED
  BY <1>6, <1>9, <1>10, <1>11, <1>12

LEMMA OpenIsOpen == \A i \in Files : Open(i) <=> item[i].status \in OpenStatus
BY DEF Open, OpenStatus

LEMMA ShapeIsShape ==
    ASSUME ImportShape, NEW r \in Requests
    PROVE  inreq[r] \in [op : RequestOps, i : 0 .. N, default : Defaults, rows : FileRows \cup {<<>>}]
BY DEF ImportShape

LEMMA NoRequestIsRequest ==
    /\ NoRequest \in [op : RequestOps, i : 0 .. N, default : Defaults, rows : FileRows \cup {<<>>}]
    /\ NoRequest.op = "none"
BY ImportAssumption DEF NoRequest, RequestOps, Defaults

\* A file stays in its place as long as the folder that was imported into does.
LEMMA PlaceStays ==
    ASSUME imp'.base = imp.base, NEW n, NEW i
    PROVE  /\ InPlace(n, i) => InPlace(n, i)'
           /\ Target(i)' = Target(i)
BY DEF InPlace, Target, Inner

LEMMA AddedInPlace ==
    ASSUME imp.base \in Path, imp'.base = imp.base, NEW ns, NEW more, SessionAdds(ns, more),
           TopsAreSystem /\ Len(imp.base) = 1 => imp.base \in Taken(ns),
           NEW n \in more, n \notin ns, NEW i \in Files, n.by = i
    PROVE  InPlace(n, i)'
<1>1. i # Folder
  BY OwnersAreNumbers
<1>2. PICK j \in Files : n.by = j /\ (OnTheWay(ns, j, Target(j)) => n.path = Target(j))
  BY <1>1 DEF SessionAdds
<1>3. i = j
  BY <1>2
<1>4. ASSUME TopsAreSystem, Len(imp.base) = 1 PROVE n.path = Target(i)
  <2>1. OnTheWay(ns, i, Target(i))
    BY <1>4, SessionOnTheWay
  <2> QED
    BY <1>2, <1>3, <2>1
<1>5. InPlace(n, i)
  BY <1>4 DEF InPlace
<1> QED
  BY <1>5, PlaceStays

LEMMA OthersAreOnOne ==
    ASSUME RequestsFit, NEW r \in Busy, NEW q \in Busy, r # q
    PROVE  /\ inreq[q].op \in OnOne /\ inreq[q].i \in Files
           /\ item[inreq[q].i].status \in OpenStatus /\ inreq[r].i # inreq[q].i
<1>1. Apart(r, q) /\ Finds(q) /\ q \in Requests
  BY DEF RequestsFit, Busy
<1> QED
  BY <1>1, OpenIsOpen DEF Apart, Finds

LEMMA EndedFits ==
    ASSUME ImportInv, NEW r \in Busy, imp.status = "running",
           NEW rows \in FileRows, NEW ns, ns \subseteq nodes,
           TopsAreSystem /\ Len(imp.base) = 1 => imp.base \in Taken(ns),
           \A q \in Busy : q # r => rows[inreq[q].i].status \in OpenStatus,
           \E i \in Files : rows[i].status # "absent",
           RequestEnds(r, rows, ns)
    PROVE  ImportInv'
<1>0. ImportShape /\ RequestsFit /\ FilesFit /\ NodesFit /\ JobFits /\ BaseFits
  BY DEF ImportInv
<1>1. /\ inreq' = [inreq EXCEPT ![r] = NoRequest] /\ job' = job /\ r \in Requests
      /\ imp' \in [status : {"none", "running", "completed", "cancelled"},
                   base : Path, default : Defaults]
      /\ imp'.base = imp.base
  BY DEF RequestEnds, Busy
<1>2. /\ nodes' \in SUBSET ImportNode /\ item' \in FileRows
      /\ \A n \in nodes' : n \in nodes \/ (SessionAdds(ns, nodes') /\ n \notin ns)
      /\ Taken(ns) \subseteq Taken(nodes')
  <2>1. CASE nodes' = nodes /\ item' = item
    BY <1>0, <2>1 DEF ImportShape, Taken
  <2>2. CASE SessionAdds(ns, nodes') /\ item' \in FileRows
    BY <2>2 DEF SessionAdds, Taken
  <2> QED
    BY <2>1, <2>2 DEF RequestEnds, GoesOn, EndsWhole
<1>3. /\ inreq'[r] = NoRequest
      /\ \A q \in Requests : q # r => inreq'[q] = inreq[q]
      /\ inreq' \in [Requests -> [op : RequestOps, i : 0 .. N, default : Defaults,
                               rows : FileRows \cup {<<>>}]]
  BY <1>0, <1>1, NoRequestIsRequest DEF ImportShape
<1>4. \A q \in Requests : q \in Busy' <=> q \in Busy /\ q # r
  BY <1>3, NoRequestIsRequest DEF Busy
<1>5. ImportShape'
  BY <1>0, <1>1, <1>2, <1>3 DEF ImportShape
<1>6. (imp' = imp /\ item' = item) \/ GoesOn(rows) \/ EndsWhole(rows)
  BY DEF RequestEnds
<1>7. RequestsFit'
  <2>1. ASSUME NEW q \in Requests PROVE Finds(q)'
    <3>1. CASE q \notin Busy \/ q = r
      <4>1. inreq'[q].op \in {"none", "apply"}
        BY <1>3, <3>1, NoRequestIsRequest DEF Busy
      <4> QED
        BY <4>1 DEF Finds, OnOne, ForMany
    <3>2. CASE q \in Busy /\ q # r
      <4>1. inreq[q].op \in OnOne /\ inreq[q].i \in Files /\ item[inreq[q].i].status \in OpenStatus
        BY <1>0, <3>2, OthersAreOnOne
      <4>2. inreq'[q] = inreq[q]
        BY <1>3, <3>2
      <4>3. imp'.status = "running" /\ item'[inreq[q].i].status \in OpenStatus
        <5>1. CASE imp' = imp /\ item' = item
          BY <4>1, <5>1
        <5>2. CASE GoesOn(rows)
          BY <3>2, <4>1, <5>2 DEF GoesOn
        <5>3. ~ EndsWhole(rows)
          BY <3>2, <4>1 DEF EndsWhole
        <5> QED
          BY <1>6, <5>1, <5>2, <5>3
      <4>4. Open(inreq[q].i)'
        BY <4>1, <4>2, <4>3 DEF Open, OpenStatus
      <4>5. inreq'[q].op \notin ForMany \cup {"cancel", "retry_all", "skip_all", "overwrite_all"}
        BY <4>1, <4>2 DEF OnOne, ForMany
      <4> QED
        BY <4>1, <4>2, <4>3, <4>4, <4>5 DEF Finds
    <3> QED
      BY <3>1, <3>2
  <2>2. ASSUME NEW p \in Busy', NEW q \in Busy', p # q PROVE Apart(p, q)'
    <3>1. p \in Busy /\ q \in Busy /\ p # r /\ q # r /\ p \in Requests /\ q \in Requests
      BY <1>4 DEF Busy
    <3>2. Apart(p, q) /\ inreq'[p] = inreq[p] /\ inreq'[q] = inreq[q]
      BY <1>0, <1>3, <2>2, <3>1 DEF RequestsFit
    <3> QED
      BY <3>2 DEF Apart
  <2> QED
    BY <2>1, <2>2 DEF RequestsFit
<1>8. FilesFit'
  <2>1. CASE imp' = imp /\ item' = item
    BY <1>0, <2>1 DEF FilesFit, SettledIsCarriedOut, CompletedIsWhole, Scanned, Open
  <2>2. CASE GoesOn(rows)
    <3>1. imp'.status = "running" /\ \E i \in Files : item'[i].status \in OpenStatus
      BY <2>2 DEF GoesOn
    <3>2. \E i \in Files : Open(i)'
      BY <3>1 DEF Open, OpenStatus
    <3> QED
      BY <3>1, <3>2 DEF FilesFit, SettledIsCarriedOut, CompletedIsWhole
  <2>3. CASE EndsWhole(rows)
    <3>1. /\ imp'.status = "completed"
          /\ \A i \in Files : ~ Open(i)' /\ (item'[i].status = "uploaded" => item'[i].made)
      BY <2>3 DEF EndsWhole, Open, OpenStatus
    <3>2. Scanned'
      BY <2>3 DEF EndsWhole, Scanned
    <3> QED
      BY <3>1, <3>2 DEF FilesFit, SettledIsCarriedOut, CompletedIsWhole
  <2> QED
    BY <1>6, <2>1, <2>2, <2>3
<1>9. imp'.status # "none"
  BY <1>6 DEF GoesOn, EndsWhole
<1>10. NodesFit'
  <2>1. ASSUME NEW n \in nodes', NEW i \in Files, n.by = i PROVE InPlace(n, i)'
    <3>1. CASE n \in nodes
      <4>1. InPlace(n, i)
        BY <1>0, <2>1, <3>1 DEF NodesFit
      <4> QED
        BY <1>1, <4>1, PlaceStays
    <3>2. CASE SessionAdds(ns, nodes') /\ n \notin ns
      <4>1. imp.base \in Path
        BY <1>0 DEF ImportShape
      <4> QED
        BY <1>1, <2>1, <3>2, <4>1, AddedInPlace
    <3> QED
      BY <1>2, <3>1, <3>2
  <2> QED
    BY <1>9, <2>1 DEF NodesFit
<1>11. JobFits'
  <2>1. ASSUME NEW n \in nodes', NEW i \in Files, n.by = JobOf(i) PROVE n \in nodes
    BY <1>2, <2>1, OwnersAreNumbers DEF SessionAdds
  <2>2. ASSUME NEW n \in nodes', NEW i \in Files, n.by = JobOf(i)
        PROVE  job'.status = "succeeded" /\ (Len(job'.base) = 0 => n.path = JobTarget(i)')
    <3>1. job.status = "succeeded" /\ (Len(job.base) = 0 => n.path = JobTarget(i))
      BY <1>0, <2>1, <2>2 DEF JobFits
    <3>2. JobTarget(i)' = JobTarget(i)
      BY <1>1 DEF JobTarget
    <3> QED
      BY <1>1, <3>1, <3>2
  <2> QED
    BY <2>2 DEF JobFits, JobOf
<1>12. BaseFits'
  <2>1. ASSUME TopsAreSystem, Len(imp.base) = 1
        PROVE  imp.base \in SystemFolders /\ imp.base \in Taken(nodes')
    <3>1. imp.base \in SystemFolders
      BY <1>0, <2>1 DEF BaseFits
    <3> QED
      BY <1>2, <2>1, <3>1
  <2>2. Taken(nodes)' = Taken(nodes')
    BY DEF Taken
  <2> QED
    BY <1>1, <2>1, <2>2 DEF BaseFits, TopsAreSystem
<1> QED
  BY <1>5, <1>7, <1>8, <1>10, <1>11, <1>12 DEF ImportInv

LEMMA MarkedRows ==
    ASSUME item \in FileRows, NEW list, NEW status \in ItemStatus, status # "absent",
           NEW rows, rows = Marked(item, list, status)
    PROVE  /\ rows \in FileRows
           /\ \A i \in Files : /\ i \notin list => rows[i].status = item[i].status
                               /\ item[i].status # "absent" => rows[i].status # "absent"
<1>1. ASSUME NEW i \in Files
      PROVE  /\ rows[i] \in [status : ItemStatus, made : BOOLEAN]
             /\ i \notin list => rows[i].status = item[i].status
             /\ item[i].status # "absent" => rows[i].status # "absent"
  <2>1. item[i] \in [status : ItemStatus, made : BOOLEAN]
    BY RowIsRow
  <2>2. CASE i \in list
    <3>1. rows[i] = [item[i] EXCEPT !.status = status]
      BY <2>2 DEF Marked
    <3> QED
      BY <2>1, <2>2, <3>1
  <2>3. CASE i \notin list
    <3>1. rows[i] = item[i]
      BY <2>3 DEF Marked
    <3> QED
      BY <2>1, <2>3, <3>1
  <2> QED
    BY <2>2, <2>3
<1>2. rows = [i \in Files |-> rows[i]]
  BY DEF Marked
<1> QED
  BY <1>1, <1>2 DEF FileRows

\* The folder that was imported into stays there.
BaseIn(ns) == TopsAreSystem /\ Len(imp.base) = 1 => imp.base \in Taken(ns)

LEMMA BaseIsThere ==
    ASSUME ImportInv, imp.status # "none"
    PROVE  BaseIn(nodes)
BY DEF ImportInv, BaseFits, BaseIn

\* Overwriting targets does not touch what they are below.
LEMMA BaseNotOverwritten ==
    ASSUME ImportInv, imp.status # "none", NEW list, list \subseteq Files
    PROVE  /\ BaseIn(Overwrite(nodes, {Target(i) : i \in list}))
           /\ Overwrite(nodes, {Target(i) : i \in list}) \subseteq nodes
<1> DEFINE paths == {Target(i) : i \in list}
<1>1. imp.base \in Path
  BY DEF ImportInv, ImportShape
<1>2. ASSUME NEW p \in paths PROVE ~ Below(imp.base, p)
  <2>1. PICK i \in list : p = Target(i)
    OBVIOUS
  <2>2. Len(Target(i)) > Len(imp.base) /\ Len(Target(i)) \in Nat /\ Len(imp.base) \in Nat
    BY <1>1, TargetsArePaths
  <2> QED
    BY <2>1, <2>2 DEF Below
<1> HIDE DEF paths
<1>3. ASSUME imp.base \in Taken(nodes) PROVE imp.base \in Taken(Overwrite(nodes, paths))
  <2>1. PICK n \in nodes : n.path = imp.base
    BY <1>3 DEF Taken
  <2>2. n \in Overwrite(nodes, paths)
    BY <1>2, <2>1 DEF Overwrite
  <2> QED
    BY <2>1, <2>2 DEF Taken
<1>4. BaseIn(nodes)
  BY BaseIsThere
<1>5. BaseIn(Overwrite(nodes, paths))
  BY <1>3, <1>4 DEF BaseIn
<1>6. Overwrite(nodes, paths) \subseteq nodes
  BY DEF Overwrite
<1> QED
  BY <1>5, <1>6 DEF paths

LEMMA MarkedEndsFit ==
    ASSUME ImportInv, NEW r \in Busy, imp.status = "running", Scanned,
           NEW list, \A q \in Busy : q # r => inreq[q].i \notin list,
           NEW status \in ItemStatus, status # "absent",
           NEW ns, ns \subseteq nodes, BaseIn(ns),
           NEW default \in Defaults, NEW failed \in 0 .. N,
           NEW rows, rows = Marked(item, list, status),
           Finish(r, rows, rows, ns, default, failed)
    PROVE  /\ ImportInv' /\ RequestEnds(r, rows, ns)
<1>1. ImportShape /\ RequestsFit
  BY DEF ImportInv
<1>2. item \in FileRows /\ nodes \in SUBSET ImportNode
  BY <1>1 DEF ImportShape
<1>3. /\ rows \in FileRows
      /\ \A i \in Files : /\ i \notin list => rows[i].status = item[i].status
                          /\ item[i].status # "absent" => rows[i].status # "absent"
  BY <1>2, MarkedRows
<1>4. RequestEnds(r, rows, ns)
  <2>1. ns \in SUBSET ImportNode
    BY <1>2
  <2> QED
    BY <1>1, <1>3, <2>1, RequestIsEnded
<1>5. \A q \in Busy : q # r => rows[inreq[q].i].status \in OpenStatus
  BY <1>1, <1>3, OthersAreOnOne
<1>6. \E i \in Files : rows[i].status # "absent"
  BY <1>3 DEF Scanned
<1>7. TopsAreSystem /\ Len(imp.base) = 1 => imp.base \in Taken(ns)
  BY DEF BaseIn
<1>8. ImportInv'
  BY <1>3, <1>4, <1>5, <1>6, <1>7, EndedFits
<1> QED
  BY <1>4, <1>8

\* A request for one file has its file to itself; one for many is alone.
LEMMA OneFits ==
    ASSUME ImportInv, NEW r \in Requests, inreq[r].op \in OnOne
    PROVE  /\ r \in Busy /\ imp.status = "running" /\ Scanned
           /\ inreq[r].i \in Files /\ inreq[r].i \in 0 .. N
           /\ \A q \in Busy : q # r => inreq[q].i \notin {inreq[r].i}
           /\ imp.default \in Defaults /\ BaseIn(nodes)
           /\ inreq[r].default \in Defaults
<1>1. Finds(r) /\ RequestsFit /\ ImportShape
  BY DEF ImportInv, RequestsFit
<1>2. inreq[r].i \in Files /\ Open(inreq[r].i) /\ imp.status = "running"
  BY <1>1 DEF Finds
<1>3. r \in Busy
  BY DEF Busy, OnOne
<1>4. Scanned
  BY <1>2 DEF Open, Scanned
<1>5. \A q \in Busy : q # r => inreq[q].i \notin {inreq[r].i}
  BY <1>1, <1>3, OthersAreOnOne
<1>6. imp.default \in Defaults /\ inreq[r].default \in Defaults
  BY <1>1, ShapeIsShape DEF ImportShape
<1>7. BaseIn(nodes)
  BY <1>2, BaseIsThere
<1>8. inreq[r].i \in 0 .. N
  BY <1>2, ImportAssumption DEF Files
<1> QED
  BY <1>2, <1>3, <1>4, <1>5, <1>6, <1>7, <1>8

LEMMA ManyFits ==
    ASSUME ImportInv, NEW r \in Requests, inreq[r].op \in ForMany
    PROVE  /\ r \in Busy /\ imp.status = "running" /\ Scanned
           /\ Busy = {r} /\ inreq[r].rows = item
           /\ inreq[r].op = "retry_all" => Was(r, "failed") # {}
           /\ imp.default \in Defaults /\ BaseIn(nodes)
<1>1. Finds(r) /\ RequestsFit /\ ImportShape
  BY DEF ImportInv, RequestsFit
<1>2. inreq[r].rows = item /\ imp.status = "running"
  BY <1>1 DEF Finds
<1>3. r \in Busy
  BY DEF Busy, ForMany
<1>4. ASSUME NEW q \in Busy PROVE q = r
  <2>1. inreq[r].op \notin OnOne
    BY DEF OnOne, ForMany
  <2> QED
    BY <1>1, <1>3, <2>1 DEF RequestsFit, Apart
<1>5. Scanned
  <2>1. Was(r, "failed") # {} \/ Was(r, "conflict") # {}
    BY <1>1 DEF Finds, ForMany
  <2> QED
    BY <1>2, <2>1 DEF Was, Scanned
<1>6. imp.default \in Defaults
  BY <1>1 DEF ImportShape
<1>7. BaseIn(nodes)
  BY <1>2, BaseIsThere
<1>8. inreq[r].op = "retry_all" => Was(r, "failed") # {}
  BY <1>1 DEF Finds
<1> QED
  BY <1>2, <1>3, <1>4, <1>5, <1>6, <1>7, <1>8

\* A step of an import keeps it sound and does no more than it was told to.
StepFits == ImportInv' /\ EndedStaysEnded /\ NothingGoesUnasked

\* A request that only adds takes nothing away, one that overwrites was asked to.
LEMMA EndsUnasked ==
    ASSUME ImportShape, NEW r \in Requests, inreq[r].op # "none", NEW rows, NEW ns,
           RequestEnds(r, rows, ns),
           \/ ns = nodes
           \/ inreq[r].op \in {"overwrite", "overwrite_all"}
           \/ inreq[r].op = "upload" /\ inreq[r].default = "overwrite"
    PROVE  NothingGoesUnasked
<1>1. nodes' = nodes \/ ns \subseteq nodes'
  BY DEF RequestEnds, SessionAdds
<1>2. inreq'[r] # inreq[r]
  <2>1. inreq'[r] = NoRequest
    BY DEF RequestEnds, ImportShape
  <2> QED
    BY <2>1, NoRequestIsRequest
<1> QED
  BY <1>1, <1>2 DEF NothingGoesUnasked

LEMMA RunningNotEnded == ASSUME imp.status = "running" PROVE EndedStaysEnded
BY DEF EndedStaysEnded

LEMMA OneOverwritten ==
    ASSUME ImportInv, imp.status # "none", NEW i \in Files
    PROVE  BaseIn(Overwrite(nodes, {Target(i)})) /\ Overwrite(nodes, {Target(i)}) \subseteq nodes
<1>1. {Target(j) : j \in {i}} = {Target(i)} /\ {i} \subseteq Files
  OBVIOUS
<1> DEFINE paths == {Target(j) : j \in {i}}
<1>2. BaseIn(Overwrite(nodes, paths)) /\ Overwrite(nodes, paths) \subseteq nodes
  BY <1>1, BaseNotOverwritten
<1> QED
  BY <1>1, <1>2

LEMMA StatusesOfItems ==
    /\ {"uploaded", "skipped", "conflict"} \subseteq ItemStatus
    /\ "absent" \notin {"uploaded", "skipped", "conflict"}
    /\ {"skip", "overwrite", None} \subseteq Defaults
    /\ \A op \in OnOne \cup ForMany : op # "none"
    /\ 0 \in 0 .. N /\ \A i \in Files : i \in 0 .. N
BY ImportAssumption DEF ItemStatus, Defaults, OnOne, ForMany, Files

LEMMA UploadFits ==
    ASSUME ImportInv, NEW r \in Requests, UploadItem(r)
    PROVE  StepFits
<1> DEFINE i == inreq[r].i
           taken == Target(i) \in Taken(nodes)
           action == inreq[r].default
           status == IF ~taken \/ action = "overwrite" THEN "uploaded"
                     ELSE IF action = "skip" THEN "skipped" ELSE "conflict"
           ns == IF taken /\ action = "overwrite" THEN Overwrite(nodes, {Target(i)}) ELSE nodes
           rows == Marked(item, {i}, status)
<1> HIDE DEF status, ns, rows
<1>1. inreq[r].op = "upload" /\ Finish(r, rows, rows, ns, imp.default, i)
  BY DEF UploadItem, UploadSeeing, status, ns, rows
<1>2. inreq[r].op \in OnOne
  BY <1>1 DEF OnOne
<1>3. /\ r \in Busy /\ imp.status = "running" /\ Scanned /\ i \in Files /\ i \in 0 .. N
      /\ \A q \in Busy : q # r => inreq[q].i \notin {i}
      /\ imp.default \in Defaults /\ BaseIn(nodes)
  BY <1>2, OneFits
<1>4. status \in ItemStatus /\ status # "absent"
  BY StatusesOfItems DEF status
<1>5. BaseIn(ns) /\ ns \subseteq nodes
  BY <1>3, OneOverwritten DEF ns
<1>6. ImportInv' /\ RequestEnds(r, rows, ns)
  BY <1>1, <1>3, <1>4, <1>5, MarkedEndsFit DEF rows
<1>7. ns = nodes \/ action = "overwrite"
  BY DEF ns
<1>8. NothingGoesUnasked
  BY <1>1, <1>6, <1>7, EndsUnasked DEF ImportInv
<1> QED
  BY <1>3, <1>6, <1>8, RunningNotEnded DEF StepFits

LEMMA RetryFits ==
    ASSUME ImportInv, NEW r \in Requests, RetryItem(r)
    PROVE  StepFits
<1> DEFINE i == inreq[r].i
           rows == Marked(item, {i}, "uploaded")
<1> HIDE DEF rows
<1>1. inreq[r].op = "retry" /\ Finish(r, rows, rows, nodes, imp.default, i)
  BY DEF RetryItem, rows
<1>2. inreq[r].op \in OnOne
  BY <1>1 DEF OnOne
<1>3. /\ r \in Busy /\ imp.status = "running" /\ Scanned /\ i \in Files /\ i \in 0 .. N
      /\ \A q \in Busy : q # r => inreq[q].i \notin {i}
      /\ imp.default \in Defaults /\ BaseIn(nodes)
  BY <1>2, OneFits
<1>4. ImportInv' /\ RequestEnds(r, rows, nodes)
  BY <1>1, <1>3, StatusesOfItems, MarkedEndsFit DEF rows
<1>5. NothingGoesUnasked
  BY <1>1, <1>4, EndsUnasked DEF ImportInv
<1> QED
  BY <1>3, <1>4, <1>5, RunningNotEnded DEF StepFits

LEMMA ResolveFits ==
    ASSUME ImportInv, NEW r \in Requests, ResolveItem(r)
    PROVE  StepFits
<1> DEFINE i == inreq[r].i
           status == IF inreq[r].op = "skip" THEN "skipped" ELSE "uploaded"
           ns == IF inreq[r].op = "skip" THEN nodes ELSE Overwrite(nodes, {Target(i)})
           rows == Marked(item, {i}, status)
<1> HIDE DEF status, ns, rows
<1>1. inreq[r].op \in {"skip", "overwrite"} /\ Finish(r, rows, rows, ns, imp.default, 0)
  BY DEF ResolveItem, status, ns, rows
<1>2. inreq[r].op \in OnOne
  BY <1>1 DEF OnOne
<1>3. /\ r \in Busy /\ imp.status = "running" /\ Scanned /\ i \in Files
      /\ \A q \in Busy : q # r => inreq[q].i \notin {i}
      /\ imp.default \in Defaults /\ BaseIn(nodes)
  BY <1>2, OneFits
<1>4. status \in ItemStatus /\ status # "absent"
  BY StatusesOfItems DEF status
<1>5. BaseIn(ns) /\ ns \subseteq nodes
  BY <1>3, OneOverwritten DEF ns
<1>6. ImportInv' /\ RequestEnds(r, rows, ns)
  BY <1>1, <1>3, <1>4, <1>5, StatusesOfItems, MarkedEndsFit DEF rows
<1>7. ns = nodes \/ inreq[r].op = "overwrite"
  BY <1>1 DEF ns
<1>8. NothingGoesUnasked
  BY <1>1, <1>6, <1>7, EndsUnasked DEF ImportInv
<1> QED
  BY <1>3, <1>6, <1>8, RunningNotEnded DEF StepFits

LEMMA RetryAllFits ==
    ASSUME ImportInv, NEW r \in Requests, RetryFailedItems(r)
    PROVE  StepFits
<1> DEFINE list == Was(r, "failed")
           rows == Marked(item, list, "uploaded")
<1> HIDE DEF rows, list
<1>1. inreq[r].op = "retry_all" /\ inreq[r].op \in ForMany
  BY DEF RetryFailedItems, ForMany
<1>2. /\ r \in Busy /\ imp.status = "running" /\ Scanned /\ Busy = {r} /\ inreq[r].rows = item
      /\ list # {} /\ imp.default \in Defaults /\ BaseIn(nodes)
  BY <1>1, ManyFits DEF list
<1>3. Finish(r, rows, rows, nodes, imp.default, First(list))
  BY <1>2 DEF RetryFailedItems, rows, list
<1>4. First(list) \in 0 .. N
  <2>1. list \subseteq Files
    BY DEF list, Was
  <2> QED
    BY <1>2, <2>1, FirstIsOne, StatusesOfItems
<1>5. \A q \in Busy : q # r => inreq[q].i \notin list
  BY <1>2
<1>6. ImportInv' /\ RequestEnds(r, rows, nodes)
  BY <1>2, <1>3, <1>4, <1>5, StatusesOfItems, MarkedEndsFit DEF rows
<1>7. NothingGoesUnasked
  BY <1>1, <1>6, EndsUnasked DEF ImportInv
<1> QED
  BY <1>2, <1>6, <1>7, RunningNotEnded DEF StepFits

LEMMA BulkFits ==
    ASSUME ImportInv, NEW r \in Requests, BulkResolveItems(r)
    PROVE  StepFits
<1> DEFINE list == Was(r, "conflict")
           skip == inreq[r].op = "skip_all"
           status == IF skip THEN "skipped" ELSE "uploaded"
           ns == IF skip THEN nodes ELSE Overwrite(nodes, {Target(i) : i \in list})
           rows == Marked(item, list, status)
           default == IF skip THEN "skip" ELSE "overwrite"
<1> HIDE DEF rows, list, status, ns, default
<1>1. inreq[r].op \in {"skip_all", "overwrite_all"} /\ inreq[r].op \in ForMany
  BY DEF BulkResolveItems, ForMany
<1>2. /\ r \in Busy /\ imp.status = "running" /\ Scanned /\ Busy = {r} /\ inreq[r].rows = item
      /\ BaseIn(nodes)
  BY <1>1, ManyFits
<1>3. Finish(r, rows, rows, ns, default, 0)
  BY <1>2 DEF BulkResolveItems, rows, list, status, ns, default
<1>4. status \in ItemStatus /\ status # "absent" /\ default \in Defaults
  BY StatusesOfItems DEF status, default
<1>5. BaseIn(ns) /\ ns \subseteq nodes
  <2>1. list \subseteq Files
    BY DEF list, Was
  <2>2. BaseIn(Overwrite(nodes, {Target(i) : i \in list}))
        /\ Overwrite(nodes, {Target(i) : i \in list}) \subseteq nodes
    BY <1>2, <2>1, BaseNotOverwritten
  <2> QED
    BY <1>2, <2>2 DEF ns
<1>6. \A q \in Busy : q # r => inreq[q].i \notin list
  BY <1>2
<1>7. ImportInv' /\ RequestEnds(r, rows, ns)
  BY <1>2, <1>3, <1>4, <1>5, <1>6, StatusesOfItems, MarkedEndsFit DEF rows
<1>8. ns = nodes \/ inreq[r].op = "overwrite_all"
  BY <1>1 DEF ns
<1>9. NothingGoesUnasked
  BY <1>1, <1>7, <1>8, EndsUnasked DEF ImportInv
<1> QED
  BY <1>2, <1>7, <1>9, RunningNotEnded DEF StepFits

LEMMA CancelFits ==
    ASSUME ImportInv, NEW r \in Requests, CancelSession(r)
    PROVE  StepFits
<1>0. ImportShape /\ RequestsFit /\ FilesFit /\ NodesFit /\ JobFits /\ BaseFits
  BY DEF ImportInv
<1>1. /\ inreq[r].op = "cancel" /\ imp' = [imp EXCEPT !.status = "cancelled"]
      /\ inreq' = [inreq EXCEPT ![r] = NoRequest]
      /\ nodes' = nodes /\ item' = item /\ job' = job
  BY DEF CancelSession, Answered
<1>2. /\ imp' \in [status : {"none", "running", "completed", "cancelled"},
                   base : Path, default : Defaults]
      /\ imp'.base = imp.base /\ imp'.status = "cancelled"
  BY <1>0, <1>1 DEF ImportShape
<1>3. /\ inreq'[r] = NoRequest
      /\ \A q \in Requests : q # r => inreq'[q] = inreq[q]
      /\ inreq' \in [Requests -> [op : RequestOps, i : 0 .. N, default : Defaults,
                               rows : FileRows \cup {<<>>}]]
  BY <1>0, <1>1, NoRequestIsRequest DEF ImportShape
<1>4. imp.status \in {"running", "cancelled"} /\ r \in Busy
  BY <1>0, <1>1 DEF RequestsFit, Finds, Busy
<1>5. Busy = {r}
  <2>1. inreq[r].op \notin OnOne
    BY <1>1 DEF OnOne
  <2> QED
    BY <1>0, <1>4, <2>1 DEF RequestsFit, Apart
<1>6. \A q \in Requests : inreq'[q].op \in {"none", "apply"}
  BY <1>3, <1>5, NoRequestIsRequest DEF Busy
<1>7. RequestsFit'
  <2>1. \A q \in Requests : Finds(q)'
    BY <1>6 DEF Finds, OnOne, ForMany
  <2>2. Busy' = {}
    BY <1>6 DEF Busy
  <2> QED
    BY <2>1, <2>2 DEF RequestsFit
<1>8. ImportShape'
  BY <1>0, <1>1, <1>2, <1>3 DEF ImportShape
<1>9. FilesFit'
  BY <1>2 DEF FilesFit, SettledIsCarriedOut, CompletedIsWhole
<1>10. NodesFit' /\ JobFits' /\ BaseFits'
  <2>1. NodesFit'
    BY <1>0, <1>1, <1>2, PlaceStays DEF NodesFit
  <2>2. JobFits'
    BY <1>0, <1>1 DEF JobFits, JobTarget, JobOf
  <2>3. BaseFits'
    BY <1>0, <1>1, <1>2, <1>4 DEF BaseFits, Taken, TopsAreSystem
  <2> QED
    BY <2>1, <2>2, <2>3
<1>11. EndedStaysEnded
  BY <1>1, <1>2, <1>4 DEF EndedStaysEnded
<1>12. NothingGoesUnasked
  BY <1>1 DEF NothingGoesUnasked
<1> QED
  BY <1>7, <1>8, <1>9, <1>10, <1>11, <1>12 DEF ImportInv, StepFits

\* The rows, the requests but one of the job, and what holds of them are as before.
SessionStays ==
    /\ imp' = imp /\ item' = item
    /\ \A q \in Requests : inreq'[q] = inreq[q] \/
          (inreq'[q].op \in {"none", "apply"} /\ inreq[q].op \in {"none", "apply"})

LEMMA SessionStillFits ==
    ASSUME ImportInv, SessionStays
    PROVE  RequestsFit' /\ FilesFit'
<1>0. RequestsFit /\ FilesFit
  BY DEF ImportInv
<1>1. \A q \in Requests : Finds(q)'
  <2>1. ASSUME NEW q \in Requests PROVE Finds(q)'
    <3>1. CASE inreq'[q] = inreq[q]
      BY <1>0, <3>1 DEF SessionStays, RequestsFit, Finds, Open, Was
    <3>2. CASE inreq'[q].op \in {"none", "apply"}
      BY <3>2 DEF Finds, OnOne, ForMany
    <3> QED
      BY <3>1, <3>2 DEF SessionStays
  <2> QED
    BY <2>1
<1>2. ASSUME NEW p \in Busy', NEW q \in Busy', p # q PROVE Apart(p, q)'
  <2>1. p \in Busy /\ q \in Busy /\ inreq'[p] = inreq[p] /\ inreq'[q] = inreq[q]
    BY <1>2 DEF Busy, SessionStays
  <2>2. Apart(p, q)
    BY <1>0, <1>2, <2>1 DEF RequestsFit
  <2> QED
    BY <2>1, <2>2 DEF Apart
<1>3. FilesFit'
  BY <1>0 DEF SessionStays, FilesFit, SettledIsCarriedOut, CompletedIsWhole, Open, Scanned
<1> QED
  BY <1>1, <1>2, <1>3 DEF RequestsFit

LEMMA ApplyFits ==
    ASSUME ImportInv, NEW r \in Requests, ApplyJob(r)
    PROVE  StepFits
<1>0. ImportShape /\ RequestsFit /\ FilesFit /\ NodesFit /\ JobFits /\ BaseFits
  BY DEF ImportInv
<1> DEFINE placed == PlaceAll(nodes, Files, JobTarget, JobOf)
<1> HIDE DEF placed
<1>1. /\ inreq[r].op = "apply" /\ inreq' = [inreq EXCEPT ![r] = NoRequest]
      /\ imp' = imp /\ item' = item
      /\ \/ nodes' = placed.ns /\ job' = [job EXCEPT !.status = "succeeded"]
         \/ nodes' = nodes /\ job' = job
  BY DEF ApplyJob, Answered, placed
<1>2. /\ placed \in Runs
      /\ AllMade(nodes, placed.ns, Files, JobTargets, JobOwners)
  BY <1>0, JobRuns DEF ImportShape, placed
<1>3. /\ inreq'[r] = NoRequest
      /\ \A q \in Requests : q # r => inreq'[q] = inreq[q]
      /\ inreq' \in [Requests -> [op : RequestOps, i : 0 .. N, default : Defaults,
                               rows : FileRows \cup {<<>>}]]
  BY <1>0, <1>1, NoRequestIsRequest DEF ImportShape
<1>4. RequestsFit' /\ FilesFit'
  <2>1. SessionStays
    BY <1>1, <1>3, NoRequestIsRequest DEF SessionStays
  <2> QED
    BY <2>1, SessionStillFits
<1>5. /\ nodes \subseteq nodes' /\ nodes' \in SUBSET ImportNode
      /\ job' \in [status : {"none", "queued", "succeeded"}, base : Path]
      /\ job'.base = job.base
      /\ \A n \in nodes' : n \in nodes \/ job'.status = "succeeded"
      /\ job.status = "succeeded" => job'.status = "succeeded"
  <2>1. nodes \subseteq placed.ns /\ placed.ns \in SUBSET ImportNode
    BY <1>2 DEF AllMade
  <2> QED
    BY <1>0, <1>1, <2>1 DEF ImportShape
<1>6. ASSUME NEW n \in nodes', n \notin nodes
      PROVE  \/ n.by = Folder
             \/ \E i \in Files : n.by = JobOf(i) /\ (Len(job.base) = 0 => n.path = JobTarget(i))
  <2>1. nodes' = placed.ns
    BY <1>1, <1>6
  <2>2. n.by = Folder \/ \E i \in Files : n.by = JobOwners[i] /\
           (OnTheWay(nodes, i, JobTargets[i]) => n.path = JobTargets[i])
    BY <1>2, <1>6, <2>1 DEF AllMade
  <2>3. \A i \in Files : JobOwners[i] = JobOf(i) /\ JobTargets[i] = JobTarget(i)
    BY DEF JobOwners, JobTargets
  <2>4. \A i \in Files : Len(job.base) = 0 => OnTheWay(nodes, i, JobTarget(i))
    BY <1>0, JobOnTheWay DEF ImportShape
  <2> QED
    BY <2>2, <2>3, <2>4
<1>7. \A n \in nodes' : n \notin nodes => n.by \notin Files
  BY <1>6, OwnersAreNumbers
<1>8. ImportShape'
  BY <1>0, <1>1, <1>3, <1>5 DEF ImportShape
<1>9. NodesFit'
  <2>1. imp'.base = imp.base /\ imp'.status = imp.status
    BY <1>1
  <2> QED
    BY <1>0, <1>7, <2>1, PlaceStays DEF NodesFit
<1>10. JobFits'
  <2>1. ASSUME NEW n \in nodes', NEW i \in Files, n.by = JobOf(i)
        PROVE  job'.status = "succeeded" /\ (Len(job.base) = 0 => n.path = JobTarget(i))
    <3>1. CASE n \in nodes
      BY <1>0, <1>5, <2>1, <3>1 DEF JobFits
    <3>2. CASE n \notin nodes
      <4>1. PICK j \in Files : n.by = JobOf(j) /\ (Len(job.base) = 0 => n.path = JobTarget(j))
        BY <1>6, <2>1, <3>2, OwnersAreNumbers
      <4>2. i = j
        BY <2>1, <4>1, OwnersAreNumbers
      <4> QED
        BY <1>5, <3>2, <4>1, <4>2
    <3> QED
      BY <3>1, <3>2
  <2>2. \A i \in Files : JobTarget(i)' = JobTarget(i)
    BY <1>5 DEF JobTarget
  <2> QED
    BY <1>5, <2>1, <2>2 DEF JobFits, JobOf
<1>11. BaseFits'
  <2>1. Taken(nodes) \subseteq Taken(nodes')
    BY <1>5 DEF Taken
  <2>2. Taken(nodes)' = Taken(nodes')
    BY DEF Taken
  <2> QED
    BY <1>0, <1>1, <2>1, <2>2 DEF BaseFits, TopsAreSystem
<1>12. EndedStaysEnded
  BY <1>1, <1>7 DEF EndedStaysEnded
<1>13. NothingGoesUnasked
  BY <1>5 DEF NothingGoesUnasked
<1> QED
  BY <1>4, <1>8, <1>9, <1>10, <1>11, <1>12, <1>13 DEF ImportInv, StepFits

LEMMA BasesArePaths == Bases \cup {<<>>} \subseteq Path
<1>1. <<>> \in Seq(Nat) /\ Bases \subseteq Seq(Nat)
  BY ImportAssumption, EmptySeq
<1> QED
  BY <1>1 DEF Path

\* What has one name and is below something is that.
LEMMA BelowAtTheTop ==
    ASSUME NEW path \in Path, NEW top \in Path, top # <<>>, Len(path) = 1, Below(path, top)
    PROVE  path = top
<1>1. Len(top) \in Nat \ {0}
  BY EmptySeq DEF Path
<1>2. Len(top) = 1 /\ SubSeq(path, 1, 1) = top
  BY <1>1 DEF Below
<1>3. SubSeq(path, 1, Len(path)) = path
  BY SubSeqFull DEF Path
<1> QED
  BY <1>2, <1>3

LEMMA CreateSessionFits ==
    ASSUME ImportInv, NEW base \in Bases \cup {<<>>}, CreateSession(base)
    PROVE  StepFits
<1>0. ImportShape /\ RequestsFit /\ FilesFit /\ NodesFit /\ JobFits /\ BaseFits
  BY DEF ImportInv
<1>1. /\ imp.status = "none" /\ imp' = [imp EXCEPT !.status = "running", !.base = base]
      /\ base = <<>> \/ base \in Taken(nodes)
      /\ nodes' = nodes /\ item' = item /\ job' = job /\ inreq' = inreq
  BY DEF CreateSession
<1>2. base \in Path
  BY BasesArePaths
<1>3. /\ imp' \in [status : {"none", "running", "completed", "cancelled"},
                   base : Path, default : Defaults]
      /\ imp'.base = base /\ imp'.status = "running"
  BY <1>0, <1>1, <1>2 DEF ImportShape
<1>4. Busy = {}
  <2>1. ASSUME NEW q \in Requests PROVE inreq[q].op \in {"none", "apply"}
    <3>1. inreq[q].op \in RequestOps
      BY <1>0, ShapeIsShape
    <3> QED
      BY <1>0, <1>1, <3>1 DEF RequestsFit, Finds, RequestOps
  <2> QED
    BY <2>1 DEF Busy
<1>5. RequestsFit'
  <2>1. \A q \in Requests : inreq'[q].op \in {"none", "apply"}
    BY <1>1, <1>4 DEF Busy
  <2>2. \A q \in Requests : Finds(q)'
    BY <2>1 DEF Finds, OnOne, ForMany
  <2>3. Busy' = {}
    BY <2>1 DEF Busy
  <2> QED
    BY <2>2, <2>3 DEF RequestsFit
<1>6. FilesFit'
  <2>1. \A i \in Files : item'[i].status = "absent"
    BY <1>0, <1>1 DEF FilesFit, Scanned
  <2> QED
    BY <1>3, <2>1 DEF FilesFit, SettledIsCarriedOut, CompletedIsWhole
<1>7. ImportShape'
  BY <1>0, <1>1, <1>3 DEF ImportShape
<1>8. NodesFit'
  BY <1>0, <1>1 DEF NodesFit
<1>9. JobFits'
  BY <1>0, <1>1 DEF JobFits, JobTarget, JobOf
<1>10. BaseFits'
  <2>1. ASSUME TopsAreSystem, Len(base) = 1 PROVE base \in SystemFolders /\ base \in Taken(nodes)
    <3>1. Len(<<>>) = 0
      OBVIOUS
    <3>2. base # <<>>
      BY <2>1, <3>1
    <3> QED
      BY <1>1, <2>1, <3>2 DEF TopsAreSystem
  <2>2. Taken(nodes)' = Taken(nodes)
    BY <1>1 DEF Taken
  <2> QED
    BY <1>3, <2>1, <2>2 DEF BaseFits, TopsAreSystem
<1>11. EndedStaysEnded /\ NothingGoesUnasked
  BY <1>1 DEF EndedStaysEnded, NothingGoesUnasked
<1> QED
  BY <1>5, <1>6, <1>7, <1>8, <1>9, <1>10, <1>11 DEF ImportInv, StepFits

LEMMA CreateJobFits ==
    ASSUME ImportInv, NEW base \in Bases \cup {<<>>}, CreateJob(base)
    PROVE  StepFits
<1>0. ImportShape /\ RequestsFit /\ FilesFit /\ NodesFit /\ JobFits /\ BaseFits
  BY DEF ImportInv
<1>1. /\ job.status = "none" /\ job' = [status |-> "queued", base |-> base]
      /\ nodes' = nodes /\ item' = item /\ imp' = imp /\ inreq' = inreq
  BY DEF CreateJob
<1>2. base \in Path
  BY BasesArePaths
<1>3. ImportShape'
  BY <1>0, <1>1, <1>2 DEF ImportShape
<1>4. RequestsFit' /\ FilesFit'
  <2>1. SessionStays
    BY <1>1 DEF SessionStays
  <2> QED
    BY <2>1, SessionStillFits
<1>5. NodesFit'
  BY <1>0, <1>1, PlaceStays DEF NodesFit
<1>6. JobFits'
  BY <1>0, <1>1 DEF JobFits, JobOf
<1>7. BaseFits'
  BY <1>0, <1>1 DEF BaseFits, TopsAreSystem, Taken
<1>8. EndedStaysEnded /\ NothingGoesUnasked
  BY <1>1 DEF EndedStaysEnded, NothingGoesUnasked
<1> QED
  BY <1>3, <1>4, <1>5, <1>6, <1>7, <1>8 DEF ImportInv, StepFits

LEMMA ScanFits ==
    ASSUME ImportInv, ~Scanned, NEW included, ScanSession(included)
    PROVE  StepFits
<1>0. ImportShape /\ RequestsFit /\ FilesFit /\ NodesFit /\ JobFits /\ BaseFits
  BY DEF ImportInv
<1>1. /\ imp.status # "none"
      /\ item' = [i \in Files |-> ItemRow(IF i \in included THEN "pending" ELSE "ignored")]
      /\ inreq' = [r \in Requests |->
            IF inreq[r].op \in {"cancel", "apply"} THEN inreq[r] ELSE NoRequest]
      /\ nodes' = nodes /\ imp' = imp /\ job' = job
  BY DEF ScanSession, ScanAs
<1>2. /\ item' \in FileRows
      /\ \A i \in Files : item'[i].status \in {"pending", "ignored"}
  BY <1>1 DEF FileRows, ItemStatus, ItemRow
<1>3. \A q \in Requests : inreq'[q] = inreq[q] \/ inreq'[q] = NoRequest
  BY <1>1
<1>4. \A q \in Requests : inreq'[q].op \in {"none", "cancel", "apply"}
  BY <1>1, NoRequestIsRequest
<1>5. inreq' \in [Requests -> [op : RequestOps, i : 0 .. N, default : Defaults,
                               rows : FileRows \cup {<<>>}]]
  <2>1. inreq' = [r \in Requests |-> inreq'[r]]
    BY <1>1
  <2>2. \A r \in Requests : inreq'[r] \in [op : RequestOps, i : 0 .. N, default : Defaults,
                               rows : FileRows \cup {<<>>}]
    BY <1>0, <1>3, ShapeIsShape, NoRequestIsRequest
  <2> QED
    BY <2>1, <2>2
<1>6. ImportShape'
  BY <1>0, <1>1, <1>2, <1>5 DEF ImportShape
<1>7. RequestsFit'
  <2>1. ASSUME NEW q \in Requests PROVE Finds(q)'
    <3>1. inreq'[q].op = "cancel" => imp.status \in {"running", "cancelled"}
      BY <1>0, <1>3, NoRequestIsRequest DEF RequestsFit, Finds
    <3> QED
      BY <1>1, <1>4, <3>1 DEF Finds, OnOne, ForMany
  <2>2. ASSUME NEW p \in Busy', NEW q \in Busy', p # q PROVE FALSE
    <3>1. p \in Busy /\ q \in Busy /\ inreq[p].op = "cancel"
      BY <1>3, <1>4, NoRequestIsRequest DEF Busy
    <3>2. inreq[p].op \notin OnOne
      BY <3>1 DEF OnOne
    <3> QED
      BY <1>0, <2>2, <3>1, <3>2 DEF RequestsFit, Apart
  <2> QED
    BY <2>1, <2>2 DEF RequestsFit
<1>8. FilesFit'
  <2>1. imp'.status \notin {"none", "completed"}
    BY <1>0, <1>1 DEF FilesFit
  <2> QED
    BY <1>2, <2>1 DEF FilesFit, SettledIsCarriedOut, CompletedIsWhole
<1>9. NodesFit'
  BY <1>0, <1>1, PlaceStays DEF NodesFit
<1>10. JobFits'
  BY <1>0, <1>1 DEF JobFits, JobTarget, JobOf
<1>11. BaseFits'
  BY <1>0, <1>1 DEF BaseFits, TopsAreSystem, Taken
<1>12. EndedStaysEnded /\ NothingGoesUnasked
  BY <1>1 DEF EndedStaysEnded, NothingGoesUnasked
<1> QED
  BY <1>6, <1>7, <1>8, <1>9, <1>10, <1>11, <1>12 DEF ImportInv, StepFits

\* Other users add nodes of their own, and delete what is no system folder.
LEMMA OtherUsersFit ==
    ASSUME ImportInv, OtherUsers
    PROVE  StepFits
<1>0. ImportShape /\ RequestsFit /\ FilesFit /\ NodesFit /\ JobFits /\ BaseFits
  BY DEF ImportInv
<1>1. imp' = imp /\ item' = item /\ job' = job /\ inreq' = inreq
  BY DEF OtherUsers, UserCreates, UserDeletes
<1>2. /\ nodes' \in SUBSET ImportNode
      /\ \A n \in nodes' : n \in nodes \/ n.by = User
      /\ BaseFits'
  <2>1. ASSUME NEW path \in UserPaths, UserCreates(path)
        PROVE  /\ nodes' \in SUBSET ImportNode
               /\ \A n \in nodes' : n \in nodes \/ n.by = User
               /\ Taken(nodes) \subseteq Taken(nodes')
    <3>1. nodes' = nodes \cup {NodeAt(path, User)}
      BY <2>1 DEF UserCreates
    <3>2. path \in Path \ {<<>>}
      BY ImportAssumption DEF Path
    <3>3. NodeAt(path, User) \in ImportNode /\ NodeAt(path, User).by = User
      BY <3>2, NodeIsNode, FolderIsKind DEF User
    <3> QED
      BY <1>0, <3>1, <3>3 DEF ImportShape, Taken
  <2>2. ASSUME NEW gone \in nodes, UserDeletes(gone)
        PROVE  /\ nodes' \in SUBSET ImportNode
               /\ \A n \in nodes' : n \in nodes
               /\ \A n \in nodes : Len(n.path) = 1 /\ n.path \in SystemFolders => n \in nodes'
    <3>1. nodes' = {n \in nodes : ~ Below(n.path, gone.path)} /\ gone.path \notin SystemFolders
      BY <2>2 DEF UserDeletes, Overwrite
    <3>2. ASSUME NEW n \in nodes, Len(n.path) = 1, n.path \in SystemFolders, Below(n.path, gone.path)
          PROVE  FALSE
      <4>1. gone.path \in Path /\ gone.path # <<>> /\ n.path \in Path
        BY <1>0 DEF ImportShape, ImportNode
      <4>2. n.path = gone.path
        BY <3>2, <4>1, BelowAtTheTop
      <4> QED
        BY <3>1, <3>2, <4>2
    <3> QED
      BY <1>0, <3>1, <3>2 DEF ImportShape
  <2>3. \A n \in nodes : Len(n.path) = 1 /\ n.path \in SystemFolders => n.path \in Taken(nodes')
    <3>1. CASE \E path \in UserPaths : UserCreates(path)
      <4>1. Taken(nodes) \subseteq Taken(nodes')
        BY <2>1, <3>1
      <4> QED
        BY <4>1 DEF Taken
    <3>2. CASE \E n \in nodes : UserDeletes(n)
      <4>1. \A n \in nodes : Len(n.path) = 1 /\ n.path \in SystemFolders => n \in nodes'
        BY <2>2, <3>2
      <4> QED
        BY <4>1 DEF Taken
    <3> QED
      BY <3>1, <3>2 DEF OtherUsers
  <2>4. BaseFits'
    <3>1. ASSUME TopsAreSystem, imp.status # "none", Len(imp.base) = 1
          PROVE  imp.base \in SystemFolders /\ imp.base \in Taken(nodes')
      <4>1. imp.base \in SystemFolders /\ imp.base \in Taken(nodes)
        BY <1>0, <3>1 DEF BaseFits
      <4>2. PICK n \in nodes : n.path = imp.base
        BY <4>1 DEF Taken
      <4> QED
        BY <2>3, <3>1, <4>1, <4>2
    <3>2. Taken(nodes)' = Taken(nodes')
      BY DEF Taken
    <3> QED
      BY <1>1, <3>1, <3>2 DEF BaseFits, TopsAreSystem
  <2> QED
    BY <2>1, <2>2, <2>4 DEF OtherUsers
<1>3. \A n \in nodes' : n.by \in Files \cup {JobOf(i) : i \in Files} => n \in nodes
  BY <1>2, OwnersAreNumbers
<1>4. ImportShape'
  BY <1>0, <1>1, <1>2 DEF ImportShape
<1>5. RequestsFit' /\ FilesFit'
  <2>1. SessionStays
    BY <1>1 DEF SessionStays
  <2> QED
    BY <2>1, SessionStillFits
<1>6. NodesFit'
  <2>1. imp'.base = imp.base /\ imp'.status = imp.status
    BY <1>1
  <2> QED
    BY <1>0, <1>3, <2>1, PlaceStays DEF NodesFit
<1>7. JobFits'
  BY <1>0, <1>1, <1>3 DEF JobFits, JobTarget, JobOf
<1>8. EndedStaysEnded
  BY <1>1, <1>2, OwnersAreNumbers DEF EndedStaysEnded
<1>9. NothingGoesUnasked
  BY <1>1 DEF NothingGoesUnasked
<1> QED
  BY <1>2, <1>4, <1>5, <1>6, <1>7, <1>8, <1>9 DEF ImportInv, StepFits

\* A request is taken when it finds what it asks for and is apart from the others.
LEMMA AskFits ==
    ASSUME ImportInv, NEW r \in Requests, NEW op \in RequestOps, NEW i \in 0 .. N, Reads(r, op, i),
           Finds(r)',
           \/ op = "apply"
           \/ Busy = {}
           \/ op \in OnOne /\ Beside(i)
    PROVE  StepFits
<1>0. ImportShape /\ RequestsFit /\ FilesFit /\ NodesFit /\ JobFits /\ BaseFits
  BY DEF ImportInv
<1>1. /\ inreq[r] = NoRequest
      /\ inreq' = [inreq EXCEPT ![r] = [op |-> op, i |-> i, default |-> imp.default, rows |-> item]]
      /\ nodes' = nodes /\ imp' = imp /\ item' = item /\ job' = job
  BY DEF Reads
<1>2. /\ inreq'[r].op = op /\ inreq'[r].i = i
      /\ \A q \in Requests : q # r => inreq'[q] = inreq[q]
      /\ inreq' \in [Requests -> [op : RequestOps, i : 0 .. N, default : Defaults,
                               rows : FileRows \cup {<<>>}]]
  BY <1>0, <1>1 DEF ImportShape
<1>3. ImportShape'
  BY <1>0, <1>1, <1>2 DEF ImportShape
<1>4. RequestsFit'
  <2>1. ASSUME NEW q \in Requests PROVE Finds(q)'
    <3>1. CASE q = r
      BY <3>1
    <3>2. CASE q # r
      <4>1. inreq'[q] = inreq[q] /\ Finds(q)
        BY <1>0, <1>2, <3>2 DEF RequestsFit
      <4> QED
        BY <1>1, <4>1 DEF Finds, Open, Was
    <3> QED
      BY <3>1, <3>2
  <2>2. ASSUME NEW p \in Busy', NEW q \in Busy', p # q PROVE Apart(p, q)'
    <3>1. CASE p # r /\ q # r
      <4>1. p \in Busy /\ q \in Busy /\ inreq'[p] = inreq[p] /\ inreq'[q] = inreq[q]
        BY <1>2, <3>1 DEF Busy
      <4>2. Apart(p, q)
        BY <1>0, <2>2, <4>1 DEF RequestsFit
      <4> QED
        BY <4>1, <4>2 DEF Apart
    <3>2. ASSUME NEW z \in Busy', z # r, r \in Busy'
          PROVE  op \in OnOne /\ inreq'[z].op \in OnOne /\ inreq'[z].i # i
      <4>1. z \in Busy /\ inreq'[z] = inreq[z] /\ op # "apply"
        BY <1>2, <3>2 DEF Busy
      <4>2. op \in OnOne /\ Beside(i)
        BY <4>1
      <4> QED
        BY <4>1, <4>2 DEF Beside
    <3> QED
      BY <1>2, <2>2, <3>1, <3>2 DEF Apart
  <2> QED
    BY <2>1, <2>2 DEF RequestsFit
<1>5. FilesFit'
  BY <1>0, <1>1 DEF FilesFit, SettledIsCarriedOut, CompletedIsWhole, Open, Scanned
<1>6. NodesFit'
  BY <1>0, <1>1, PlaceStays DEF NodesFit
<1>7. JobFits'
  BY <1>0, <1>1 DEF JobFits, JobTarget, JobOf
<1>8. BaseFits'
  BY <1>0, <1>1 DEF BaseFits, TopsAreSystem, Taken
<1>9. EndedStaysEnded /\ NothingGoesUnasked
  BY <1>1 DEF EndedStaysEnded, NothingGoesUnasked
<1> QED
  BY <1>3, <1>4, <1>5, <1>6, <1>7, <1>8, <1>9 DEF ImportInv, StepFits

LEMMA AskedIs ==
    ASSUME ImportShape, NEW r \in Requests, NEW op, NEW i, Reads(r, op, i)
    PROVE  /\ inreq'[r].op = op /\ inreq'[r].i = i /\ inreq'[r].rows = item
           /\ imp' = imp /\ item' = item
BY DEF Reads, ImportShape

LEMMA AskOneFits ==
    ASSUME ImportInv, NEW r \in Requests, NEW i \in Files, Beside(i), NEW op \in OnOne,
           imp.status = "running", Open(i), Reads(r, op, i)
    PROVE  StepFits
<1>1. inreq'[r].op = op /\ inreq'[r].i = i /\ imp' = imp /\ item' = item
  BY AskedIs DEF ImportInv
<1>2. Finds(r)'
  BY <1>1 DEF Finds, OnOne, ForMany, Open
<1>3. op \in RequestOps /\ i \in 0 .. N
  BY StatusesOfItems DEF RequestOps
<1> QED
  BY <1>2, <1>3, AskFits

LEMMA AskManyFits ==
    ASSUME ImportInv, NEW r \in Requests, Busy = {}, AskMany(r)
    PROVE  StepFits
<1>1. PICK op \in ForMany :
         /\ imp.status = "running" /\ Reads(r, op, 0)
         /\ op = "retry_all" => WithStatus({"failed"}) # {}
         /\ op \in {"skip_all", "overwrite_all"} => WithStatus({"conflict"}) # {}
  BY DEF AskMany, AskRetryAll, AskBulk, ForMany
<1>2. inreq'[r].op = op /\ inreq'[r].rows = item /\ imp' = imp /\ item' = item
  BY <1>1, AskedIs DEF ImportInv
<1>3. op = "retry_all" => Was(r, "failed")' # {}
  BY <1>1, <1>2 DEF Was, WithStatus
<1>4. op \in {"skip_all", "overwrite_all"} => Was(r, "conflict")' # {}
  BY <1>1, <1>2 DEF Was, WithStatus
<1>5. Finds(r)'
  BY <1>1, <1>2, <1>3, <1>4 DEF Finds, OnOne, ForMany
<1>6. op \in RequestOps
  BY DEF RequestOps
<1> QED
  BY <1>1, <1>5, <1>6, StatusesOfItems, AskFits

LEMMA AskCancelFits ==
    ASSUME ImportInv, NEW r \in Requests, Busy = {}, AskCancel(r)
    PROVE  StepFits
<1>1. imp.status \in {"running", "cancelled"} /\ Reads(r, "cancel", 0)
  BY DEF AskCancel
<1>2. inreq'[r].op = "cancel" /\ imp' = imp
  BY <1>1, AskedIs DEF ImportInv
<1>3. Finds(r)'
  BY <1>1, <1>2 DEF Finds, OnOne, ForMany
<1>4. "cancel" \in RequestOps
  BY DEF RequestOps
<1> QED
  BY <1>1, <1>3, <1>4, StatusesOfItems, AskFits

LEMMA AskApplyFits ==
    ASSUME ImportInv, NEW r \in Requests, AskApply(r)
    PROVE  StepFits
<1>1. Reads(r, "apply", 0)
  BY DEF AskApply
<1>2. inreq'[r].op = "apply"
  BY <1>1, AskedIs DEF ImportInv
<1>3. Finds(r)'
  BY <1>2 DEF Finds, OnOne, ForMany
<1>4. "apply" \in RequestOps
  BY DEF RequestOps
<1> QED
  BY <1>1, <1>3, <1>4, StatusesOfItems, AskFits

LEMMA PatientAsksFit ==
    ASSUME ImportInv, NEW r \in Requests, PatientAsks(r)
    PROVE  StepFits
<1>1. CASE AskApply(r)
  BY <1>1, AskApplyFits
<1>2. CASE Busy = {} /\ AskCancel(r)
  BY <1>2, AskCancelFits
<1>3. CASE Busy = {} /\ AskMany(r)
  BY <1>3, AskManyFits
<1>4. ASSUME NEW i \in Files, Beside(i),
             \/ AskUpload(r, i) \/ AskRetry(r, i)
             \/ AskResolve(r, i, "skip") \/ AskResolve(r, i, "overwrite")
      PROVE  StepFits
  <2>1. PICK op \in OnOne : imp.status = "running" /\ Open(i) /\ Reads(r, op, i)
    BY <1>4 DEF AskUpload, AskRetry, AskResolve, OnOne, WithStatus, Open
  <2> QED
    BY <1>4, <2>1, AskOneFits
<1> QED
  BY <1>1, <1>2, <1>3, <1>4 DEF PatientAsks

LEMMA PatientStepFits == ASSUME ImportInv, PatientNext PROVE StepFits
<1>1. CASE Creates
  BY <1>1, CreateSessionFits, CreateJobFits DEF Creates
<1>2. CASE OtherUsers
  BY <1>2, OtherUsersFit
<1>3. CASE ~Scanned /\ Scans
  BY <1>3, ScanFits DEF Scans
<1>4. ASSUME NEW r \in Requests, Writes(r) PROVE StepFits
  BY <1>4, UploadFits, RetryFits, ResolveFits, RetryAllFits, BulkFits, CancelFits, ApplyFits
     DEF Writes
<1>5. ASSUME NEW r \in Requests, PatientAsks(r) PROVE StepFits
  BY <1>5, PatientAsksFit
<1> QED
  BY <1>1, <1>2, <1>3, <1>4, <1>5 DEF PatientNext

LEMMA ImportStutters == ASSUME ImportInv, UNCHANGED importVars PROVE ImportInv'
<1>0. ImportShape /\ RequestsFit /\ FilesFit /\ NodesFit /\ JobFits /\ BaseFits
  BY DEF ImportInv
<1>1. nodes' = nodes /\ imp' = imp /\ item' = item /\ job' = job /\ inreq' = inreq
  BY DEF importVars
<1>2. ImportShape'
  BY <1>0, <1>1 DEF ImportShape
<1>3. RequestsFit' /\ FilesFit'
  <2>1. SessionStays
    BY <1>1 DEF SessionStays
  <2> QED
    BY <2>1, SessionStillFits
<1>4. NodesFit'
  BY <1>0, <1>1, PlaceStays DEF NodesFit
<1>5. JobFits'
  BY <1>0, <1>1 DEF JobFits, JobTarget, JobOf
<1>6. BaseFits'
  BY <1>0, <1>1 DEF BaseFits, TopsAreSystem, Taken
<1> QED
  BY <1>2, <1>3, <1>4, <1>5, <1>6 DEF ImportInv

\* The rows, the session and the nodes of an import have their types.
LEMMA ImportIsTyped == ASSUME ImportInv PROVE ImportTypeOK
<1>1. ImportShape
  BY DEF ImportInv
<1>2. \A n \in nodes : n.path \in Seq(Nat) /\ n.by \in -1 .. 2 * N
  BY <1>1 DEF ImportShape, ImportNode, Path
<1>3. \A i \in Files : item[i].status \in ItemStatus
  BY <1>1, RowIsRow DEF ImportShape
<1> QED
  BY <1>1, <1>2, <1>3 DEF ImportTypeOK, ImportShape, Defaults, ItemStatus

LEMMA ImportIsSound ==
    ASSUME ImportInv
    PROVE  /\ SettledIsCarriedOut /\ CompletedIsWhole /\ JobIsWhole
           /\ TopsAreSystem => DirectoryIsKept
<1>0. FilesFit /\ NodesFit /\ JobFits
  BY DEF ImportInv
<1>1. SettledIsCarriedOut /\ CompletedIsWhole
  BY <1>0 DEF FilesFit
<1>2. JobIsWhole
  BY <1>0 DEF JobIsWhole, JobFits
<1>3. TopsAreSystem => DirectoryIsKept
  BY <1>0 DEF DirectoryIsKept, NodesFit, InPlace, JobFits
<1> QED
  BY <1>1, <1>2, <1>3

ImportKept == part \in ImportParts => ImportInv

LEMMA ImportBegins == ASSUME WikiInit PROVE ImportKept
BY StartFits DEF WikiInit, ImportKept

\* A step of an import keeps it sound and to what it was told, and one of another
\* part leaves it alone.
LEMMA ImportStays ==
    ASSUME ImportKept, [WikiNext]_<<parts, part>>
    PROVE  /\ ImportKept'
           /\ [(part \in ImportParts) => EndedStaysEnded /\ NothingGoesUnasked]_importVars
<1>1. CASE UNCHANGED <<parts, part>>
  <2>1. UNCHANGED importVars /\ part' = part
    BY <1>1 DEF parts
  <2>2. ImportKept'
    BY <2>1, ImportStutters DEF ImportKept
  <2> QED
    BY <2>1, <2>2
<1>2. CASE WikiNext /\ part \in ImportParts
  <2>1. PatientNext /\ part' = part
    BY <1>2 DEF WikiNext, ImportParts, DocumentParts
  <2>2. StepFits
    BY <1>2, <2>1, PatientStepFits DEF ImportKept
  <2> QED
    BY <2>1, <2>2 DEF StepFits, ImportKept
<1>3. CASE WikiNext /\ part \notin ImportParts
  <2>1. part' = part
    BY <1>3 DEF WikiNext
  <2> QED
    BY <1>3, <2>1 DEF ImportKept
<1> QED
  BY <1>1, <1>2, <1>3

\* What an import makes is complete and in its place, and nobody waits in vain for it,
\* whichever of the requests that overlap is the last.  The place is that of the
\* directory below its outermost name, where a folder at the top that is imported
\* into is one that users cannot delete meanwhile.
THEOREM ImportsStayWhole == ASSUME TopsAreSystem PROVE WikiSpec => []ImportIsWhole
<1>1. ASSUME ImportKept PROVE ImportIsWhole
  BY <1>1, TopsAreSystem, ImportIsSound DEF ImportKept, ImportIsWhole
<1> QED
  BY <1>1, ImportBegins, ImportStays, PTL DEF WikiSpec

\* What is left of it when the folder can go meanwhile.
WholeWherever == part \in ImportParts => SettledIsCarriedOut /\ CompletedIsWhole /\ JobIsWhole
\* Wherever is imported to, an import is whole and nobody waits in vain for it, though
\* its files may lie below the outermost name of the directory.
THEOREM ImportsStayWholeWherever == WikiSpec => []WholeWherever
<1>1. ASSUME ImportKept PROVE WholeWherever
  BY <1>1, ImportIsSound DEF ImportKept, WholeWherever
<1> QED
  BY <1>1, ImportBegins, ImportStays, PTL DEF WikiSpec

\* An import that has ended does nothing any more, and what others have goes only where
\* the user said overwrite.
THEOREM ImportsKeepOff == WikiSpec => ImportKeepsOff
<1> QED
  BY ImportBegins, ImportStays, PTL DEF WikiSpec, ImportKeepsOff

-----------------------------------------------------------------------------
(* The types of all parts of a wiki space *)

LEMMA DocumentsAreTyped == ASSUME DocumentsAssumption, DocumentInv PROVE DocumentsTypeOK
<1>1. \A i \in DOMAIN versions : versions[i] \in [no : Nat, body : Bodies]
  <2>1. DOMAIN versions = 1 .. Len(versions)
    BY DEF DocumentInv
  <2> QED
    BY <2>1, ElementOfSeq DEF DocumentInv
<1>2. current \in 0 .. Len(versions)
  <2>1. Len(versions) \in Nat /\ current = Len(versions)
    BY LenProperties DEF DocumentInv
  <2> QED
    BY <2>1
<1>3. drafts \in [Users -> [row : Rows, body : Bodies] \cup {NoDraft}]
  BY DEF DocumentInv, DraftRow
<1>4. \A r \in Edits : req[r].row \in Rows \cup {None}
  BY DEF DocumentInv, EditRow
<1> QED
  BY <1>1, <1>2, <1>3, <1>4 DEF DocumentsTypeOK

LEMMA WorkspaceIsTyped ==
    ASSUME WorkspaceAssumption, WorkspaceInv
    PROVE  WorkspaceTypeOK
<1>1. WorkspaceShape
  BY DEF WorkspaceInv
<1>2. ASSUME NEW d \in Papers PROVE wiki.rows[d] = NoPaper \/ Spot(d) \in Spots
  BY <1>1 DEF WorkspaceShape, PaperRow, Spot, Spots
<1>3. wiki.dir \in Dirs /\ wiki.report \in 1 .. MaxTexts
  BY <1>1 DEF WorkspaceShape
<1>4. /\ shelf.files \in [Spots -> {None} \cup (Papers \X (1 .. MaxTexts))]
      /\ shelf.count \in {None} \cup 0 .. Cardinality(Papers)
  BY <1>1 DEF WorkspaceShape, PageRow
<1>5. past.changes \in 0 .. MaxChanges /\ past.seen \subseteq {"overlap", "crossed", "lost", "dragged"}
  BY <1>1 DEF WorkspaceShape
<1> QED
  BY <1>2, <1>3, <1>4, <1>5 DEF WorkspaceTypeOK

LEMMA WorkspaceStays ==
    ASSUME WorkspaceKept, [WikiNext]_<<parts, part>>
    PROVE  WorkspaceKept'
<1>1. CASE part = "workspace" /\ InPlaceNext /\ part' = part
  BY <1>1, WorkspaceAssumption, WorkspaceStep DEF WorkspaceKept
<1>2. CASE UNCHANGED <<part, workspaceVars>>
  BY <1>2, WorkspaceUnchanged DEF WorkspaceKept, workspaceVars
<1>3. CASE part # "workspace" /\ part' = part
  BY <1>3 DEF WorkspaceKept
<1> QED
  BY <1>1, <1>2, <1>3 DEF WikiNext, ImportParts, parts

\* Every part of a wiki space keeps its types, and no row is without what it belongs
\* to: for any documents, users, files, folders, requests and numbers.
THEOREM WikiStaysTyped == WikiSpec => []WikiTypeOK
<1>1. ASSUME WikiInit
      PROVE  TreeKept /\ OrderingKept /\ DocumentsKept /\ ImportKept /\ WorkspaceKept
  <2>1. TreeKept
    BY <1>1, TreeAssumption, TreeStart DEF WikiInit, TreeKept
  <2>2. WorkspaceKept
    BY <1>1, WorkspaceAssumption, WorkspaceStart DEF WikiInit, WorkspaceKept
  <2> QED
    BY <1>1, <2>1, <2>2, OrderingBegin, DocumentsAssumption, DocumentsBegin, ImportBegins
<1>2. ASSUME TreeKept, OrderingKept, DocumentsKept, ImportKept, WorkspaceKept,
             [WikiNext]_<<parts, part>>
      PROVE  TreeKept' /\ OrderingKept' /\ DocumentsKept' /\ ImportKept' /\ WorkspaceKept'
  BY <1>2, TreeAssumption, TreeStays, OrderingAssumption, OrderingStays, DocumentsAssumption,
     DocumentsStay, ImportStays, WorkspaceStays
<1>3. ASSUME TreeKept, OrderingKept, DocumentsKept, ImportKept, WorkspaceKept
      PROVE  WikiTypeOK
  <2>1. part = "tree" => TypeOK
    BY <1>3, TreeAssumption, RootedIsSound DEF TreeKept
  <2>2. part = "order" => OrderingTypeOK
    BY <1>3 DEF OrderingKept
  <2>3. part \in DocumentParts => DocumentsTypeOK
    BY <1>3, DocumentsAssumption, DocumentsAreTyped DEF DocumentsKept
  <2>4. part \in ImportParts => ImportTypeOK
    BY <1>3, ImportIsTyped DEF ImportKept
  <2>5. part = "workspace" => WorkspaceTypeOK
    BY <1>3, WorkspaceAssumption, WorkspaceIsTyped DEF WorkspaceKept
  <2> QED
    BY <2>1, <2>2, <2>3, <2>4, <2>5 DEF WikiTypeOK
<1> QED
  BY <1>1, <1>2, <1>3, PTL DEF WikiSpec
=============================================================================
