------------------------ MODULE NoteArtifactsProofs ------------------------
(***************************************************************************)
(* Proofs about LessonDiagram and NoteArtifacts.  The first half is        *)
(* geometry: in a diagram the runtime accepts boxes side by side are apart,*)
(* and boxes one above the other as far as their labels fit into the rows, *)
(* for every number of boxes and every size of the canvas.  The second is  *)
(* about the commands, for any number of processes and any contents.       *)
(***************************************************************************)
EXTENDS NoteArtifacts, FiniteSetTheorems, WellFoundedInduction, TLAPS

(* A bounded set of positive numbers has a largest one: the interval from  *)
(* it to the bound is minimal among the intervals of its members.          *)
LEMMA LargestExists ==
    ASSUME NEW S \in SUBSET (1..24), S # {}
    PROVE  \E n \in S : \A m \in S : m <= n
<1> DEFINE T == { m..24 : m \in S }
<1>1. T \subseteq FiniteSubsetsOf(1..24) /\ T # {}
  <2>1. ASSUME NEW m \in S PROVE m..24 \in FiniteSubsetsOf(1..24)
    <3>1. m..24 \subseteq 1..24
        OBVIOUS
    <3>2. IsFiniteSet(m..24)
        BY FS_Interval
    <3> QED BY <3>1, <3>2 DEF FiniteSubsetsOf
  <2> QED BY <2>1
<1>2. PICK x \in T : \A y \in T : <<y, x>> \notin StrictSubsetOrdering(1..24)
    BY <1>1, WFMin, FS_StrictSubsetOrderingWellFounded
<1>3. PICK n \in S : x = n..24
    BY <1>2
<1>4. ASSUME NEW m \in S, m > n PROVE FALSE
  <2>1. m..24 \subseteq n..24 /\ n \in n..24 /\ n \notin m..24
      BY <1>4
  <2>2. m..24 \in SUBSET (1..24) /\ n..24 \in SUBSET (1..24)
      OBVIOUS
  <2>3. m..24 # n..24
      BY <2>1
  <2>4. <<m..24, n..24>> \in StrictSubsetOrdering(1..24)
      BY <2>1, <2>2, <2>3, Zenon DEF StrictSubsetOrdering
  <2> QED BY <1>2, <1>3, <2>4
<1> QED BY <1>4

(* Products of natural numbers, the only nonlinear facts below.            *)
LEMMA Scale ==
    ASSUME NEW a \in Int, NEW b \in Int, NEW c \in Nat, a <= b
    PROVE  a * c <= b * c
OBVIOUS

LEMMA ScaleBoth ==
    ASSUME NEW a \in Nat, NEW b \in Int, NEW c \in Nat, NEW d \in Int,
           a <= b, c <= d
    PROVE  a * c <= b * d
<1>1. a * c <= b * c
    BY Scale
<1>2. c * b <= d * b
    BY Scale
<1> QED BY <1>1, <1>2

----------------------------------------------------------------------------
(* The counts of calculateLayout.                                          *)
LEMMA RanksAreFinite ==
    ASSUME NEW d, IsDiagram(d), NodesFit(d)
    PROVE  /\ Ranks(d) \subseteq 0..12 /\ IsFiniteSet(Ranks(d))
           /\ RankCount(d) \in Nat \ {0}
           /\ IsFiniteSet(Nodes(d)) /\ Cardinality(Nodes(d)) = d.count
           /\ d.count \in 1..24
<1>0. d.count \in 1..24 /\ \A i \in Nodes(d) : d.nodes[i].rank \in 0..12
    BY DEF NodesFit
<1>1. Ranks(d) \subseteq 0..12 /\ Ranks(d) # {}
  <2>1. 1 \in Nodes(d)
      BY <1>0 DEF Nodes
  <2> QED BY <1>0, <2>1 DEF Ranks
<1>2. IsFiniteSet(Ranks(d))
  <2>1. 12 \in Nat /\ Ranks(d) \in SUBSET Nat /\ \A r \in Ranks(d) : r <= 12
      BY <1>1
  <2> QED BY <2>1, FS_BoundedSetOfNaturals
<1>3. RankCount(d) \in Nat \ {0}
    BY <1>1, <1>2, FS_CardinalityType, FS_EmptySet DEF RankCount
<1>4. IsFiniteSet(Nodes(d)) /\ Cardinality(Nodes(d)) = d.count
  <2>1. 1 \in Int /\ d.count \in Int /\ ~(1 > d.count)
      BY <1>0
  <2>2. /\ IsFiniteSet(1..d.count)
        /\ Cardinality(1..d.count) = d.count - 1 + 1
      BY <2>1, FS_Interval
  <2> QED BY <2>1, <2>2 DEF Nodes
<1> QED BY <1>0, <1>1, <1>2, <1>3, <1>4

LEMMA RankSizeType ==
    ASSUME NEW d, IsDiagram(d), NodesFit(d), NEW r \in Ranks(d)
    PROVE  IsFiniteSet(InRank(d, r)) /\ RankSize(d, r) \in 1..24
<1>1. InRank(d, r) \subseteq Nodes(d) /\ InRank(d, r) # {}
    BY DEF InRank, Ranks
<1>2. IsFiniteSet(InRank(d, r)) /\ RankSize(d, r) <= d.count
    BY <1>1, RanksAreFinite, FS_Subset DEF RankSize
<1>3. RankSize(d, r) \in Nat /\ RankSize(d, r) # 0
    BY <1>1, <1>2, FS_CardinalityType, FS_EmptySet DEF RankSize
<1> QED BY <1>2, <1>3, RanksAreFinite

LEMMA LargestRankType ==
    ASSUME NEW d, IsDiagram(d), NodesFit(d)
    PROVE  /\ LargestRank(d) \in Nat \ {0}
           /\ \A r \in Ranks(d) : RankSize(d, r) <= LargestRank(d)
<1> DEFINE S == { RankSize(d, r) : r \in Ranks(d) }
<1>1. S \subseteq 1..24 /\ S # {}
    BY RankSizeType, RanksAreFinite, FS_EmptySet DEF RankCount
<1>2. \E n \in S : \A m \in S : m <= n
    BY <1>1, LargestExists
<1>3. LargestRank(d) \in S /\ \A r \in Ranks(d) : RankSize(d, r) <= LargestRank(d)
    BY <1>2 DEF LargestRank
<1> QED BY <1>1, <1>3

(* The place of a node in its rank, and of a rank among the ranks: a       *)
(* strictly larger order or rank gives a larger place.                     *)
LEMMA Places ==
    ASSUME NEW S, IsFiniteSet(S), NEW a \in S, NEW A, NEW B,
           A \subseteq B, B \subseteq S \ {a}
    PROVE  /\ Cardinality(B) \in 0..(Cardinality(S) - 1)
           /\ \A b \in B \ A : Cardinality(A) + 1 <= Cardinality(B)
<1>1. IsFiniteSet(B) /\ IsFiniteSet(A)
    BY FS_Subset
<1>2. Cardinality(B) <= Cardinality(S) - 1
  <2>1. /\ IsFiniteSet(S \ {a})
        /\ Cardinality(S \ {a}) = Cardinality(S) - 1
      BY FS_RemoveElement
  <2> QED BY <2>1, FS_Subset
<1>3. ASSUME NEW b \in B \ A PROVE Cardinality(A) + 1 <= Cardinality(B)
  <2>1. A \subseteq B \ {b}
      BY <1>3
  <2>2. Cardinality(A) <= Cardinality(B \ {b})
      BY <1>1, <2>1, FS_RemoveElement, FS_Subset
  <2>3. Cardinality(B \ {b}) = Cardinality(B) - 1
      BY <1>1, <1>3, FS_RemoveElement
  <2>4. Cardinality(A) \in Nat /\ Cardinality(B) \in Nat
      BY <1>1, FS_CardinalityType
  <2> QED BY <2>2, <2>3, <2>4
<1> QED BY <1>1, <1>2, <1>3, FS_CardinalityType

LEMMA NodeIndexOrders ==
    ASSUME NEW d, IsDiagram(d), NodesFit(d), NEW i \in Nodes(d)
    PROVE  /\ d.nodes[i].rank \in Ranks(d)
           /\ NodeIndex(d, i) \in 0..(RankSize(d, d.nodes[i].rank) - 1)
           /\ \A j \in Nodes(d) :
                 /\ d.nodes[j].rank = d.nodes[i].rank
                 /\ d.nodes[j].order < d.nodes[i].order
                 => NodeIndex(d, j) + 1 <= NodeIndex(d, i)
<1> DEFINE r == d.nodes[i].rank
           Before(k) == { l \in InRank(d, r) : d.nodes[l].order < d.nodes[k].order }
<1>1. r \in Ranks(d) /\ i \in InRank(d, r) /\ IsFiniteSet(InRank(d, r))
    BY RankSizeType DEF Ranks, InRank
<1>2. \A k \in Nodes(d) : d.nodes[k].order \in Nat
    BY DEF IsDiagram, Nodes
<1>3. Before(i) \subseteq InRank(d, r) \ {i}
    BY <1>2 DEF InRank
<1>4. NodeIndex(d, i) \in 0..(RankSize(d, r) - 1)
    BY <1>1, <1>3, Places DEF NodeIndex, RankSize
<1>5. ASSUME NEW j \in Nodes(d), d.nodes[j].rank = r,
             d.nodes[j].order < d.nodes[i].order
      PROVE  NodeIndex(d, j) + 1 <= NodeIndex(d, i)
  <2>1. Before(j) \subseteq Before(i)
      BY <1>2, <1>5 DEF InRank
  <2>2. j \in Before(i) \ Before(j)
      BY <1>2, <1>5 DEF InRank
  <2>3. Cardinality(Before(j)) + 1 <= Cardinality(Before(i))
      BY <1>1, <1>3, <2>1, <2>2, Places
  <2> QED BY <1>5, <2>3 DEF NodeIndex
<1> QED BY <1>1, <1>4, <1>5

LEMMA RankIndexOrders ==
    ASSUME NEW d, IsDiagram(d), NodesFit(d), NEW i \in Nodes(d)
    PROVE  /\ RankIndex(d, i) \in 0..(RankCount(d) - 1)
           /\ \A j \in Nodes(d) :
                 d.nodes[j].rank < d.nodes[i].rank
                 => RankIndex(d, j) + 1 <= RankIndex(d, i)
<1> DEFINE Before(k) == { r \in Ranks(d) : r < d.nodes[k].rank }
<1>1. \A k \in Nodes(d) : d.nodes[k].rank \in Nat /\ d.nodes[k].rank \in Ranks(d)
    BY DEF IsDiagram, Nodes, Ranks
<1>2. Ranks(d) \subseteq 0..12 /\ IsFiniteSet(Ranks(d))
    BY RanksAreFinite
<1>3. Before(i) \subseteq Ranks(d) \ {d.nodes[i].rank}
    BY <1>1
<1>4. RankIndex(d, i) \in 0..(RankCount(d) - 1)
    BY <1>1, <1>2, <1>3, Places DEF RankIndex, RankCount
<1>5. ASSUME NEW j \in Nodes(d), d.nodes[j].rank < d.nodes[i].rank
      PROVE  RankIndex(d, j) + 1 <= RankIndex(d, i)
  <2>1. Before(j) \subseteq Before(i)
      BY <1>1, <1>2, <1>5
  <2>2. d.nodes[j].rank \in Before(i) \ Before(j)
      BY <1>1, <1>5
  <2>3. Cardinality(Before(j)) + 1 <= Cardinality(Before(i))
      BY <1>1, <1>2, <1>3, <2>1, <2>2, Places
  <2> QED BY <2>3 DEF RankIndex
<1> QED BY <1>4, <1>5

----------------------------------------------------------------------------
(* A box is never wider than the part of the canvas that is shared out:    *)
(* the check on the natural width came before the clamp.                   *)
LEMMA BoxWidthBounds ==
    ASSUME NEW d, IsDiagram(d), Ready(d)
    PROVE  /\ Shares(d) \in Nat \ {0}
           /\ BoxWidth(d) \in Nat /\ d.width \in Nat
           /\ 108 * Shares(d) <= BoxWidth(d)
           /\ IF d.direction = "top-down"
              THEN BoxWidth(d) <= d.width - 56
              ELSE BoxWidth(d) <= d.width - 68
<1>1. d.width \in Nat /\ d.direction \in {"top-down", "left-right"}
    BY DEF IsDiagram
<1>2. Shares(d) \in Nat \ {0}
    BY LargestRankType, RanksAreFinite DEF Shares, Ready, ConfigFits
<1>3. NaturalWidth(d) >= NarrowestBox(d) * Shares(d)
    BY DEF Ready, LaidOut
<1>4. CASE d.direction = "top-down"
  <2>1. /\ NaturalWidth(d) = d.width - 48 - 18 * Shares(d)
        /\ NarrowestBox(d) = 112
      BY <1>4 DEF NaturalWidth, NarrowestBox
  <2> QED BY <1>1, <1>2, <1>3, <1>4, <2>1 DEF BoxWidth, Clamp
<1>5. CASE d.direction = "left-right"
  <2>1. /\ NaturalWidth(d) = d.width - 60 - 26 * Shares(d)
        /\ NarrowestBox(d) = 122
      BY <1>5 DEF NaturalWidth, NarrowestBox
  <2> QED BY <1>1, <1>2, <1>3, <1>5, <2>1 DEF BoxWidth, Clamp
<1> QED BY <1>1, <1>4, <1>5

(* The arithmetic of a row: m boxes of width b / s, s at least m, in slots *)
(* of a canvas of width w; k and l are places in the row.                  *)
LEMMA RowArithmetic ==
    ASSUME NEW m \in Nat \ {0}, NEW s \in Nat, m <= s,
           NEW b \in Nat, NEW w \in Nat, b <= w - 56,
           NEW k \in 0..(m - 1)
    PROVE  /\ b * m <= s * (56 * m + (w - 56) * (2 * k + 1))
           /\ s * (56 * m + (w - 56) * (2 * k + 1)) + b * m <= w * (2 * s * m)
           /\ \A l \in 0..(m - 1) :
                 l + 1 <= k =>
                     s * (56 * m + (w - 56) * (2 * k + 1))
                     - s * (56 * m + (w - 56) * (2 * l + 1)) >= 2 * (b * m)
<1> DEFINE v == w - 56
<1>0. v \in Nat /\ b <= v /\ w = v + 56
    OBVIOUS
<1> HIDE DEF v
<1>1. b * m <= v * s
    BY <1>0, ScaleBoth
<1>2. s * (56 * m + v * (2 * k + 1)) = 56 * (s * m) + 2 * ((v * s) * k) + v * s
    BY <1>0
<1>3. s * m \in Nat /\ v * s \in Nat /\ (v * s) * k \in Nat
    BY <1>0
<1>4. (v * s) * k <= (v * s) * m - v * s
  <2>1. k * (v * s) <= (m - 1) * (v * s)
      BY <1>3, Scale
  <2> QED BY <1>3, <2>1
<1>5. w * (2 * s * m) = 2 * ((v * s) * m) + 112 * (s * m)
    BY <1>0
<1>6. ASSUME NEW l \in 0..(m - 1), l + 1 <= k
      PROVE  s * (56 * m + v * (2 * k + 1)) - s * (56 * m + v * (2 * l + 1))
             >= 2 * (b * m)
  <2>1. s * (56 * m + v * (2 * l + 1)) = 56 * (s * m) + 2 * ((v * s) * l) + v * s
      BY <1>0
  <2>2. (v * s) * l + v * s <= (v * s) * k
    <3>1. (l + 1) * (v * s) <= k * (v * s)
        BY <1>3, <1>6, Scale
    <3> QED BY <1>3, <3>1
  <2> QED BY <1>1, <1>2, <1>3, <2>1, <2>2
<1>7. b * m \in Nat /\ (v * s) * m \in Nat
    BY <1>0
<1>8. b * m <= s * (56 * m + v * (2 * k + 1))
    BY <1>1, <1>2, <1>3, <1>7
<1>9. s * (56 * m + v * (2 * k + 1)) + b * m <= w * (2 * s * m)
    BY <1>1, <1>2, <1>3, <1>4, <1>5, <1>7
<1> QED BY <1>6, <1>8, <1>9 DEF v

(* The arithmetic of columns: r of them, spread evenly between the margins *)
(* of a canvas of width w; boxes are b / r wide, t and u are columns.      *)
LEMMA ColumnArithmetic ==
    ASSUME NEW r \in Nat, r > 1, NEW b \in Nat, NEW w \in Nat, b <= w - 68,
           NEW t \in 0..(r - 1)
    PROVE  LET h == b * (r - 1)
               unit == 2 * r * (r - 1)
               centre(x) == h + 34 * unit + 2 * x * (r * (w - 68) - b)
           IN  /\ h <= centre(t)
               /\ centre(t) + h <= w * unit
               /\ \A u \in 0..(r - 1) : u + 1 <= t => centre(t) - centre(u) >= 2 * h
<1> DEFINE v == w - 68
           q == r - 1
           g == r * v - b
<1>0. v \in Nat /\ b <= v /\ w = v + 68 /\ q \in Nat /\ r = q + 1
    OBVIOUS
<1>1. g \in Nat /\ b * q <= g
  <2>1. b * r <= v * r
      BY <1>0, Scale
  <2>2. b * r = b * q + b /\ b * q \in Nat /\ r * v = v * r
      BY <1>0
  <2> QED BY <1>0, <2>1, <2>2
<1>2. 2 * r * (r - 1) = 2 * (r * q) /\ r * q \in Nat /\ b * q \in Nat
    BY <1>0
<1>3. g * q = (r * q) * v - b * q /\ (r * q) * v \in Nat
    BY <1>0
<1> HIDE DEF v, q, g
<1>4. t * g <= q * g /\ t * g \in Nat
    BY <1>0, <1>1, Scale
<1>5. w * (2 * r * (r - 1)) = 2 * ((r * q) * v) + 136 * (r * q)
    BY <1>0, <1>2
<1>6. 2 * t * g = 2 * (t * g)
    BY <1>1
<1>7. b * q <= b * q + 34 * (2 * (r * q)) + 2 * t * g
    BY <1>2, <1>4, <1>6
<1>8. b * q + 34 * (2 * (r * q)) + 2 * t * g + b * q <= w * (2 * r * (r - 1))
  <2>1. q * g = g * q
      BY <1>0, <1>1
  <2> QED BY <1>2, <1>3, <1>4, <1>5, <1>6, <2>1
<1>9. ASSUME NEW u \in 0..(r - 1), u + 1 <= t
      PROVE  2 * t * g - 2 * u * g >= 2 * (b * q)
  <2>1. (u + 1) * g <= t * g
      BY <1>1, <1>9, Scale
  <2>2. (u + 1) * g = u * g + g /\ 2 * u * g = 2 * (u * g) /\ u * g \in Nat
      BY <1>1
  <2> QED BY <1>1, <1>2, <1>4, <1>6, <2>1, <2>2
<1>10. ASSUME NEW u \in 0..(r - 1) PROVE 2 * u * g \in Nat
    BY <1>1
<1>11. 2 * t * g \in Nat
    BY <1>10
<1> QED BY <1>0, <1>2, <1>7, <1>8, <1>9, <1>10, <1>11 DEF v, q, g

(* From left to right, as if no box were an actor: the clamp on the width  *)
(* of a box (diagram.js:256-278) undoes none of the checks before it.      *)
LEMMA Across ==
    ASSUME NEW d, IsDiagram(d), Ready(d)
    PROVE  /\ \A i \in Nodes(d) :
                 /\ Unit(d, i) \in Nat
                 /\ HalfNodeWidth(d, i) \in Nat /\ Centre(d, i) \in Int
                 /\ HalfNodeWidth(d, i) <= Centre(d, i)
                 /\ Centre(d, i) + HalfNodeWidth(d, i) <= d.width * Unit(d, i)
           /\ \A i, j \in Nodes(d) : i # j /\ SideBySide(d, i, j) =>
                 /\ HalfNodeWidth(d, i) = HalfNodeWidth(d, j)
                 /\ \/ Centre(d, j) - Centre(d, i) >= 2 * HalfNodeWidth(d, i)
                    \/ Centre(d, i) - Centre(d, j) >= 2 * HalfNodeWidth(d, i)
<1>0. NodesFit(d)
    BY DEF Ready, ConfigFits
<1>1. /\ Shares(d) \in Nat \ {0} /\ BoxWidth(d) \in Nat /\ d.width \in Nat
      /\ d.direction \in {"top-down", "left-right"}
    BY BoxWidthBounds DEF IsDiagram
<1>2. \A i \in Nodes(d) : d.nodes[i].rank \in Nat /\ d.nodes[i].order \in Nat
    BY DEF IsDiagram, Nodes
<1>3. CASE d.direction = "top-down"
  <2> DEFINE m(i) == RankSize(d, d.nodes[i].rank)
             k(i) == NodeIndex(d, i)
  <2>1. \A i \in Nodes(d) :
           /\ m(i) \in Nat \ {0} /\ m(i) <= Shares(d)
           /\ k(i) \in 0..(m(i) - 1)
      BY <1>0, <1>3, NodeIndexOrders, LargestRankType, RankSizeType DEF Shares
  <2>2. BoxWidth(d) <= d.width - 56
      BY <1>3, BoxWidthBounds
  <2>3. \A i \in Nodes(d) :
           /\ Unit(d, i) = 2 * Shares(d) * m(i)
           /\ HalfNodeWidth(d, i) = BoxWidth(d) * m(i)
           /\ Centre(d, i) = Shares(d) * (56 * m(i) + (d.width - 56) * (2 * k(i) + 1))
      BY <1>3 DEF Unit, HalfNodeWidth, Centre
  <2> HIDE DEF m, k
  <2>4. ASSUME NEW i \in Nodes(d)
        PROVE  /\ HalfNodeWidth(d, i) <= Centre(d, i)
               /\ Centre(d, i) + HalfNodeWidth(d, i) <= d.width * Unit(d, i)
      BY <1>1, <2>1, <2>2, <2>3, RowArithmetic
  <2>5. ASSUME NEW i \in Nodes(d), NEW j \in Nodes(d),
               d.nodes[i].rank = d.nodes[j].rank,
               d.nodes[j].order < d.nodes[i].order
        PROVE  Centre(d, i) - Centre(d, j) >= 2 * HalfNodeWidth(d, i)
    <3>1. k(j) + 1 <= k(i) /\ m(i) = m(j)
        BY <1>0, <2>5, NodeIndexOrders DEF k, m
    <3>2. k(j) \in 0..(m(i) - 1)
        BY <2>1, <3>1
    <3> QED BY <1>1, <2>1, <2>2, <2>3, <3>1, <3>2, RowArithmetic
  <2>6. ASSUME NEW i \in Nodes(d), NEW j \in Nodes(d), i # j, SideBySide(d, i, j)
        PROVE  \/ Centre(d, j) - Centre(d, i) >= 2 * HalfNodeWidth(d, i)
               \/ Centre(d, i) - Centre(d, j) >= 2 * HalfNodeWidth(d, i)
    <3>1. d.nodes[i].rank = d.nodes[j].rank /\ HalfNodeWidth(d, i) = HalfNodeWidth(d, j)
        BY <1>3, <2>3, <2>6 DEF SideBySide, m
    <3>2. d.nodes[i].order # d.nodes[j].order
        BY <1>0, <2>6, <3>1 DEF NodesFit
    <3>3. d.nodes[i].order < d.nodes[j].order \/ d.nodes[j].order < d.nodes[i].order
        BY <1>2, <3>2
    <3> QED BY <2>5, <3>1, <3>3
  <2>7. ASSUME NEW i \in Nodes(d)
        PROVE  Unit(d, i) \in Nat /\ HalfNodeWidth(d, i) \in Nat /\ Centre(d, i) \in Int
      BY <1>1, <2>1, <2>3
  <2>8. \A i, j \in Nodes(d) : SideBySide(d, i, j) =>
           HalfNodeWidth(d, i) = HalfNodeWidth(d, j)
      BY <1>3, <2>3 DEF SideBySide, m
  <2> QED BY <2>4, <2>6, <2>7, <2>8
<1>4. CASE d.direction = "left-right"
  <2>1. /\ Shares(d) = RankCount(d) /\ BoxWidth(d) <= d.width - 68
        /\ \A i \in Nodes(d) : RankIndex(d, i) \in 0..(RankCount(d) - 1)
      BY <1>0, <1>4, BoxWidthBounds, RankIndexOrders DEF Shares
  <2>2. ASSUME NEW i \in Nodes(d), NEW j \in Nodes(d), i # j, SideBySide(d, i, j)
        PROVE  /\ RankCount(d) > 1
               /\ \/ RankIndex(d, i) + 1 <= RankIndex(d, j)
                  \/ RankIndex(d, j) + 1 <= RankIndex(d, i)
    <3>1. d.nodes[i].rank # d.nodes[j].rank
        BY <1>4, <2>2 DEF SideBySide
    <3>2. d.nodes[i].rank < d.nodes[j].rank \/ d.nodes[j].rank < d.nodes[i].rank
        BY <1>2, <3>1
    <3>3. \/ RankIndex(d, i) + 1 <= RankIndex(d, j)
          \/ RankIndex(d, j) + 1 <= RankIndex(d, i)
        BY <1>0, <3>2, RankIndexOrders
    <3> QED BY <1>1, <2>1, <3>3
  <2>3. CASE RankCount(d) = 1
    <3>1. \A i \in Nodes(d) :
             /\ Unit(d, i) = 2 /\ HalfNodeWidth(d, i) = BoxWidth(d)
             /\ Centre(d, i) = d.width
        BY <1>4, <2>3 DEF Unit, HalfNodeWidth, Centre
    <3>2. \A i, j \in Nodes(d) : i # j => ~SideBySide(d, i, j)
        BY <2>2, <2>3
    <3> QED BY <1>1, <2>1, <3>1, <3>2
  <2>4. CASE RankCount(d) # 1
    <3> DEFINE r == RankCount(d)
               h == BoxWidth(d) * (r - 1)
               unit == 2 * r * (r - 1)
               centre(t) == h + 34 * unit
                            + 2 * t * (r * (d.width - 68) - BoxWidth(d))
    <3>1. \A i \in Nodes(d) :
             /\ Unit(d, i) = unit /\ HalfNodeWidth(d, i) = h
             /\ Centre(d, i) = centre(RankIndex(d, i))
        BY <1>4, <2>1, <2>4 DEF Unit, HalfNodeWidth, Centre
    <3>2. r \in Nat /\ r > 1
        BY <1>1, <2>1, <2>4
    <3>3. \A t \in 0..(r - 1) :
             /\ h <= centre(t)
             /\ centre(t) + h <= d.width * unit
             /\ \A u \in 0..(r - 1) : u + 1 <= t => centre(t) - centre(u) >= 2 * h
        BY <1>1, <2>1, <3>2, ColumnArithmetic
    <3>4. unit \in Nat /\ h \in Nat /\ \A t \in Nat : centre(t) \in Int
        BY <1>1, <3>2
    <3> HIDE DEF h, unit, centre
    <3> QED BY <2>1, <2>2, <3>1, <3>3, <3>4
  <2> QED BY <2>3, <2>4
<1> QED BY <1>1, <1>3, <1>4

(* The 108 pixels of an actor fit into the narrowest nodeWidth.            *)
LEMMA ActorsFit ==
    ASSUME NEW d, IsDiagram(d), Ready(d), NEW i \in Nodes(d)
    PROVE  HalfWidth(d, i) \in Nat /\ HalfWidth(d, i) <= HalfNodeWidth(d, i)
<1>0. NodesFit(d)
    BY DEF Ready, ConfigFits
<1> DEFINE s == Shares(d)
           b == BoxWidth(d)
           m == RankSize(d, d.nodes[i].rank)
           q == RankCount(d) - 1
<1>1. s \in Nat /\ b \in Nat /\ 108 * s <= b /\ m \in Nat /\ q \in Nat
    BY <1>0, BoxWidthBounds, RanksAreFinite, NodeIndexOrders, RankSizeType
<1>2. Unit(d, i) \in Nat /\ HalfNodeWidth(d, i) \in Nat
    BY Across
<1>3. CASE d.direction = "top-down"
  <2>1. Unit(d, i) = 2 * s * m /\ HalfNodeWidth(d, i) = b * m
      BY <1>3 DEF Unit, HalfNodeWidth
  <2> HIDE DEF s, b, m
  <2>2. (108 * s) * m <= b * m
      BY <1>1, Scale
  <2>3. 54 * (2 * s * m) = (108 * s) * m
      BY <1>1
  <2> QED BY <1>2, <2>1, <2>2, <2>3 DEF HalfWidth
<1>4. CASE d.direction # "top-down" /\ q = 0
  <2>1. Unit(d, i) = 2 /\ HalfNodeWidth(d, i) = b /\ s = 1
      BY <1>1, <1>4, <1>0, RanksAreFinite DEF Unit, HalfNodeWidth, Shares
  <2> QED BY <1>1, <1>2, <2>1 DEF HalfWidth
<1>5. CASE d.direction # "top-down" /\ q # 0
  <2>1. Unit(d, i) = 2 * s * q /\ HalfNodeWidth(d, i) = b * q
    <3>1. RankCount(d) # 1
        BY <1>5
    <3> QED BY <1>5, <3>1 DEF Unit, HalfNodeWidth
  <2> HIDE DEF s, b, q
  <2>2. (108 * s) * q <= b * q
      BY <1>1, Scale
  <2>3. 54 * (2 * s * q) = (108 * s) * q
      BY <1>1
  <2> QED BY <1>2, <2>1, <2>2, <2>3 DEF HalfWidth
<1> QED BY <1>3, <1>4, <1>5

(* The arithmetic of rows above each other: q + 1 of them on a canvas of   *)
(* height c, and boxes of height a and e.                                  *)
LEMMA RowLevels ==
    ASSUME NEW q \in Nat \ {0}, NEW c \in Nat, c - 140 >= 130 * q,
           NEW t \in 0..q, NEW a \in Nat
    PROVE  LET level(x) == 70 * q + (c - 140) * x
           IN  /\ level(t) \in Int
               /\ a <= 140 => /\ a * q <= 2 * level(t)
                              /\ 2 * level(t) + a * q <= 2 * c * q
               /\ a <= 260 => \A u \in 0..q : u + 1 <= t =>
                     2 * (level(t) - level(u)) >= a * q
<1> DEFINE v == c - 140
<1>0. v \in Nat /\ c = v + 140 /\ 130 * q <= v
    OBVIOUS
<1> HIDE DEF v
<1>1. v * t \in Nat /\ v * q \in Nat /\ v * t <= v * q
  <2>1. t * v <= q * v
      BY <1>0, Scale
  <2> QED BY <1>0, <2>1
<1>2. 70 * q + v * t \in Int
    BY <1>1
<1>3. ASSUME a <= 140
      PROVE  /\ a * q <= 2 * (70 * q + v * t)
             /\ 2 * (70 * q + v * t) + a * q <= 2 * c * q
  <2>1. a * q <= 140 * q
      BY <1>3, Scale
  <2>2. 2 * c * q = 2 * (v * q) + 280 * q
      BY <1>0
  <2>3. a * q \in Nat
      OBVIOUS
  <2> QED BY <1>1, <2>1, <2>2, <2>3
<1>4. ASSUME a <= 260, NEW u \in 0..q, u + 1 <= t
      PROVE  2 * ((70 * q + v * t) - (70 * q + v * u)) >= a * q
  <2>1. a * q <= 260 * q
      BY <1>4, Scale
  <2>2. (u + 1) * v <= t * v
      BY <1>0, <1>4, Scale
  <2>3. (u + 1) * v = v * u + v /\ t * v = v * t /\ v * u \in Nat
      BY <1>0
  <2>4. a * q \in Nat
      OBVIOUS
  <2> QED BY <1>0, <1>1, <2>1, <2>2, <2>3, <2>4
<1> QED BY <1>2, <1>3, <1>4 DEF v

(* The arithmetic of a column: m boxes in slots of a canvas of height c.   *)
LEMMA ColumnLevels ==
    ASSUME NEW m \in Nat \ {0}, NEW c \in Nat, c - 68 >= 96 * m,
           NEW t \in 0..(m - 1), NEW a \in Nat
    PROVE  LET level(x) == 68 * m + (c - 68) * (2 * x + 1)
               unit == 2 * m
           IN  /\ level(t) \in Int
               /\ a <= 164 => /\ a * unit <= 2 * level(t)
                              /\ 2 * level(t) + a * unit <= 2 * c * unit
               /\ a <= 192 => \A u \in 0..(m - 1) : u + 1 <= t =>
                     2 * (level(t) - level(u)) >= a * unit
<1> DEFINE v == c - 68
           level(x) == 68 * m + v * (2 * x + 1)
<1>0. v \in Nat /\ c = v + 68 /\ 96 * m <= v
    OBVIOUS
<1> HIDE DEF v
<1>1. \A x \in Nat : level(x) = 68 * m + 2 * (v * x) + v /\ v * x \in Nat
    BY <1>0
<1>2. a * (2 * m) = 2 * (a * m) /\ a * m \in Nat
    OBVIOUS
<1> HIDE DEF level
<1>3. v * t <= v * m - v /\ v * m \in Nat
  <2>1. t * v <= (m - 1) * v
      BY <1>0, Scale
  <2>2. (m - 1) * v = v * m - v /\ t * v = v * t /\ v * m \in Nat
      BY <1>0
  <2> QED BY <2>1, <2>2
<1>4. ASSUME a <= 164
      PROVE  a * (2 * m) <= 2 * level(t) /\ 2 * level(t) + a * (2 * m) <= 2 * c * (2 * m)
  <2>1. a * m <= 164 * m
      BY <1>4, Scale
  <2>2. 2 * c * (2 * m) = 4 * (v * m) + 272 * m
      BY <1>0
  <2>3. level(t) = 68 * m + 2 * (v * t) + v /\ v * t \in Nat
      BY <1>1
  <2>4. 2 * (a * m) <= 2 * level(t)
      BY <1>0, <1>2, <2>1, <2>3
  <2>5. 2 * level(t) + 2 * (a * m) <= 4 * (v * m) + 272 * m
      BY <1>0, <1>2, <1>3, <2>1, <2>3
  <2> QED BY <1>2, <2>2, <2>4, <2>5
<1>5. ASSUME a <= 192, NEW u \in 0..(m - 1), u + 1 <= t
      PROVE  2 * (level(t) - level(u)) >= a * (2 * m)
  <2>1. a * m <= 192 * m
      BY <1>5, Scale
  <2>2. (u + 1) * v <= t * v
      BY <1>0, <1>5, Scale
  <2>3. (u + 1) * v = v * u + v /\ t * v = v * t
      BY <1>0
  <2>4. /\ level(t) = 68 * m + 2 * (v * t) + v /\ v * t \in Nat
        /\ level(u) = 68 * m + 2 * (v * u) + v /\ v * u \in Nat
      BY <1>1
  <2>5. 2 * (level(t) - level(u)) >= 2 * (a * m)
      BY <1>0, <1>2, <2>1, <2>2, <2>3, <2>4
  <2> QED BY <1>2, <2>5
<1>6. level(t) \in Int
    BY <1>0, <1>1
<1> QED BY <1>4, <1>5, <1>6 DEF v, level

(* From top to bottom.                                                     *)
LEMMA Upright ==
    ASSUME NEW d, IsDiagram(d), Ready(d)
    PROVE  /\ \A i \in Nodes(d) :
                 d.nodes[i].height <= RoomForOne(d) =>
                    /\ d.nodes[i].height * LevelUnit(d, i) <= 2 * Level(d, i)
                    /\ 2 * Level(d, i) + d.nodes[i].height * LevelUnit(d, i)
                          <= 2 * d.height * LevelUnit(d, i)
           /\ \A i, j \in Nodes(d) : i # j /\ ~SideBySide(d, i, j) =>
                 LET together == d.nodes[i].height + d.nodes[j].height IN
                 together <= RoomForTwo(d) =>
                    \/ 2 * (Level(d, j) - Level(d, i)) >= together * LevelUnit(d, i)
                    \/ 2 * (Level(d, i) - Level(d, j)) >= together * LevelUnit(d, i)
<1>0. NodesFit(d)
    BY DEF Ready, ConfigFits
<1>1. /\ d.height \in Nat /\ d.height \in 320..1200
      /\ d.direction \in {"top-down", "left-right"}
    BY DEF IsDiagram, Ready, ConfigFits, SizeFits
<1>2. \A i \in Nodes(d) :
         d.nodes[i].rank \in Nat /\ d.nodes[i].order \in Nat /\ d.nodes[i].height \in Nat
    BY DEF IsDiagram, Nodes
<1>3. CASE d.direction = "top-down"
  <2>1. \A i, j \in Nodes(d) : ~SideBySide(d, i, j) => d.nodes[i].rank # d.nodes[j].rank
      BY <1>3 DEF SideBySide
  <2>2. RoomForOne(d) = 140 /\ RoomForTwo(d) = 260
      BY <1>3 DEF RoomForOne, RoomForTwo
  <2>3. RankCount(d) \in Nat \ {0}
        /\ \A i \in Nodes(d) : RankIndex(d, i) \in 0..(RankCount(d) - 1)
      BY <1>0, RanksAreFinite, RankIndexOrders
  <2>4. \A i, j \in Nodes(d) : d.nodes[i].rank # d.nodes[j].rank =>
           RankIndex(d, i) + 1 <= RankIndex(d, j) \/ RankIndex(d, j) + 1 <= RankIndex(d, i)
    <3>1. \A i, j \in Nodes(d) : d.nodes[i].rank # d.nodes[j].rank =>
             d.nodes[i].rank < d.nodes[j].rank \/ d.nodes[j].rank < d.nodes[i].rank
        BY <1>2
    <3> QED BY <1>0, <3>1, RankIndexOrders
  <2>5. CASE RankCount(d) = 1
    <3>1. \A i \in Nodes(d) : LevelUnit(d, i) = 2 /\ Level(d, i) = d.height
        BY <1>3, <2>5 DEF LevelUnit, Level
    <3>2. \A i, j \in Nodes(d) : SideBySide(d, i, j)
        BY <2>1, <2>3, <2>4, <2>5
    <3>3. ASSUME NEW i \in Nodes(d), d.nodes[i].height <= 140
          PROVE  /\ d.nodes[i].height * 2 <= 2 * d.height
                 /\ 2 * d.height + d.nodes[i].height * 2 <= 2 * d.height * 2
      <4>1. d.nodes[i].height \in Nat /\ d.height \in Nat /\ d.height >= 320
          BY <1>1, <1>2
      <4> QED BY <3>3, <4>1
    <3> QED BY <2>2, <3>1, <3>2, <3>3
  <2>6. CASE RankCount(d) # 1
    <3> DEFINE q == RankCount(d) - 1
               c == d.height
               level(x) == 70 * q + (c - 140) * x
    <3>1. q \in Nat \ {0} /\ c \in Nat /\ c - 140 >= 130 * q
      <4>1. d.height \in Nat /\ RankCount(d) \in Nat \ {0} /\ RankCount(d) > 1
          BY <1>1, <2>3, <2>6
      <4>2. d.height - 140 >= 130 * (RankCount(d) - 1)
          BY <1>3, <4>1 DEF Ready, LaidOut
      <4> QED BY <4>1, <4>2
    <3>2. \A i \in Nodes(d) : LevelUnit(d, i) = q /\ Level(d, i) = level(RankIndex(d, i))
        BY <1>3, <2>6 DEF LevelUnit, Level
    <3> HIDE DEF q, c
    <3>3. ASSUME NEW t \in 0..q, NEW a \in Nat
          PROVE  /\ level(t) \in Int
                 /\ a <= 140 => /\ a * q <= 2 * level(t)
                                /\ 2 * level(t) + a * q <= 2 * c * q
                 /\ a <= 260 => \A u \in 0..q : u + 1 <= t =>
                       2 * (level(t) - level(u)) >= a * q
        BY <3>1, RowLevels
    <3>4. \A i \in Nodes(d) : RankIndex(d, i) \in 0..q
        BY <2>3 DEF q
    <3> HIDE DEF level
    <3>5. ASSUME NEW i \in Nodes(d), NEW j \in Nodes(d), ~SideBySide(d, i, j),
                 d.nodes[i].height + d.nodes[j].height <= 260
          PROVE  LET together == d.nodes[i].height + d.nodes[j].height IN
                    \/ 2 * (Level(d, j) - Level(d, i)) >= together * LevelUnit(d, i)
                    \/ 2 * (Level(d, i) - Level(d, j)) >= together * LevelUnit(d, i)
      <4>1. d.nodes[i].height + d.nodes[j].height \in Nat
          BY <1>2
      <4>2. RankIndex(d, i) + 1 <= RankIndex(d, j) \/ RankIndex(d, j) + 1 <= RankIndex(d, i)
          BY <2>1, <2>4, <3>5
      <4> QED BY <3>2, <3>3, <3>4, <3>5, <4>1, <4>2
    <3> QED BY <1>2, <2>2, <3>2, <3>3, <3>4, <3>5 DEF c
  <2> QED BY <2>5, <2>6
<1>4. CASE d.direction = "left-right"
  <2> DEFINE m(i) == RankSize(d, d.nodes[i].rank)
             k(i) == NodeIndex(d, i)
             level(n, x) == 68 * n + (d.height - 68) * (2 * x + 1)
  <2>1. \A i, j \in Nodes(d) : i # j /\ ~SideBySide(d, i, j) =>
           /\ d.nodes[i].rank = d.nodes[j].rank
           /\ d.nodes[i].order < d.nodes[j].order \/ d.nodes[j].order < d.nodes[i].order
    <3>1. \A i, j \in Nodes(d) : ~SideBySide(d, i, j) => d.nodes[i].rank = d.nodes[j].rank
        BY <1>4 DEF SideBySide
    <3>2. \A i, j \in Nodes(d) : i # j /\ d.nodes[i].rank = d.nodes[j].rank =>
             d.nodes[i].order # d.nodes[j].order
        BY <1>0 DEF NodesFit
    <3> QED BY <1>2, <3>1, <3>2
  <2>2. RoomForOne(d) = 164 /\ RoomForTwo(d) = 192
      BY <1>4 DEF RoomForOne, RoomForTwo
  <2>3. \A i \in Nodes(d) : /\ m(i) \in Nat \ {0} /\ d.height - 68 >= 96 * m(i)
                            /\ k(i) \in 0..(m(i) - 1)
    <3>1. d.height - 68 >= 96 * LargestRank(d) /\ LargestRank(d) \in Nat
        BY <1>0, <1>4, LargestRankType DEF Ready, LaidOut
    <3>2. \A i \in Nodes(d) : /\ m(i) \in Nat \ {0} /\ m(i) <= LargestRank(d)
                              /\ k(i) \in 0..(m(i) - 1)
        BY <1>0, NodeIndexOrders, LargestRankType, RankSizeType
    <3> QED BY <1>1, <3>1, <3>2
  <2>4. \A i \in Nodes(d) : LevelUnit(d, i) = 2 * m(i) /\ Level(d, i) = level(m(i), k(i))
      BY <1>4 DEF LevelUnit, Level
  <2>5. \A i \in Nodes(d), a \in Nat :
           /\ a <= 164 => /\ a * (2 * m(i)) <= 2 * level(m(i), k(i))
                          /\ 2 * level(m(i), k(i)) + a * (2 * m(i))
                                <= 2 * d.height * (2 * m(i))
           /\ a <= 192 => \A u \in 0..(m(i) - 1) : u + 1 <= k(i) =>
                 2 * (level(m(i), k(i)) - level(m(i), u)) >= a * (2 * m(i))
    <3>1. ASSUME NEW i \in Nodes(d), NEW a \in Nat
          PROVE  /\ a <= 164 => /\ a * (2 * m(i)) <= 2 * level(m(i), k(i))
                                /\ 2 * level(m(i), k(i)) + a * (2 * m(i))
                                      <= 2 * d.height * (2 * m(i))
                 /\ a <= 192 => \A u \in 0..(m(i) - 1) : u + 1 <= k(i) =>
                       2 * (level(m(i), k(i)) - level(m(i), u)) >= a * (2 * m(i))
      <4>1. /\ d.height \in Nat /\ m(i) \in Nat \ {0}
            /\ d.height - 68 >= 96 * m(i) /\ k(i) \in 0..(m(i) - 1)
          BY <1>1, <2>3
      <4> HIDE DEF m, k
      <4> QED BY <4>1, ColumnLevels
    <3> QED BY <3>1
  <2>6. \A i, j \in Nodes(d) : i # j /\ ~SideBySide(d, i, j) =>
           m(i) = m(j) /\ (k(i) + 1 <= k(j) \/ k(j) + 1 <= k(i))
      BY <1>0, <2>1, NodeIndexOrders
  <2> HIDE DEF m, k, level
  <2>7. ASSUME NEW i \in Nodes(d), NEW j \in Nodes(d), i # j, ~SideBySide(d, i, j),
               d.nodes[i].height + d.nodes[j].height <= 192
        PROVE  LET together == d.nodes[i].height + d.nodes[j].height IN
                  \/ 2 * (Level(d, j) - Level(d, i)) >= together * LevelUnit(d, i)
                  \/ 2 * (Level(d, i) - Level(d, j)) >= together * LevelUnit(d, i)
    <3>1. d.nodes[i].height + d.nodes[j].height \in Nat
        BY <1>2
    <3> QED BY <2>3, <2>4, <2>5, <2>6, <2>7, <3>1
  <2> QED BY <1>2, <2>2, <2>4, <2>5, <2>7
<1> QED BY <1>1, <1>3, <1>4

(* In a diagram that the runtime accepts no two boxes side by side cover   *)
(* each other, none leaves the canvas on the left or on the right, and     *)
(* boxes one above the other are apart as long as their labels fit into    *)
(* the room the layout keeps, whatever the number of boxes, of ranks and   *)
(* the size of the canvas (diagram.js:241-308, diagram.css:92-148).        *)
THEOREM ReadyBoxesApart ==
    ASSUME NEW d, IsDiagram(d), Ready(d)
    PROVE  BoxesApart(d)
<1>1. ASSUME NEW i \in Nodes(d)
      PROVE  /\ HalfWidth(d, i) <= Centre(d, i)
             /\ Centre(d, i) + HalfWidth(d, i) <= d.width * Unit(d, i)
  <2>1. d.width \in Nat /\ d.width * Unit(d, i) \in Int
      BY Across DEF IsDiagram
  <2> QED BY <2>1, Across, ActorsFit
<1>2. ASSUME NEW i \in Nodes(d), NEW j \in Nodes(d), i # j, SideBySide(d, i, j)
      PROVE  \/ Centre(d, j) - Centre(d, i) >= HalfWidth(d, i) + HalfWidth(d, j)
             \/ Centre(d, i) - Centre(d, j) >= HalfWidth(d, i) + HalfWidth(d, j)
    BY <1>2, Across, ActorsFit
<1> QED BY <1>1, <1>2, Upright DEF BoxesApart

----------------------------------------------------------------------------
(* What a process holds at each of its steps.                              *)
Rendering == {"draw", "source again", "assets again", "source at last",
              "assets at last", "replace", "sweep"}
Printing == {"validate", "labels", "reread", "print", "measure"}
Inspecting == {"inspect", "inspect pixels"}

HoldsAt(p) ==
    /\ pc[p] # "idle" => command[p] \in Commands
    /\ pc[p] \in {"open", "write"} => command[p].does = "create"
    /\ pc[p] \in Rendering => command[p].does = "render"
    /\ pc[p] \in Printing => command[p].does = "print"
    /\ pc[p] \in Inspecting => command[p].does \in {"check", "print"}
    /\ pc[p] \in {"source", "assets"} =>
          command[p].does \in {"render", "check", "print"}
    /\ pc[p] \in {"assets", "assets again", "assets at last"} =>
          source[p] \in Loadable
    /\ pc[p] \in Rendering \cup Inspecting => seen[p] \in Document
    /\ pc[p] \in Rendering \ {"draw"} => picture[p] \in Picture
    /\ pc[p] = "inspect pixels" => picture[p] \in Picture
    /\ pc[p] \in {"print", "measure"} => body[p] \in Texts

NoteTypes == TypeOK /\ \A p \in Processes : HoldsAt(p)

(* What a process holds is its own.                                        *)
Kept(p) ==
    /\ pc'[p] = pc[p] /\ command'[p] = command[p]
    /\ source'[p] = source[p] /\ seen'[p] = seen[p]
    /\ picture'[p] = picture[p] /\ text'[p] = text[p] /\ body'[p] = body[p]

LEMMA CommandTypes ==
    ASSUME NEW c \in Commands
    PROVE  /\ c.does \in {"create", "render", "check", "print"}
           /\ c.does = "create" => /\ c.what \in Sources /\ c.force \in BOOLEAN
                                   /\ c.title \in Titles
           /\ FirstStep(c) \in {"open", "validate", "source"}
           /\ FirstStep(c) = "open" <=> c.does = "create"
           /\ FirstStep(c) = "validate" <=> c.does = "print"
BY DEF Commands, FirstStep

LEMMA OthersKeep ==
    ASSUME TypeOK, NEW p \in Processes, Start(p) \/ Step(p) \/ Fail(p)
    PROVE  \A q \in Processes : q # p => Kept(q)
<1> USE DEF TypeOK, Kept, Goto, files, locals, unread
<1>1. CASE Start(p) \/ Fail(p)
    BY <1>1 DEF Start, Fail, Forget
<1>2. CASE Open(p) \/ Write(p)
    BY <1>2 DEF Open, Write
<1>3. CASE ReadHtml(p) \/ ReadAssets(p) \/ Draw(p)
    BY <1>3 DEF ReadHtml, ReadAssets, Draw
<1>4. CASE Recheck(p) \/ Accept(p) \/ Replace(p) \/ Sweep(p)
    BY <1>4 DEF Recheck, Accept, Replace, Sweep
<1>5. CASE InspectNames(p) \/ InspectPixels(p) \/ ReadLabels(p)
    BY <1>5 DEF InspectNames, InspectPixels, ReadLabels
<1>6. CASE Validate(p) \/ Reread(p) \/ PrintNote(p) \/ Measure(p)
    BY <1>6 DEF Validate, Reread, PrintNote, Measure
<1> QED BY <1>1, <1>2, <1>3, <1>4, <1>5, <1>6 DEF Step

LEMMA EditKeeps == Edit \/ UNCHANGED vars => \A q \in Processes : Kept(q)
BY DEF Edit, vars, Kept, locals

LEMMA TemplateTypes ==
    ASSUME NEW s \in Sources, NEW t \in Titles
    PROVE  Template(s, t) \in Contents(s)
BY NoteAssumption DEF Template, Contents, Sources

LEMMA TypesInitially == Init => NoteTypes
<1> SUFFICES ASSUME Init PROVE NoteTypes
    OBVIOUS
<1>1. TypeOK
  <2>1. /\ DOMAIN file = Sources
        /\ \A s \in Sources : file[s] \in Contents(s) \cup {Absent, Blank}
      BY TemplateTypes DEF Init, Fresh, Sources
  <2> QED BY <2>1, NoteAssumption DEF Init, TypeOK, Steps
<1>2. \A p \in Processes : HoldsAt(p)
    BY DEF Init, HoldsAt, Rendering, Printing, Inspecting
<1> QED BY <1>1, <1>2 DEF NoteTypes

LEMMA FileTypes ==
    ASSUME NoteTypes, [Next]_vars
    PROVE  /\ DOMAIN file' = Sources
           /\ \A s \in Sources : file'[s] \in Contents(s) \cup {Absent, Blank}
           /\ theme' \in Themes
           /\ png' \in Picture \cup {Absent}
           /\ pdf' \in PdfFile \cup {Absent}
<1> USE NoteAssumption DEF NoteTypes, TypeOK, files, locals, unread, Goto
<1>1. CASE Edit
  <2>1. ASSUME NEW s \in Sources
        PROVE  file'[s] \in Contents(s) \cup {Absent, Blank}
    <3>1. CASE EditNote
        BY <3>1 DEF EditNote, Sources, Contents
    <3>2. CASE EditDiagram
        BY <3>2 DEF EditDiagram, Sources, Contents
    <3> QED BY <1>1, <3>1, <3>2 DEF Edit, EditTheme, RetouchPicture
  <2>2. theme' \in Themes /\ pdf' = pdf /\ DOMAIN file' = Sources
      BY <1>1 DEF Edit, EditNote, EditDiagram, EditTheme, RetouchPicture
  <2>3. png' \in Picture \cup {Absent}
    <3>1. CASE RetouchPicture
        BY <3>1 DEF RetouchPicture, Picture
    <3> QED BY <1>1, <3>1 DEF Edit, EditNote, EditDiagram, EditTheme
  <2> QED BY <2>1, <2>2, <2>3
<1>2. ASSUME NEW p \in Processes, Open(p) \/ Write(p)
      PROVE  /\ DOMAIN file' = Sources
           /\ \A s \in Sources : file'[s] \in Contents(s) \cup {Absent, Blank}
             /\ UNCHANGED <<theme, png, pdf>>
  <2>1. command[p].what \in Sources
      BY <1>2, CommandTypes DEF Open, Write, HoldsAt
  <2>2. CASE Open(p)
      BY <2>1, <2>2 DEF Open
  <2>3. CASE Write(p)
    <3>1. command[p].title \in Titles
        BY <2>3, CommandTypes DEF Write, HoldsAt
    <3>2. Left(p) \subseteq Contents(command[p].what)
        BY <2>1, <3>1, TemplateTypes DEF Left
    <3> QED BY <2>1, <2>3, <3>2 DEF Write
  <2> QED BY <1>2, <2>2, <2>3
<1>3. ASSUME NEW p \in Processes, Replace(p)
      PROVE  UNCHANGED <<file, theme, pdf>> /\ png' \in Picture
    BY <1>3 DEF Replace, HoldsAt, Rendering
<1>4. ASSUME NEW p \in Processes, PrintNote(p)
      PROVE  UNCHANGED <<file, theme, png>> /\ pdf' \in PdfFile \cup {Absent}
  <2>1. body[p] \in Texts
      BY <1>4 DEF PrintNote, HoldsAt
  <2>2. PrintOf(p) \in PdfFile
      BY <2>1 DEF PrintOf, PdfFile, WholePdf
  <2> QED BY <1>4, <2>2 DEF PrintNote, PdfFile
<1>5. ASSUME NEW p \in Processes,
             \/ Start(p) \/ Fail(p) \/ ReadHtml(p) \/ ReadAssets(p) \/ Draw(p)
             \/ Recheck(p) \/ Accept(p) \/ Sweep(p) \/ InspectNames(p)
             \/ InspectPixels(p) \/ ReadLabels(p) \/ Validate(p) \/ Reread(p)
             \/ Measure(p)
      PROVE  UNCHANGED files
    BY <1>5 DEF Start, Fail, ReadHtml, ReadAssets, Draw, Recheck, Accept, Sweep,
            InspectNames, InspectPixels, ReadLabels, Validate, Reread, Measure
<1>6. CASE UNCHANGED vars
    BY <1>6 DEF vars
<1>7. ASSUME NEW p \in Processes, Start(p) \/ Step(p) \/ Fail(p)
      PROVE  \/ UNCHANGED files
             \/ Open(p) \/ Write(p) \/ Replace(p) \/ PrintNote(p)
    BY <1>5, <1>7 DEF Step
<1>8. ASSUME UNCHANGED files
      PROVE  /\ UNCHANGED <<theme, png, pdf>> /\ DOMAIN file' = Sources
             /\ \A s \in Sources : file'[s] \in Contents(s) \cup {Absent, Blank}
    BY <1>8
<1>9. ASSUME NEW p \in Processes, Start(p) \/ Step(p) \/ Fail(p)
      PROVE  /\ DOMAIN file' = Sources
             /\ \A s \in Sources : file'[s] \in Contents(s) \cup {Absent, Blank}
             /\ theme' \in Themes
             /\ png' \in Picture \cup {Absent}
             /\ pdf' \in PdfFile \cup {Absent}
  <2>1. CASE UNCHANGED files
      BY <1>8, <2>1
  <2>2. CASE Open(p) \/ Write(p)
    <3>1. UNCHANGED <<theme, png, pdf>>
        BY <2>2 DEF Open, Write
    <3>2. /\ DOMAIN file' = Sources
          /\ \A s \in Sources : file'[s] \in Contents(s) \cup {Absent, Blank}
        BY <1>2, <2>2, Zenon
    <3> QED BY <3>1, <3>2
  <2>3. CASE Replace(p) \/ PrintNote(p)
      BY <1>3, <1>4, <2>3
  <2> QED BY <1>7, <1>9, <2>1, <2>2, <2>3
<1>10. CASE UNCHANGED vars
    BY <1>6, <1>8, <1>10
<1> QED BY <1>1, <1>9, <1>10 DEF Next

(* The step a process takes leaves it with values of the right types.      *)
LEMMA OwnTypes ==
    ASSUME NoteTypes, NEW p \in Processes, Start(p) \/ Step(p) \/ Fail(p)
    PROVE  /\ pc' = [pc EXCEPT ![p] = pc'[p]] /\ pc'[p] \in Steps
           /\ command' = [command EXCEPT ![p] = command'[p]]
           /\ command'[p] \in Commands \cup {Absent}
           /\ source' = [source EXCEPT ![p] = source'[p]]
           /\ source'[p] \in Diagrams \cup {Absent}
           /\ seen' = [seen EXCEPT ![p] = seen'[p]]
           /\ seen'[p] \in Document \cup {Absent}
           /\ picture' = [picture EXCEPT ![p] = picture'[p]]
           /\ picture'[p] \in Picture \cup {Absent}
           /\ text' = [text EXCEPT ![p] = text'[p]]
           /\ text'[p] \in Texts \cup {Absent}
           /\ body' = [body EXCEPT ![p] = body'[p]]
           /\ body'[p] \in Texts \cup {Absent}
           /\ disturbed' \in [Processes -> BOOLEAN]
           /\ overtaken' \subseteq Processes /\ careless' \subseteq Processes
           /\ edits' \in 0..MaxEdits /\ runs' \in 0..MaxRuns
           /\ HoldsAt(p)'
<1> USE NoteAssumption DEF NoteTypes, TypeOK, HoldsAt, Goto, DisturbOthers,
        Disturb, Overtake, Creators, Steps, files, locals, unread, Rendering, Printing, Inspecting
<1>1. CASE Start(p)
  <2>1. PICK c \in Commands :
           /\ runs < MaxRuns
           /\ runs' = runs + 1
           /\ command' = [command EXCEPT ![p] = c]
           /\ Forget(p)
           /\ disturbed' = [disturbed EXCEPT ![p] = FALSE]
           /\ careless' = careless \ {p}
           /\ Goto(p, FirstStep(c))
           /\ UNCHANGED <<files, overtaken, edits>>
      BY <1>1 DEF Start
  <2>2. /\ FirstStep(c) \in {"open", "validate", "source"}
        /\ FirstStep(c) = "open" <=> c.does = "create"
        /\ FirstStep(c) = "validate" <=> c.does = "print"
        /\ c.does \in {"create", "render", "check", "print"}
      BY CommandTypes
  <2>3. command'[p] = c /\ pc'[p] = FirstStep(c)
      BY <2>1
  <2>4. HoldsAt(p)'
      BY <2>2, <2>3
  <2>5. runs' \in 0..MaxRuns /\ edits' \in 0..MaxEdits
    <3>1. runs < MaxRuns /\ runs' = runs + 1 /\ edits' = edits
        BY <2>1
    <3>2. runs \in 0..MaxRuns /\ edits \in 0..MaxEdits /\ MaxRuns \in Nat
        OBVIOUS
    <3> HIDE DEF NoteTypes
    <3> QED BY <3>1, <3>2
  <2>6. disturbed' \in [Processes -> BOOLEAN]
      BY <2>1
  <2> QED BY <2>1, <2>2, <2>3, <2>4, <2>5, <2>6 DEF Forget
<1>2. CASE Open(p)
    BY <1>2 DEF Open
<1>3. CASE Write(p)
    BY <1>3 DEF Write
<1>4. CASE ReadHtml(p)
    BY <1>4 DEF ReadHtml, Loadable
<1>5. CASE ReadAssets(p)
  <2>1. Loaded(p) \in Document
      BY <1>5 DEF ReadAssets, Loaded, Loadable, Document
  <2> QED BY <1>5, <2>1 DEF ReadAssets
<1>6. CASE Draw(p)
    BY <1>6 DEF Draw, Picture
<1>7. CASE Recheck(p)
    BY <1>7 DEF Recheck
<1>8. CASE Accept(p)
    BY <1>8 DEF Accept
<1>9. CASE Replace(p)
    BY <1>9 DEF Replace
<1>10. CASE Sweep(p)
    BY <1>10 DEF Sweep
<1>11. CASE InspectNames(p)
    BY <1>11 DEF InspectNames
<1>12. CASE InspectPixels(p)
    BY <1>12 DEF InspectPixels, AfterInspection
<1>13. CASE ReadLabels(p)
    BY <1>13 DEF ReadLabels
<1>14. CASE Validate(p)
    BY <1>14 DEF Validate
<1>15. CASE Reread(p)
    BY <1>15 DEF Reread
<1>16. CASE PrintNote(p)
  <2>1. pc[p] = "print" /\ (Goto(p, "measure") \/ Goto(p, "failed"))
      BY <1>16 DEF PrintNote
  <2>2. /\ DisturbOthers(p) /\ careless' \subseteq Processes
        /\ UNCHANGED <<command, locals, overtaken, edits, runs>>
      BY <1>16 DEF PrintNote
  <2>3. pc'[p] \in {"measure", "failed"} /\ command'[p] = command[p]
        /\ body'[p] = body[p]
      BY <2>1, <2>2
  <2>4. HoldsAt(p)'
      BY <2>1, <2>3
  <2> QED BY <2>1, <2>2, <2>3, <2>4
<1>17. CASE Measure(p)
    BY <1>17 DEF Measure
<1>18. CASE Fail(p)
    BY <1>18 DEF Fail, Forget, Free
<1> QED BY <1>1, <1>2, <1>3, <1>4, <1>5, <1>6, <1>7, <1>8, <1>9, <1>10, <1>11,
           <1>12, <1>13, <1>14, <1>15, <1>16, <1>17, <1>18 DEF Step

LEMMA TypesStep == NoteTypes /\ [Next]_vars => NoteTypes'
<1> SUFFICES ASSUME NoteTypes, [Next]_vars PROVE NoteTypes'
    OBVIOUS
<1>1. /\ DOMAIN file' = Sources
      /\ \A s \in Sources : file'[s] \in Contents(s) \cup {Absent, Blank}
      /\ theme' \in Themes
      /\ png' \in Picture \cup {Absent}
      /\ pdf' \in PdfFile \cup {Absent}
    BY FileTypes
<1>2. ASSUME NEW p \in Processes, Start(p) \/ Step(p) \/ Fail(p) PROVE NoteTypes'
  <2>1. TypeOK'
      BY <1>1, <1>2, OwnTypes DEF NoteTypes, TypeOK
  <2>2. ASSUME NEW q \in Processes, q # p PROVE HoldsAt(q)'
    <3>1. Kept(q)
        BY <1>2, <2>2, OthersKeep DEF NoteTypes
    <3> QED BY <3>1 DEF Kept, HoldsAt, NoteTypes
  <2>3. HoldsAt(p)'
      BY <1>2, OwnTypes
  <2> QED BY <2>1, <2>2, <2>3 DEF NoteTypes
<1>3. CASE Edit \/ UNCHANGED vars
  <2>1. TypeOK'
    <3>1. UNCHANGED <<pc, command, locals, runs>>
        BY <1>3 DEF Edit, vars, locals
    <3>2. edits' \in 0..MaxEdits
        BY <1>3, NoteAssumption DEF Edit, vars, NoteTypes, TypeOK
    <3>3. disturbed' \in [Processes -> BOOLEAN]
      <4>1. CASE Edit
          BY <4>1 DEF Edit, Disturb, NoteTypes, TypeOK
      <4> QED BY <1>3, <4>1 DEF vars, NoteTypes, TypeOK
    <3>4. overtaken' \subseteq Processes /\ careless' \subseteq Processes
        BY <1>3 DEF Edit, Creators, vars, NoteTypes, TypeOK
    <3> QED BY <1>1, <3>1, <3>2, <3>3, <3>4 DEF locals, NoteTypes, TypeOK
  <2>2. \A q \in Processes : HoldsAt(q)'
      BY <1>3, EditKeeps DEF Kept, HoldsAt, NoteTypes
  <2> QED BY <2>1, <2>2 DEF NoteTypes
<1> QED BY <1>2, <1>3 DEF Next

THEOREM NoteTypesHold == Spec => []NoteTypes
<1>1. Init => NoteTypes
    BY TypesInitially
<1>2. NoteTypes /\ [Next]_vars => NoteTypes'
    BY TypesStep
<1> QED BY <1>1, <1>2, PTL DEF Spec

----------------------------------------------------------------------------
(* The steps after which a picture is another one than before.             *)
LEMMA PictureChanges ==
    ASSUME NoteTypes, NEW p \in Processes, Start(p) \/ Step(p) \/ Fail(p)
    PROVE  /\ \/ png' = png
              \/ Replace(p) /\ png' = picture[p]
           /\ \/ picture'[p] \in {picture[p], Absent}
              \/ ReadAssets(p) \/ Draw(p) \/ InspectNames(p) \/ InspectPixels(p)
<1> USE DEF NoteTypes, TypeOK, Goto, files, locals, unread
<1>1. CASE Start(p)
  <2>1. PICK c \in Commands : Forget(p) /\ Goto(p, FirstStep(c)) /\ png' = png
      BY <1>1 DEF Start
  <2>2. FirstStep(c) \in {"open", "validate", "source"}
      BY CommandTypes
  <2> QED BY <2>1, <2>2 DEF Forget
<1>2. CASE Fail(p)
    BY <1>2 DEF Fail, Forget
<1>3. CASE Replace(p)
    BY <1>3 DEF Replace
<1>4. CASE ReadAssets(p) \/ Draw(p) \/ InspectNames(p) \/ InspectPixels(p)
    BY <1>4 DEF ReadAssets, Draw, InspectNames, InspectPixels
<1>5. CASE \/ Open(p) \/ Write(p) \/ ReadHtml(p) \/ Recheck(p) \/ Accept(p)
           \/ Sweep(p)
    BY <1>5 DEF Open, Write, ReadHtml, Recheck, Accept, Sweep
<1>6. CASE \/ ReadLabels(p) \/ Validate(p) \/ Reread(p) \/ PrintNote(p)
           \/ Measure(p)
    BY <1>6 DEF ReadLabels, Validate, Reread, PrintNote, Measure
<1> QED BY <1>1, <1>2, <1>3, <1>4, <1>5, <1>6 DEF Step

(* A picture in a file or in memory shows what it names, and that diagram  *)
(* is one the runtime accepted.                                            *)
Good(x) == x # Absent => x.shows = x.names /\ x.shows.html \in Legible

PicturesGood == Good(png) /\ \A p \in Processes : Good(picture[p])

LEMMA DrawableIsLegible == Drawable \subseteq Legible
BY NoteAssumption, ReadyBoxesApart DEF Drawable, Legible

LEMMA PicturesStep == NoteTypes /\ PicturesGood /\ [Next]_vars => PicturesGood'
<1> SUFFICES ASSUME NoteTypes, PicturesGood, [Next]_vars PROVE PicturesGood'
    OBVIOUS
<1>1. ASSUME NEW p \in Processes, Start(p) \/ Step(p) \/ Fail(p)
      PROVE  PicturesGood'
  <2>1. Good(png')
      BY <1>1, PictureChanges DEF PicturesGood
  <2>2. ASSUME NEW q \in Processes, q # p PROVE Good(picture'[q])
      BY <1>1, <2>2, OthersKeep DEF Kept, PicturesGood, NoteTypes
  <2>3. CASE Draw(p)
    <3>1. /\ picture'[p] = [shows |-> seen[p], names |-> seen[p], intact |-> TRUE]
          /\ seen[p].html \in Drawable
        BY <2>3 DEF Draw, NoteTypes, TypeOK
    <3>2. Good(picture'[p])
        BY <3>1, DrawableIsLegible DEF Good
    <3> QED BY <2>1, <2>2, <3>2 DEF PicturesGood, Good
  <2>4. CASE InspectNames(p) \/ InspectPixels(p)
    <3>1. picture'[p] = png
        BY <2>4 DEF InspectNames, InspectPixels, NoteTypes, TypeOK
    <3> QED BY <2>1, <2>2, <3>1 DEF PicturesGood, Good
  <2>5. CASE ReadAssets(p)
    <3>1. picture' = picture
        BY <2>5 DEF ReadAssets
    <3> QED BY <2>1, <3>1 DEF PicturesGood, Good
  <2>6. CASE picture'[p] = picture[p] \/ picture'[p] = Absent
    <3>1. Good(picture'[p])
        BY <2>6 DEF PicturesGood, Good
    <3> QED BY <2>1, <2>2, <3>1 DEF PicturesGood, Good
  <2> QED BY <1>1, <2>3, <2>4, <2>5, <2>6, PictureChanges
<1>2. CASE Edit
  <2>1. picture' = picture
      BY <1>2 DEF Edit, locals
  <2>2. Good(png')
    <3>1. CASE RetouchPicture
      <4>1. png \in Picture /\ png' = [png EXCEPT !.intact = FALSE] /\ png # Absent
          BY <3>1 DEF RetouchPicture, NoteTypes, TypeOK
      <4>2. png'.shows = png.shows /\ png'.names = png.names
          BY <4>1 DEF Picture
      <4> QED BY <4>1, <4>2 DEF Good, PicturesGood
    <3> QED BY <1>2, <3>1 DEF Edit, EditNote, EditDiagram, EditTheme, PicturesGood
  <2> QED BY <2>1, <2>2 DEF PicturesGood, Good
<1>3. CASE UNCHANGED vars
    BY <1>3 DEF vars, PicturesGood, Good
<1> QED BY <1>1, <1>2, <1>3 DEF Next

THEOREM PicturesInvariant == Spec => [](NoteTypes /\ PicturesGood)
<1>1. Init => NoteTypes /\ PicturesGood
    BY TypesInitially DEF Init, PicturesGood, Good
<1>2. NoteTypes /\ PicturesGood /\ [Next]_vars => (NoteTypes /\ PicturesGood)'
    BY TypesStep, PicturesStep
<1> QED BY <1>1, <1>2, PTL DEF Spec

(* A published picture shows the document its metadata names, whoever      *)
(* edits the sources while it is drawn (render_diagram.py:174-244).        *)
THEOREM PictureIsFaithful == Spec => []PictureFaithful
<1>1. PicturesGood => PictureFaithful
    BY DEF PicturesGood, Good, PictureFaithful
<1> QED BY <1>1, PicturesInvariant, PTL

(* A published picture keeps its boxes apart as far as the layout promises,*)
(* for diagrams of any size (diagram.js:241-308 behind                     *)
(* render_diagram.py:189-196).                                             *)
THEOREM PublishedBoxesStayApart == Spec => []PublishedBoxesApart
<1>1. PicturesGood => PublishedBoxesApart
    BY DEF PicturesGood, Good, PublishedBoxesApart
<1> QED BY <1>1, PicturesInvariant, PTL

----------------------------------------------------------------------------
(* What a check knows after it has opened the picture once, and twice.     *)
CheckKnows(p) ==
    /\ pc[p] = "inspect pixels" =>
          picture[p] # Absent /\ picture[p].names = seen[p]
    /\ pc[p] = "ok" /\ command[p].does = "check" =>
          picture[p].intact /\ picture[p].shows = seen[p]

Checks == \A p \in Processes : CheckKnows(p)

LEMMA ChecksStep ==
    NoteTypes /\ PicturesGood /\ Checks /\ [Next]_vars => Checks'
<1> SUFFICES ASSUME NoteTypes, PicturesGood, Checks, [Next]_vars PROVE Checks'
    OBVIOUS
<1> USE DEF Goto, files, locals, unread
<1>1. ASSUME NEW p \in Processes, Start(p) \/ Step(p) \/ Fail(p) PROVE Checks'
  <2>1. ASSUME NEW q \in Processes, q # p PROVE CheckKnows(q)'
    <3>1. Kept(q) /\ CheckKnows(q)
        BY <1>1, <2>1, OthersKeep DEF Checks, NoteTypes
    <3> QED BY <3>1, Zenon DEF Kept, CheckKnows
  <2> USE DEF NoteTypes, TypeOK, HoldsAt, CheckKnows
  <2>2. CheckKnows(p)'
    <3>1. CASE InspectNames(p)
        BY <3>1 DEF InspectNames
    <3>2. CASE InspectPixels(p)
      <4>1. /\ picture[p] # Absent /\ picture[p].names = seen[p]
            /\ picture[p].shows = picture[p].names
          BY <3>2 DEF InspectPixels, Checks, PicturesGood, Good
      <4>2. /\ png.intact /\ png.shows = picture[p].shows
            /\ picture'[p] = png /\ seen'[p] = seen[p]
            /\ pc'[p] \in {"ok", "labels"}
          BY <3>2 DEF InspectPixels, AfterInspection
      <4> QED BY <4>1, <4>2
    <3>3. CASE Start(p) \/ Fail(p)
      <4>1. \A c \in Commands : FirstStep(c) \in {"open", "validate", "source"}
          BY CommandTypes
      <4>2. pc'[p] \in {"open", "validate", "source", "idle"}
          BY <3>3, <4>1 DEF Start, Fail
      <4> QED BY <4>2
    <3>4. CASE Write(p) \/ Sweep(p) \/ Measure(p)
        BY <3>4 DEF Write, Sweep, Measure, Rendering, Printing
    <3>5. CASE \/ Open(p) \/ ReadHtml(p) \/ ReadAssets(p) \/ Draw(p)
               \/ Recheck(p) \/ Accept(p) \/ Replace(p)
        BY <3>5 DEF Open, ReadHtml, ReadAssets, Draw, Recheck, Accept, Replace
    <3>6. CASE \/ ReadLabels(p) \/ Validate(p) \/ Reread(p) \/ PrintNote(p)
        BY <3>6 DEF ReadLabels, Validate, Reread, PrintNote
    <3> QED BY <1>1, <3>1, <3>2, <3>3, <3>4, <3>5, <3>6 DEF Step
  <2> QED BY <2>1, <2>2 DEF Checks
<1>2. CASE Edit \/ UNCHANGED vars
  <2>1. ASSUME NEW q \in Processes PROVE CheckKnows(q)'
    <3>1. Kept(q) /\ CheckKnows(q)
        BY <1>2, EditKeeps DEF Checks
    <3> QED BY <3>1, Zenon DEF Kept, CheckKnows
  <2> QED BY <2>1 DEF Checks
<1> QED BY <1>1, <1>2 DEF Next

(* A check that ends well has seen pixels that show the document it had    *)
(* loaded, whoever replaced the picture between its two reads              *)
(* (diagram_support.py:613-649).                                           *)
THEOREM ChecksAreTruthful == Spec => []CheckIsTruthful
<1>1. Init => Checks
    BY DEF Init, Checks, CheckKnows
<1>2. NoteTypes /\ PicturesGood /\ Checks /\ [Next]_vars => Checks'
    BY ChecksStep
<1>3. Checks => CheckIsTruthful
    BY DEF Checks, CheckKnows, CheckIsTruthful
<1> QED BY <1>1, <1>2, <1>3, PicturesInvariant, PTL DEF Spec

----------------------------------------------------------------------------
(* A file that a plain create has open is empty until its creator, the     *)
(* author or a create --force fills it, and no two plain creates have the  *)
(* same file open: the second one finds that it exists.                    *)
Untouched ==
    \A p \in Processes :
        pc[p] = "write" =>
            /\ file[command[p].what] # Absent
            /\ ~command[p].force /\ p \notin overtaken =>
                  file[command[p].what] = Blank

OneCreator ==
    \A p, q \in Processes :
        /\ p # q
        /\ pc[p] = "write" /\ pc[q] = "write"
        /\ command[p].what = command[q].what
        => command[p].force \/ command[q].force

Creation == Untouched /\ OneCreator

(* The steps that change the note or the HTML of its diagram.              *)
LEMMA SourceChanges ==
    ASSUME NoteTypes, NEW p \in Processes, Start(p) \/ Step(p) \/ Fail(p)
    PROVE  /\ overtaken \ {p} \subseteq overtaken'
           /\ \/ /\ ~(Open(p) \/ Write(p))
                 /\ file' = file /\ pc'[p] # "write"
              \/ /\ Open(p) \/ Write(p)
                 /\ command[p] \in Commands /\ command[p].does = "create"
                 /\ command[p].what \in Sources
                 /\ command' = command
                 /\ \A s \in Sources : s # command[p].what => file'[s] = file[s]
<1> USE DEF NoteTypes, TypeOK, Goto, files, locals, unread
<1>1. CASE Open(p) \/ Write(p)
  <2>1. command[p] \in Commands /\ command[p].does = "create"
      BY <1>1 DEF Open, Write, HoldsAt
  <2>2. command[p].what \in Sources
      BY <2>1, CommandTypes
  <2> QED BY <1>1, <2>1, <2>2 DEF Open, Write, Overtake
<1>2. CASE ~(Open(p) \/ Write(p))
  <2> SUFFICES /\ overtaken \ {p} \subseteq overtaken'
               /\ file' = file /\ pc'[p] # "write"
      BY <1>2
  <2>1. CASE Start(p)
    <3>1. PICK c \in Commands : /\ Goto(p, FirstStep(c)) /\ file' = file
                                /\ overtaken' = overtaken
        BY <2>1 DEF Start
    <3>2. FirstStep(c) \in {"open", "validate", "source"}
        BY CommandTypes
    <3> QED BY <3>1, <3>2
  <2>2. CASE Fail(p) \/ ReadHtml(p) \/ ReadAssets(p) \/ Draw(p)
      BY <2>2 DEF Fail, ReadHtml, ReadAssets, Draw
  <2>3. CASE \/ Recheck(p) \/ Accept(p) \/ Replace(p) \/ Sweep(p)
             \/ InspectNames(p)
      BY <2>3 DEF Recheck, Accept, Replace, Sweep, InspectNames
  <2>4. CASE InspectPixels(p) \/ ReadLabels(p) \/ Validate(p)
      BY <2>4 DEF InspectPixels, AfterInspection, ReadLabels, Validate
  <2>5. CASE Reread(p) \/ PrintNote(p) \/ Measure(p)
      BY <2>5 DEF Reread, PrintNote, Measure
  <2> QED BY <1>2, <2>1, <2>2, <2>3, <2>4, <2>5 DEF Step
<1> QED BY <1>1, <1>2

LEMMA CreationStep == NoteTypes /\ Creation /\ [Next]_vars => Creation'
<1> SUFFICES ASSUME NoteTypes, Creation, [Next]_vars PROVE Creation'
    OBVIOUS
<1>0. \A q \in Processes : pc[q] = "write" => command[q].what \in Sources
    BY CommandTypes DEF NoteTypes, HoldsAt
<1>1. ASSUME NEW p \in Processes, Start(p) \/ Step(p) \/ Fail(p) PROVE Creation'
  <2>1. /\ \A q \in Processes : q # p => Kept(q)
        /\ \A q \in Processes \ {p} : q \notin overtaken' => q \notin overtaken
      BY <1>1, OthersKeep, SourceChanges DEF NoteTypes
  <2>2. CASE file' = file /\ pc'[p] # "write"
    <3>1. \A q \in Processes : pc'[q] = "write" => q # p /\ Kept(q)
        BY <2>1, <2>2
    <3> QED BY <2>1, <2>2, <3>1 DEF Kept, Creation, Untouched, OneCreator
  <2>3. ASSUME Open(p) \/ Write(p), NEW q \in Processes, q # p, pc'[q] = "write"
        PROVE  /\ pc[q] = "write" /\ command' = command
               /\ command[q].what # command[p].what =>
                     file'[command[q].what] = file[command[q].what]
    <3>1. pc[q] = "write" /\ command' = command
        BY <2>1, <2>3 DEF Kept, Open, Write
    <3> QED BY <1>0, <1>1, <2>3, <3>1, SourceChanges
  <2>4. CASE Open(p)
    <3>1. file'[command[p].what] = Blank /\ command' = command
        BY <1>1, <2>4, SourceChanges DEF Open, NoteTypes, TypeOK
    <3>2. \A q \in Processes : q # p /\ pc'[q] = "write"
                               /\ command[q].what = command[p].what =>
             command[p].force
        BY <2>3, <2>4 DEF Open, Creation, Untouched
    <3>3. Untouched'
      <4>1. ASSUME NEW q \in Processes, pc'[q] = "write"
            PROVE  /\ file'[command[q].what] # Absent
                   /\ ~command[q].force /\ q \notin overtaken' =>
                         file'[command[q].what] = Blank
        <5>1. CASE command[q].what = command[p].what
            BY <3>1, <5>1, NoteAssumption
        <5>2. CASE command[q].what # command[p].what
            BY <2>1, <2>3, <2>4, <4>1, <5>2 DEF Creation, Untouched
        <5> QED BY <5>1, <5>2
      <4> QED BY <3>1, <4>1 DEF Untouched
    <3>4. OneCreator'
        BY <2>3, <2>4, <3>1, <3>2 DEF Creation, OneCreator
    <3> QED BY <3>3, <3>4 DEF Creation
  <2>5. CASE Write(p)
    <3>1. /\ pc'[p] = "ok" /\ command' = command /\ pc[p] = "write"
          /\ command[p].what \in Sources
        BY <1>0, <2>5 DEF Write, Goto, NoteTypes, TypeOK
    <3>2. file'[command[p].what] \in Contents(command[p].what)
      <4>1. command[p].title \in Titles
          BY <3>1, CommandTypes DEF NoteTypes, HoldsAt
      <4>2. Left(p) \subseteq Contents(command[p].what)
          BY <3>1, <4>1, TemplateTypes DEF Left
      <4> QED BY <2>5, <3>1, <4>2 DEF Write, NoteTypes, TypeOK
    <3>3. Untouched'
      <4>1. ASSUME NEW q \in Processes, pc'[q] = "write"
            PROVE  /\ file'[command[q].what] # Absent
                   /\ ~command[q].force /\ q \notin overtaken' =>
                         file'[command[q].what] = Blank
        <5>1. q # p /\ pc[q] = "write"
            BY <2>3, <2>5, <3>1, <4>1
        <5>2. CASE command[q].what = command[p].what
          <6>1. file'[command[q].what] # Absent
              BY <3>1, <3>2, <5>2, NoteAssumption DEF Contents
          <6>2. ASSUME ~command[q].force PROVE q \in overtaken'
            <7>1. command[p].force
                BY <3>1, <5>1, <5>2, <6>2 DEF Creation, OneCreator
            <7> QED BY <2>5, <5>1, <5>2, <7>1 DEF Write, Overtake, Creators
          <6> QED BY <6>1, <6>2
        <5>3. CASE command[q].what # command[p].what
            BY <2>1, <2>3, <2>5, <4>1, <5>1, <5>3 DEF Creation, Untouched
        <5> QED BY <5>2, <5>3
      <4> QED BY <3>1, <4>1 DEF Untouched
    <3>4. OneCreator'
      <4>1. \A q \in Processes : pc'[q] = "write" => pc[q] = "write"
          BY <2>3, <2>5, <3>1
      <4> QED BY <3>1, <4>1 DEF Creation, OneCreator
    <3> QED BY <3>3, <3>4 DEF Creation
  <2> QED BY <1>1, <2>2, <2>4, <2>5, SourceChanges
<1>2. CASE Edit
  <2>1. pc' = pc /\ command' = command /\ overtaken \subseteq overtaken'
      BY <1>2 DEF Edit
  <2>2. \A s \in Sources : file'[s] = file[s] \/ file'[s] # Absent
      BY <1>2, FileTypes, NoteAssumption
      DEF Edit, EditNote, EditDiagram, EditTheme, RetouchPicture, NoteTypes,
          TypeOK, Sources, Contents
  <2>3. \A q \in Processes :
           pc[q] = "write" /\ file'[command[q].what] # file[command[q].what] =>
               q \in overtaken'
      BY <1>0, <1>2 DEF Edit, Creators
  <2>4. Untouched'
      BY <1>0, <2>1, <2>2, <2>3 DEF Creation, Untouched
  <2> QED BY <2>1, <2>4 DEF Creation, OneCreator
<1>3. CASE UNCHANGED vars
    BY <1>3 DEF vars, Creation, Untouched, OneCreator
<1> QED BY <1>1, <1>2, <1>3 DEF Next

(* A create without --force never takes away what was there when it opened *)
(* the file, nor what another such create has made, however many commands  *)
(* create the same file with contents of their own and whenever the author *)
(* writes to it; what it can replace is what came after it had opened an   *)
(* empty file (create_diagram.py:131-153, create_note.py:119-141).         *)
THEOREM NoSourceIsLost == Spec => NoSourceLost
<1>1. Init => NoteTypes /\ Creation
    BY TypesInitially DEF Init, Creation, Untouched, OneCreator
<1>2. NoteTypes /\ Creation /\ [Next]_vars => (NoteTypes /\ Creation)'
    BY TypesStep, CreationStep
<1>3. NoteTypes /\ Creation /\ [Next]_vars =>
        [\A s \in Sources :
            file[s] \notin {Absent, Blank} /\ file'[s] # file[s] =>
                \/ edits' > edits
                \/ \E p \in Processes : /\ pc[p] \in {"open", "write"}
                                        /\ pc'[p] # pc[p]
                                        /\ command[p].what = s
                                        /\ command[p].force \/ p \in overtaken]_vars
  <2> SUFFICES ASSUME NoteTypes, Creation, [Next]_vars,
                      NEW s \in Sources,
                      file[s] \notin {Absent, Blank}, file'[s] # file[s]
               PROVE  \/ edits' > edits
                      \/ \E p \in Processes : /\ pc[p] \in {"open", "write"}
                                              /\ pc'[p] # pc[p]
                                              /\ command[p].what = s
                                              /\ command[p].force \/ p \in overtaken
      OBVIOUS
  <2>1. ASSUME NEW p \in Processes, Start(p) \/ Step(p) \/ Fail(p)
        PROVE  /\ pc[p] \in {"open", "write"}
               /\ pc'[p] # pc[p]
               /\ command[p].what = s
               /\ command[p].force \/ p \in overtaken
    <3>1. /\ Open(p) \/ Write(p)
          /\ command[p].what = s
        BY <2>1, SourceChanges
    <3>2. CASE Open(p)
        BY <3>1, <3>2 DEF Open, Goto, NoteTypes, TypeOK
    <3>3. CASE Write(p)
        BY <3>1, <3>3 DEF Write, Goto, Creation, Untouched, NoteTypes, TypeOK
    <3> QED BY <3>1, <3>2, <3>3
  <2>2. CASE Edit
      BY <2>2 DEF Edit, NoteTypes, TypeOK
  <2>3. CASE UNCHANGED vars
      BY <2>3 DEF vars
  <2> QED BY <2>1, <2>2, <2>3 DEF Next
<1> QED BY <1>1, <1>2, <1>3, PTL DEF Spec, NoSourceLost

----------------------------------------------------------------------------
(* What a print that nobody has disturbed knows of the files at each step. *)
Current == [html |-> file["html"], theme |-> theme]
Shown == png # Absent /\ png.intact /\ png.shows = Current

Undisturbed(p) == pc[p] # "idle" /\ command[p].does = "print" /\ ~disturbed[p]

PrintKnows(p) ==
    /\ pc[p] \in {"source", "assets", "inspect", "inspect pixels", "labels",
                  "reread", "print", "measure", "ok"} =>
          text[p] = file["note"] /\ file["note"].sound
    /\ pc[p] = "assets" => source[p] = file["html"]
    /\ pc[p] \in {"inspect", "inspect pixels"} => seen[p] = Current
    /\ pc[p] = "labels" => Shown
    /\ pc[p] \in {"reread", "print", "measure", "ok"} =>
          (file["note"].embeds => Shown)
    /\ pc[p] \in {"print", "measure", "ok"} => body[p] = file["note"]
    /\ pc[p] \in {"measure", "ok"} /\ p \notin careless => pdf = PrintOf(p)
    /\ pc[p] = "ok" => pdf # Absent /\ pdf.large

Prints == \A p \in Processes : Undisturbed(p) => PrintKnows(p)

(* A process that prints notices every change of a file by another.        *)
LEMMA Unnoticed ==
    ASSUME NoteTypes, NEW p \in Processes, Start(p) \/ Step(p) \/ Fail(p),
           NEW q \in Processes, q # p, q \in Printers, ~disturbed'[q]
    PROVE  /\ UNCHANGED files /\ ~disturbed[q]
           /\ q \in careless' <=> q \in careless
<1> USE DEF NoteTypes, TypeOK, DisturbOthers, Disturb, unread
<1>1. CASE Start(p) \/ Fail(p)
    BY <1>1 DEF Start, Fail
<1>2. CASE Open(p) \/ Write(p) \/ Replace(p) \/ PrintNote(p)
  <2>1. disturbed' = [r \in Processes |-> disturbed[r] \/ r \in Printers \ {p}]
      BY <1>2 DEF Open, Write, Replace, PrintNote
  <2> QED BY <2>1
<1>3. CASE \/ ReadHtml(p) \/ ReadAssets(p) \/ Draw(p) \/ Recheck(p)
           \/ Accept(p) \/ Sweep(p) \/ InspectNames(p)
    BY <1>3 DEF ReadHtml, ReadAssets, Draw, Recheck, Accept, Sweep, InspectNames
<1>4. CASE \/ InspectPixels(p) \/ ReadLabels(p) \/ Validate(p) \/ Reread(p)
           \/ Measure(p)
    BY <1>4 DEF InspectPixels, ReadLabels, Validate, Reread, Measure
<1> QED BY <1>1, <1>2, <1>3, <1>4 DEF Step

LEMMA OthersPrints ==
    ASSUME NoteTypes, Prints, NEW q \in Processes, Kept(q), UNCHANGED files,
           ~disturbed[q], q \in careless' <=> q \in careless, Undisturbed(q)'
    PROVE  PrintKnows(q)'
<1>1. Undisturbed(q)
    BY DEF Undisturbed, Kept
<1>2. PrintKnows(q)
    BY <1>1 DEF Prints
<1>3. UNCHANGED <<file, theme, png, pdf>>
    BY DEF files
<1> QED BY <1>2, <1>3, Zenon DEF PrintKnows, Kept, Shown, Current, PrintOf

(* The steps of the print itself.                                          *)
LEMMA OwnPrints ==
    ASSUME NoteTypes, PicturesGood, Checks, Prints, NEW p \in Processes,
           Start(p) \/ Step(p) \/ Fail(p), Undisturbed(p)'
    PROVE  PrintKnows(p)'
<1> USE DEF NoteTypes, TypeOK, HoldsAt, Goto, files, locals, unread
<1>1. CASE Start(p)
  <2>1. PICK c \in Commands :
           Goto(p, FirstStep(c)) /\ command' = [command EXCEPT ![p] = c]
      BY <1>1 DEF Start
  <2>2. pc'[p] = FirstStep(c) /\ c.does = "print"
      BY <2>1 DEF Undisturbed
  <2>3. pc'[p] = "validate"
      BY <2>2 DEF FirstStep
  <2> QED BY <2>3 DEF PrintKnows
<1>2. CASE Fail(p)
    BY <1>2 DEF Fail, PrintKnows
<1>3. CASE Step(p)
  <2>1. pc[p] # "idle" /\ command' = command
      BY <1>3 DEF Step, Open, Write, ReadHtml, ReadAssets, Draw, Recheck, Accept,
              Replace, Sweep, InspectNames, InspectPixels, ReadLabels, Validate,
              Reread, PrintNote, Measure
  <2>2. Undisturbed(p)
    <3>1. disturbed'[p] = disturbed[p]
        BY <1>3 DEF Step, Open, Write, ReadHtml, ReadAssets, Draw, Recheck,
                Accept, Replace, Sweep, InspectNames, InspectPixels, ReadLabels,
                Validate, Reread, PrintNote, Measure, DisturbOthers,
                Disturb
    <3> QED BY <2>1, <3>1 DEF Undisturbed
  <2>3. PrintKnows(p) /\ command[p].does = "print"
      BY <2>2 DEF Prints, Undisturbed
  <2>4. CASE Validate(p)
    <3>1. /\ text'[p] = file["note"] /\ file["note"].sound
          /\ UNCHANGED <<file, theme, png, pdf>>
          /\ pc'[p] = IF file["note"].embeds THEN "source" ELSE "reread"
        BY <2>4 DEF Validate
    <3> QED BY <3>1 DEF PrintKnows
  <2>5. CASE ReadHtml(p)
    <3>1. pc[p] = "source"
        BY <2>3, <2>5 DEF ReadHtml, Rendering
    <3>2. /\ source'[p] = file["html"] /\ pc'[p] = "assets"
          /\ UNCHANGED <<file, theme, png, pdf>> /\ text'[p] = text[p]
        BY <2>5, <3>1 DEF ReadHtml
    <3> QED BY <2>3, <3>1, <3>2 DEF PrintKnows
  <2>6. CASE ReadAssets(p)
    <3>1. /\ pc'[p] = "inspect" /\ seen'[p] = Current /\ pc[p] = "assets"
          /\ UNCHANGED <<file, theme, png, pdf>> /\ text'[p] = text[p]
        BY <2>3, <2>6 DEF ReadAssets, Loaded, PrintKnows, Current
    <3> QED BY <2>3, <3>1 DEF PrintKnows, Current
  <2>7. CASE InspectNames(p)
    <3>1. /\ pc'[p] = "inspect pixels" /\ seen'[p] = seen[p] /\ pc[p] = "inspect"
          /\ UNCHANGED <<file, theme, png, pdf>> /\ text'[p] = text[p]
        BY <2>7 DEF InspectNames
    <3> QED BY <2>3, <3>1 DEF PrintKnows, Current
  <2>8. CASE InspectPixels(p)
    <3>1. /\ pc'[p] = "labels" /\ pc[p] = "inspect pixels"
          /\ UNCHANGED <<file, theme, png, pdf>> /\ text'[p] = text[p]
        BY <2>3, <2>8 DEF InspectPixels, AfterInspection
    <3>2. /\ png # Absent /\ png.intact /\ png.shows = picture[p].shows
          /\ picture[p] # Absent /\ picture[p].names = seen[p]
          /\ picture[p].shows = picture[p].names
        BY <2>8 DEF InspectPixels, Checks, CheckKnows, PicturesGood, Good
    <3>3. Shown
        BY <2>3, <3>1, <3>2 DEF PrintKnows, Shown
    <3>4. Shown'
        BY <3>1, <3>3 DEF Shown, Current
    <3> QED BY <2>3, <3>1, <3>4 DEF PrintKnows
  <2>9. CASE ReadLabels(p)
    <3>1. /\ pc'[p] = "reread" /\ pc[p] = "labels"
          /\ UNCHANGED <<file, theme, png, pdf>> /\ text'[p] = text[p]
        BY <2>9 DEF ReadLabels
    <3>2. Shown'
        BY <2>3, <3>1 DEF PrintKnows, Shown, Current
    <3> QED BY <2>3, <3>1, <3>2 DEF PrintKnows
  <2>10. CASE Reread(p)
    <3>1. /\ pc'[p] = "print" /\ pc[p] = "reread" /\ body'[p] = file["note"]
          /\ UNCHANGED <<file, theme, png, pdf>> /\ text'[p] = text[p]
        BY <2>10 DEF Reread
    <3>2. file'["note"].embeds => Shown'
        BY <2>3, <3>1 DEF PrintKnows, Shown, Current
    <3> QED BY <2>3, <3>1, <3>2 DEF PrintKnows
  <2>11. CASE PrintNote(p)
    <3>1. /\ pc[p] = "print" /\ UNCHANGED <<file, theme, png>>
          /\ text'[p] = text[p] /\ body'[p] = body[p]
          /\ pc'[p] \in {"measure", "failed"}
        BY <2>11 DEF PrintNote
    <3>2. file'["note"].embeds => Shown'
        BY <2>3, <3>1 DEF PrintKnows, Shown, Current
    <3>3. PrintOf(p)' = PrintOf(p)
        BY <3>1 DEF PrintOf
    <3>4. pc'[p] = "measure" /\ p \notin careless' => pdf' = PrintOf(p)
        BY <2>11 DEF PrintNote
    <3> QED BY <2>3, <3>1, <3>2, <3>3, <3>4 DEF PrintKnows
  <2>12. CASE Measure(p)
    <3>1. /\ pc[p] = "measure" /\ pc'[p] = "ok" /\ careless' = careless
          /\ UNCHANGED <<file, theme, png, pdf>> /\ pdf # Absent /\ pdf.large
          /\ text'[p] = text[p] /\ body'[p] = body[p]
        BY <2>12 DEF Measure
    <3>2. file'["note"].embeds => Shown'
        BY <2>3, <3>1 DEF PrintKnows, Shown, Current
    <3>3. PrintOf(p)' = PrintOf(p)
        BY <3>1 DEF PrintOf
    <3> QED BY <2>3, <3>1, <3>2, <3>3 DEF PrintKnows
  <2>13. CASE \/ Open(p) \/ Write(p) \/ Draw(p) \/ Recheck(p) \/ Accept(p)
              \/ Replace(p) \/ Sweep(p)
      BY <2>3, <2>13 DEF Open, Write, Draw, Recheck, Accept, Replace, Sweep,
              Rendering
  <2> QED BY <1>3, <2>4, <2>5, <2>6, <2>7, <2>8, <2>9, <2>10, <2>11, <2>12,
             <2>13 DEF Step
<1> QED BY <1>1, <1>2, <1>3

LEMMA PrintsStep ==
    NoteTypes /\ PicturesGood /\ Checks /\ Prints /\ [Next]_vars => Prints'
<1> SUFFICES ASSUME NoteTypes, PicturesGood, Checks, Prints, [Next]_vars,
                    NEW q \in Processes, Undisturbed(q)'
             PROVE  PrintKnows(q)'
    BY DEF Prints
<1>1. ASSUME NEW p \in Processes, Start(p) \/ Step(p) \/ Fail(p)
      PROVE  PrintKnows(q)'
  <2>1. CASE q = p
      BY <1>1, <2>1, OwnPrints
  <2>2. CASE q # p
    <3>1. Kept(q)
        BY <1>1, <2>2, OthersKeep DEF NoteTypes
    <3>2. q \in Printers /\ ~disturbed'[q]
        BY <3>1 DEF Kept, Undisturbed, Printers
    <3>3. UNCHANGED files /\ ~disturbed[q] /\ (q \in careless' <=> q \in careless)
        BY <1>1, <2>2, <3>2, Unnoticed
    <3> QED BY <3>1, <3>3, OthersPrints
  <2> QED BY <2>1, <2>2
<1>2. CASE Edit
    BY <1>2 DEF Edit, Disturb, Printers, Undisturbed, NoteTypes, TypeOK
<1>3. CASE UNCHANGED vars
  <2>1. Kept(q) /\ UNCHANGED <<files, disturbed, careless>>
      BY <1>3, EditKeeps DEF vars, files
  <2> QED BY <2>1, OthersPrints DEF Undisturbed
<1> QED BY <1>1, <1>2, <1>3 DEF Next

(* A print that nobody disturbed and that reports success is of current,   *)
(* sound files and leaves a PDF of 1000 bytes or more; that PDF is a whole *)
(* print of them unless the browser exited with 0 without having written   *)
(* it, for any number of commands before and beside it                     *)
(* (render_note.py:114-188).                                               *)
THEOREM UndisturbedPrints == Spec => []UndisturbedPdf
<1>1. Init => Checks /\ Prints
    BY DEF Init, Checks, CheckKnows, Prints, Undisturbed
<1>2. NoteTypes /\ PicturesGood /\ Checks /\ [Next]_vars => Checks'
    BY ChecksStep
<1>3. NoteTypes /\ PicturesGood /\ Checks /\ Prints /\ [Next]_vars => Prints'
    BY PrintsStep
<1>4. Prints => UndisturbedPdf
    BY DEF Prints, Undisturbed, PrintKnows, UndisturbedPdf, Shown, Current
<1> QED BY <1>1, <1>2, <1>3, <1>4, PicturesInvariant, PTL DEF Spec
=============================================================================
