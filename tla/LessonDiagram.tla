--------------------------- MODULE LessonDiagram ---------------------------
(***************************************************************************)
(* One lesson diagram: what load_diagram accepts (diagram_support.py) and  *)
(* where the bundled runtime puts its boxes (assets/diagram.js).  Both are *)
(* pure; NoteArtifacts renders, checks and publishes diagrams with them.   *)
(*                                                                         *)
(* Abstracted: the HTML around the data is the template's or it is not     *)
(* (shell), its labels are in plain language or not (plain), of the kinds  *)
(* only "actor" is kept, which has a size of its own, and the height of a  *)
(* box is what the browser makes of its label, without an upper bound; the *)
(* tilt of a box (at most 0.28 degrees) and its shadow are left out.       *)
(* Coordinates are fractions of a pixel, so lengths are compared after     *)
(* multiplying by the denominators.                                        *)
(***************************************************************************)
EXTENDS Integers, FiniteSets

CONSTANT NodeIds

(* .diagram-node and .diagram-node.kind-actor in diagram.css.              *)
BoxSize(n) == IF n.actor THEN n.height = 108 ELSE n.height >= 74

(* A diagram-data object with values of the types the checks ask for.      *)
IsDiagram(d) ==
    /\ {d.shell, d.plain} \subseteq BOOLEAN
    /\ d.direction \in {"top-down", "left-right"}
    /\ {d.width, d.height} \subseteq Nat
    /\ d.count \in Nat
    /\ d.nodes \in [1..d.count -> [id : NodeIds, rank : Nat, order : Nat,
                                actor : BOOLEAN, height : Nat]]
    /\ \A i \in 1..d.count : BoxSize(d.nodes[i])
    /\ IsFiniteSet(d.edges)
    /\ d.edges \subseteq [from : NodeIds, to : NodeIds, lane : Int]

Nodes(d) == 1..d.count
Ids(d) == { d.nodes[i].id : i \in Nodes(d) }

----------------------------------------------------------------------------
(* validate_diagram_data, and validateConfig, which repeats it.  An array  *)
(* of edges without two equal from / to / lane is a set of edges.          *)
SizeFits(d) == d.width \in 480..1600 /\ d.height \in 320..1200

NodesFit(d) ==
    /\ d.count \in 1..24
    /\ \A i \in Nodes(d) : d.nodes[i].rank \in 0..12 /\ d.nodes[i].order \in 0..24
    /\ \A i, j \in Nodes(d) : i # j =>
          /\ d.nodes[i].id # d.nodes[j].id
          /\ <<d.nodes[i].rank, d.nodes[i].order>> #
             <<d.nodes[j].rank, d.nodes[j].order>>

EdgesFit(d) ==
    /\ Cardinality(d.edges) <= 48
    /\ \A e \in d.edges :
          /\ {e.from, e.to} \subseteq Ids(d)
          /\ e.from # e.to
          /\ e.lane \in -2..2

(* load_diagram returns a document.                                        *)
Loads(d) == d.shell /\ SizeFits(d) /\ NodesFit(d) /\ EdgesFit(d)

(* The runtime, in a page of its own with the template's HTML, checks the  *)
(* same data once more.                                                    *)
ConfigFits(d) == SizeFits(d) /\ NodesFit(d) /\ EdgesFit(d)

----------------------------------------------------------------------------
(* groupByRank: the ranks in use, and the place of a node among them.      *)
Ranks(d) == { d.nodes[i].rank : i \in Nodes(d) }
InRank(d, r) == { i \in Nodes(d) : d.nodes[i].rank = r }
RankSize(d, r) == Cardinality(InRank(d, r))
RankCount(d) == Cardinality(Ranks(d))
LargestRank(d) ==
    CHOOSE n \in { RankSize(d, r) : r \in Ranks(d) } :
        \A r \in Ranks(d) : RankSize(d, r) <= n

RankIndex(d, i) == Cardinality({ r \in Ranks(d) : r < d.nodes[i].rank })
NodeIndex(d, i) ==
    Cardinality({ j \in InRank(d, d.nodes[i].rank) :
                      d.nodes[j].order < d.nodes[i].order })

Clamp(low, value, high) ==
    IF value < low THEN low ELSE IF high < value THEN high ELSE value

(* calculateLayout: the widest rank, or the number of ranks, shares the    *)
(* width of the canvas out; BoxWidth(d) / Shares(d) is nodeWidth.          *)
Shares(d) == IF d.direction = "top-down" THEN LargestRank(d) ELSE RankCount(d)

NaturalWidth(d) ==
    IF d.direction = "top-down" THEN d.width - 48 - 18 * Shares(d)
                                ELSE d.width - 60 - 26 * Shares(d)

NarrowestBox(d) == IF d.direction = "top-down" THEN 112 ELSE 122

BoxWidth(d) ==
    Clamp(NarrowestBox(d) * Shares(d), NaturalWidth(d), 190 * Shares(d))

LaidOutAcross(d) ==  \* mutant: the height of the canvas is not looked at
    NaturalWidth(d) >= NarrowestBox(d) * Shares(d)

LaidOut(d) ==
    /\ NaturalWidth(d) >= NarrowestBox(d) * Shares(d)
    /\ IF d.direction = "top-down"
       THEN RankCount(d) > 1 => d.height - 140 >= 130 * (RankCount(d) - 1)
       ELSE d.height - 68 >= 96 * LargestRank(d)

(* The runtime reports data-render-state="ready".                          *)
Ready(d) == ConfigFits(d) /\ LaidOut(d)

(* From left to right: the centre of a box and half its width, in units of *)
(* 1 / Unit pixels.  The runtime gives every box half of nodeWidth, the    *)
(* stylesheet 54 pixels to an actor.                                       *)
Unit(d, i) ==
    IF d.direction = "top-down"
    THEN 2 * Shares(d) * RankSize(d, d.nodes[i].rank)
    ELSE IF RankCount(d) = 1 THEN 2 ELSE 2 * Shares(d) * (RankCount(d) - 1)

HalfNodeWidth(d, i) ==
    IF d.direction = "top-down"
    THEN BoxWidth(d) * RankSize(d, d.nodes[i].rank)
    ELSE IF RankCount(d) = 1 THEN BoxWidth(d)
         ELSE BoxWidth(d) * (RankCount(d) - 1)

HalfWidth(d, i) ==
    IF d.nodes[i].actor THEN 54 * Unit(d, i) ELSE HalfNodeWidth(d, i)

(* centeredSlotPosition from 28 to width - 28, or evenPosition from        *)
(* nodeWidth / 2 + 34 to width - nodeWidth / 2 - 34.                       *)
Centre(d, i) ==
    IF d.direction = "top-down"
    THEN Shares(d) * (56 * RankSize(d, d.nodes[i].rank)
                      + (d.width - 56) * (2 * NodeIndex(d, i) + 1))
    ELSE IF RankCount(d) = 1 THEN d.width
         ELSE HalfNodeWidth(d, i) + 34 * Unit(d, i)
              + 2 * RankIndex(d, i) * (Shares(d) * (d.width - 68) - BoxWidth(d))

(* From top to bottom: the centre, in units of 1 / LevelUnit pixels, by    *)
(* evenPosition from 70 to height - 70, or centeredSlotPosition from 34 to *)
(* height - 34.                                                            *)
LevelUnit(d, i) ==
    IF d.direction = "top-down"
    THEN IF RankCount(d) = 1 THEN 2 ELSE RankCount(d) - 1
    ELSE 2 * RankSize(d, d.nodes[i].rank)

Level(d, i) ==
    IF d.direction = "top-down"
    THEN IF RankCount(d) = 1 THEN d.height
         ELSE 70 * (RankCount(d) - 1) + (d.height - 140) * RankIndex(d, i)
    ELSE 68 * RankSize(d, d.nodes[i].rank) + (d.height - 68) * (2 * NodeIndex(d, i) + 1)

(* Boxes that share a row, or that stand in different columns.             *)
SideBySide(d, i, j) ==
    (d.direction = "top-down") <=> (d.nodes[i].rank = d.nodes[j].rank)

(* The heights two boxes may have together, one above the other, and one   *)
(* box by itself: the runtime never sees what the labels need.             *)
RoomForTwo(d) == IF d.direction = "top-down" THEN 260 ELSE 192
RoomForOne(d) == IF d.direction = "top-down" THEN 140 ELSE 164

(* Boxes side by side never cover each other and none leaves the canvas on *)
(* the left or on the right.  Boxes one above the other stay apart, and    *)
(* inside the canvas, unless their labels make them higher than the room   *)
(* the layout keeps: a long label, or two actors in a column, may run into *)
(* the next box, which SKILL.md:119-120 leaves to the author's eye         *)
(* (diagram.js:241-308, diagram.css:92-148).                               *)
BoxesApart(d) ==
    /\ \A i \in Nodes(d) :
          /\ HalfWidth(d, i) <= Centre(d, i)
          /\ Centre(d, i) + HalfWidth(d, i) <= d.width * Unit(d, i)
          /\ d.nodes[i].height <= RoomForOne(d) =>
                /\ d.nodes[i].height * LevelUnit(d, i) <= 2 * Level(d, i)
                /\ 2 * Level(d, i) + d.nodes[i].height * LevelUnit(d, i)
                      <= 2 * d.height * LevelUnit(d, i)
    /\ \A i, j \in Nodes(d) : i # j =>
          IF SideBySide(d, i, j)
          THEN \/ Centre(d, j) - Centre(d, i) >= HalfWidth(d, i) + HalfWidth(d, j)
               \/ Centre(d, i) - Centre(d, j) >= HalfWidth(d, i) + HalfWidth(d, j)
          ELSE LET together == d.nodes[i].height + d.nodes[j].height IN
               together <= RoomForTwo(d) =>
                  \/ 2 * (Level(d, j) - Level(d, i)) >= together * LevelUnit(d, i)
                  \/ 2 * (Level(d, i) - Level(d, j)) >= together * LevelUnit(d, i)
=============================================================================
