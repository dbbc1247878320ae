--------------------------- MODULE MCNoteArtifacts ---------------------------
(* Three commands, two of them at a time, beside an author who may change  *)
(* two things, and so may change one there and back.                       *)
EXTENDS NoteArtifacts, TLC

CONSTANTS p1, p2, old, new, t1, t2

MCNodeIds == {"a", "b", "c"}
MCNames == <<"a", "b", "c">>

Box(i, rank, order, actor, height) ==
    [id |-> MCNames[i], rank |-> rank, order |-> order, actor |-> actor,
     height |-> IF actor THEN 108 ELSE height]

(* Three boxes in a row of the narrowest canvas: 126 pixels each.          *)
Row ==
    [title |-> t1, shell |-> TRUE, plain |-> FALSE, direction |-> "top-down",
     width |-> 480, height |-> 320, count |-> 3,
     nodes |-> [i \in 1..3 |-> Box(i, 0, 4 - i, i = 2, 90)],
     edges |-> {}]

(* Three columns of the narrowest canvas that holds them.                  *)
Columns ==
    [title |-> t1, shell |-> TRUE, plain |-> TRUE, direction |-> "left-right",
     width |-> 504, height |-> 320, count |-> 3,
     nodes |-> [i \in 1..3 |-> Box(i, 4 * i, 0, i = 1, 100)],
     edges |-> { [from |-> "a", to |-> "b", lane |-> 0] }]

(* The columns as rows, on a canvas the runtime finds too low for them.    *)
Crowded == [Columns EXCEPT !.direction = "top-down"]

Note(title, sound, embeds, strict) ==
    [title |-> title, sound |-> sound, embeds |-> embeds, strict |-> strict]

MCTitles == {t1, t2}
MCTemplateNote == Note(t1, TRUE, FALSE, FALSE)
MCTexts == { Note(t, TRUE, FALSE, FALSE) : t \in MCTitles } \cup
           { Note(t1, TRUE, TRUE, TRUE), Note(t1, FALSE, TRUE, FALSE) }
MCTemplateDiagram == Columns
MCDiagrams == {Row, Crowded} \cup { [Columns EXCEPT !.title = t] : t \in MCTitles }

Symmetry == Permutations(Processes) \cup Permutations(Themes)
=============================================================================
