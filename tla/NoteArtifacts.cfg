SPECIFICATION Spec
CONSTANTS
    p1 = p1
    p2 = p2
    old = old
    new = new
    Processes = {p1, p2}
    NodeIds <- MCNodeIds
    t1 = t1
    t2 = t2
    Titles <- MCTitles
    Texts <- MCTexts
    Diagrams <- MCDiagrams
    Themes = {old, new}
    TemplateNote <- MCTemplateNote
    TemplateDiagram <- MCTemplateDiagram
    Absent = Absent
    Blank = Blank
    MaxEdits = 2
    MaxRuns = 3
SYMMETRY Symmetry
INVARIANTS
    PictureFaithful
    PublishedBoxesApart
    CheckIsTruthful
    UndisturbedPdf
PROPERTIES
    NoSourceLost
CHECK_DEADLOCK FALSE
