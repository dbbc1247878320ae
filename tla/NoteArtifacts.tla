--------------------------- MODULE NoteArtifacts ---------------------------
(***************************************************************************)
(* The files of a lesson note and the commands of build-lesson-notes that  *)
(* make one from the other: the Markdown note and the HTML of its diagram  *)
(* are written by an author, or by create_note.py and create_diagram.py    *)
(* from a template; render_diagram.py draws the PNG, or checks it; and     *)
(* render_note.py validates the note and prints it to PDF.  No command     *)
(* takes a lock: several may run at once, while the author goes on         *)
(* editing.                                                                *)
(*                                                                         *)
(* A process runs one command after the other.  A command may fail before  *)
(* any of its steps (an OSError, a browser that exits with an error or     *)
(* times out, a check that does not hold) or be killed: both end it where  *)
(* it is.                                                                  *)
(***************************************************************************)
EXTENDS LessonDiagram

CONSTANTS
    Processes,     \* those who run commands
    Texts,         \* the contents a note can have
    Diagrams,      \* the contents the HTML of a diagram can have
    Themes,        \* the versions of diagram.css and diagram.js
    Titles,        \* what --title may say
    TemplateNote, TemplateDiagram,  \* new files, up to their title
    Absent,        \* no such file
    Blank,         \* a file that was created and not written yet
    MaxEdits,      \* bound: what the author changes
    MaxRuns        \* bound: the commands that are run

(* sound: validate_note finds no error in the text itself; embeds: the     *)
(* text shows the diagram; strict: its status is "complete", so the labels *)
(* of the diagram must be plain too.                                       *)
ASSUME NoteAssumption ==
    /\ Texts \subseteq [title : Titles, sound : BOOLEAN, embeds : BOOLEAN,
                       strict : BOOLEAN]
    /\ \A d \in Diagrams : IsDiagram(d)
    /\ \A t \in Titles : /\ [TemplateNote EXCEPT !.title = t] \in Texts
                        /\ [TemplateDiagram EXCEPT !.title = t] \in Diagrams
    /\ {Absent, Blank} \cap (Texts \cup Diagrams) = {}
    /\ Absent # Blank
    /\ MaxEdits \in Nat
    /\ MaxRuns \in Nat

Loadable == { d \in Diagrams : Loads(d) }
Drawable == { d \in Diagrams : Ready(d) }
Legible == { d \in Diagrams : BoxesApart(d) }

Sources == {"note", "html"}
Template(s, t) ==
    IF s = "note" THEN [TemplateNote EXCEPT !.title = t]
                  ELSE [TemplateDiagram EXCEPT !.title = t]
Contents(s) == IF s = "note" THEN Texts ELSE Diagrams

VARIABLES
    file,       \* file[s]: the note and the diagram's HTML
    theme,      \* the assets that every diagram loads
    png,        \* the picture beside the HTML
    pdf,        \* the print of the note
    pc,         \* the next step of each process
    command,    \* what it runs
    source,     \* the HTML it has read last
    seen,       \* HTML and theme of the document it renders or checks
    picture,    \* the picture it has drawn, or found
    text,       \* the note that was validated
    body,       \* the note that is printed
    disturbed,  \* ghost: a file changed since its print started, by another hand
    overtaken,  \* ghost: those whose new file the author, or a --force, changed
    careless,   \* ghost: those whose browser exited with 0 without its print
    edits,      \* what the author has changed so far
    runs        \* the commands that were run so far

vars == <<file, theme, png, pdf, pc, command, source, seen, picture, text,
          body, disturbed, overtaken, careless, edits, runs>>

files == <<file, theme, png, pdf>>
locals == <<source, seen, picture, text, body>>
unread == <<command, disturbed, overtaken, careless, edits, runs>>

Commands == [does : {"create"}, what : Sources, force : BOOLEAN, title : Titles]
            \cup [does : {"render", "check", "print"}]

(* A picture: the document its pixels show, the one its metadata names,    *)
(* and whether the pixels are those that were rendered.                    *)
Document == [html : Diagrams, theme : Themes]
Picture == [shows : Document, names : Document, intact : BOOLEAN]

(* A whole print of a note has at least 1000 bytes; of a part of a print   *)
(* no more is told than whether it has.                                    *)
WholePdf == [whole : {TRUE}, large : {TRUE}, text : Texts,
             picture : Picture \cup {Absent}]
Part == [whole : {FALSE}, large : BOOLEAN]
PdfFile == WholePdf \cup Part

Goto(p, step) == pc' = [pc EXCEPT ![p] = step]

(* What one hand changes disturbs the prints of the others.                *)
Printers == { p \in Processes : pc[p] # "idle" /\ command[p].does = "print" }
Disturb(some) == disturbed' = [p \in Processes |-> disturbed[p] \/ p \in some]
DisturbOthers(p) == Disturb(Printers \ {p})

Fresh(s) == { Template(s, t) : t \in Titles } \cup {Absent}

Init ==
    /\ file \in [note : Fresh("note"), html : Fresh("html")]
    /\ theme \in Themes
    /\ png = Absent
    /\ pdf = Absent
    /\ pc = [p \in Processes |-> "idle"]
    /\ command = [p \in Processes |-> Absent]
    /\ source = [p \in Processes |-> Absent]
    /\ seen = [p \in Processes |-> Absent]
    /\ picture = [p \in Processes |-> Absent]
    /\ text = [p \in Processes |-> Absent]
    /\ body = [p \in Processes |-> Absent]
    /\ disturbed = [p \in Processes |-> FALSE]
    /\ overtaken = {}
    /\ careless = {}
    /\ edits = 0
    /\ runs = 0

----------------------------------------------------------------------------
(* A process that ends, or begins, holds no file in memory.                *)
Forget(p) ==
    /\ source' = [source EXCEPT ![p] = Absent]
    /\ seen' = [seen EXCEPT ![p] = Absent]
    /\ picture' = [picture EXCEPT ![p] = Absent]
    /\ text' = [text EXCEPT ![p] = Absent]
    /\ body' = [body EXCEPT ![p] = Absent]

(* main of each script, up to its first step.                              *)
FirstStep(c) ==
    CASE c.does = "create" -> "open"
      [] c.does = "print" -> "validate"
      [] OTHER -> "source"

(* Nothing runs: no command yet, one that failed, or one that ended well.  *)
Free == {"idle", "ok"}

(* create_note.py and create_diagram.py look first whether the file exists,*)
(* and the latter whether the note does.                                   *)
MayCreate(c) ==
    /\ c.force \/ file[c.what] = Absent
    /\ c.what = "html" => file["note"] # Absent

Start(p) ==
    \E c \in Commands :
        /\ pc[p] \in Free
        /\ runs < MaxRuns
        /\ c.does = "create" => MayCreate(c)
        /\ runs' = runs + 1
        /\ command' = [command EXCEPT ![p] = c]
        /\ Forget(p)
        /\ disturbed' = [disturbed EXCEPT ![p] = FALSE]
        /\ careless' = careless \ {p}
        /\ Goto(p, FirstStep(c))
        /\ UNCHANGED <<files, overtaken, edits>>

Creators(s) == { p \in Processes : pc[p] = "write" /\ command[p].what = s }

(* A create --force overtakes the others that have the same file open.     *)
Overtake(p) ==
    overtaken' = (overtaken \ {p}) \cup
        (IF command[p].force THEN Creators(command[p].what) \ {p} ELSE {})

OpenTruncating(p) ==  \* mutant: always opened with mode "w"
    /\ pc[p] = "open"
    /\ file' = [file EXCEPT ![command[p].what] = Blank]
    /\ DisturbOthers(p)
    /\ Overtake(p)
    /\ Goto(p, "write")
    /\ UNCHANGED <<theme, png, pdf, command, locals, careless, edits, runs>>

(* open(mode="x"), or "w" with --force: the file exists and is empty.      *)
Open(p) ==
    /\ pc[p] = "open"
    /\ command[p].force \/ file[command[p].what] = Absent
    /\ file' = [file EXCEPT ![command[p].what] = Blank]
    /\ DisturbOthers(p)
    /\ Overtake(p)
    /\ Goto(p, "write")
    /\ UNCHANGED <<theme, png, pdf, command, locals, careless, edits, runs>>

(* What a write leaves.  Where the file was filled after it was opened, the*)
(* new bytes lie over the old ones, and those beyond them stay; or the file*)
(* that was opened is no longer the one of that name.                      *)
Left(p) ==
    LET s == command[p].what
        rendered == Template(s, command[p].title)
    IN  IF file[s] \in {Blank, rendered} THEN {rendered} ELSE Contents(s)

Write(p) ==
    /\ pc[p] = "write"
    /\ \E left \in Left(p) : file' = [file EXCEPT ![command[p].what] = left]
    /\ DisturbOthers(p)
    /\ Overtake(p)
    /\ Goto(p, "ok")
    /\ UNCHANGED <<theme, png, pdf, command, locals, careless, edits, runs>>

----------------------------------------------------------------------------
(* load_diagram: the HTML, then the assets it names.  render loads three   *)
(* times: to draw, to see that nothing has changed, and in                 *)
(* validate_rendered_png on the staged file.                               *)
ReadHtml(p) ==
    /\ pc[p] \in {"source", "source again", "source at last"}
    /\ file["html"] \in Loadable
    /\ source' = [source EXCEPT ![p] = file["html"]]
    /\ Goto(p, CASE pc[p] = "source" -> "assets"
                 [] pc[p] = "source again" -> "assets again"
                 [] OTHER -> "assets at last")
    /\ UNCHANGED <<files, seen, picture, text, body, unread>>

Loaded(p) == [html |-> source[p], theme |-> theme]

ReadAssets(p) ==
    /\ pc[p] = "assets"
    /\ seen' = [seen EXCEPT ![p] = Loaded(p)]
    /\ Goto(p, IF command[p].does = "render" THEN "draw" ELSE "inspect")
    /\ UNCHANGED <<files, source, picture, text, body, unread>>

DrawLive(p) ==  \* mutant: the browser opens the author's file, not a copy
    /\ pc[p] = "draw"
    /\ file["html"] \in Drawable
    /\ picture' = [picture EXCEPT ![p] =
          [shows |-> [html |-> file["html"], theme |-> theme],
           names |-> seen[p], intact |-> TRUE]]
    /\ Goto(p, "source again")
    /\ UNCHANGED <<files, source, seen, text, body, unread>>

(* Both runs of the browser, on copies of the bytes that were loaded.      *)
Draw(p) ==
    /\ pc[p] = "draw"
    /\ seen[p].html \in Drawable
    /\ picture' = [picture EXCEPT ![p] =
          [shows |-> seen[p], names |-> seen[p], intact |-> TRUE]]
    /\ Goto(p, "source again")
    /\ UNCHANGED <<files, source, seen, text, body, unread>>

(* The fingerprint is still the same; the metadata is added.               *)
Recheck(p) ==
    /\ pc[p] = "assets again"
    /\ Loaded(p) = seen[p]
    /\ Goto(p, "source at last")
    /\ UNCHANGED <<files, locals, unread>>

(* validate_rendered_png of the staged picture.                            *)
Accept(p) ==
    /\ pc[p] = "assets at last"
    /\ Loaded(p) = picture[p].names
    /\ Goto(p, "replace")
    /\ UNCHANGED <<files, locals, unread>>

Replace(p) ==
    /\ pc[p] = "replace"
    /\ png' = picture[p]
    /\ DisturbOthers(p)
    /\ Goto(p, "sweep")
    /\ UNCHANGED <<file, theme, pdf, command, locals, overtaken, careless,
                   edits, runs>>

(* The temporary directory is removed.                                     *)
Sweep(p) ==
    /\ pc[p] = "sweep"
    /\ Goto(p, "ok")
    /\ UNCHANGED <<files, locals, unread>>

(* validate_rendered_png of the published picture, in render_diagram.py    *)
(* --check and for the image of a note: it opens the file once for the     *)
(* metadata ...                                                            *)
InspectNames(p) ==
    /\ pc[p] = "inspect"
    /\ png # Absent
    /\ png.names = seen[p]
    /\ picture' = [picture EXCEPT ![p] = png]
    /\ Goto(p, "inspect pixels")
    /\ UNCHANGED <<files, source, seen, text, body, unread>>

AfterInspection(p) == IF command[p].does = "check" THEN "ok" ELSE "labels"

InspectPixelsUnread(p) ==  \* mutant: the pixels are not compared
    /\ pc[p] = "inspect pixels"
    /\ png # Absent
    /\ picture' = [picture EXCEPT ![p] = png]
    /\ Goto(p, AfterInspection(p))
    /\ UNCHANGED <<files, source, seen, text, body, unread>>

(* ... and once more for the pixels, which must be the ones it recorded.   *)
InspectPixels(p) ==
    /\ pc[p] = "inspect pixels"
    /\ png # Absent
    /\ png.intact
    /\ png.shows = picture[p].shows
    /\ picture' = [picture EXCEPT ![p] = png]
    /\ Goto(p, AfterInspection(p))
    /\ UNCHANGED <<files, source, seen, text, body, unread>>

(* validate_images loads the diagram again for the language of its labels. *)
ReadLabels(p) ==
    /\ pc[p] = "labels"
    /\ file["html"] \in Loadable
    /\ text[p].strict => file["html"].plain
    /\ Goto(p, "reread")
    /\ UNCHANGED <<files, locals, unread>>

----------------------------------------------------------------------------
ValidateTextOnly(p) ==  \* mutant: the images of a note are not looked at
    /\ pc[p] = "validate"
    /\ file["note"] \in Texts
    /\ file["note"].sound
    /\ text' = [text EXCEPT ![p] = file["note"]]
    /\ Goto(p, "reread")
    /\ UNCHANGED <<files, source, seen, picture, body, unread>>

(* validate_note.py, in a process of its own, reads the note ...           *)
Validate(p) ==
    /\ pc[p] = "validate"
    /\ file["note"] \in Texts
    /\ file["note"].sound
    /\ text' = [text EXCEPT ![p] = file["note"]]
    /\ Goto(p, IF file["note"].embeds THEN "source" ELSE "reread")
    /\ UNCHANGED <<files, source, seen, picture, body, unread>>

(* ... and render_note.py reads it again.                                  *)
Reread(p) ==
    /\ pc[p] = "reread"
    /\ file["note"] \in Texts
    /\ body' = [body EXCEPT ![p] = file["note"]]
    /\ Goto(p, "print")
    /\ UNCHANGED <<files, source, seen, picture, text, unread>>

PrintOf(p) ==
    [whole |-> TRUE, large |-> TRUE, text |-> body[p],
     picture |-> IF body[p].embeds THEN png ELSE Absent]

(* The browser reads the picture and writes the PDF in its place, over the *)
(* one of an earlier print.  It may break off and say so; and it may exit  *)
(* with 0 though it wrote a part of the print, or nothing at all.          *)
PrintNote(p) ==
    /\ pc[p] = "print"
    /\ \/ pdf' = PrintOf(p) /\ Goto(p, "measure") /\ UNCHANGED careless
       \/ pdf' \in Part /\ Goto(p, "failed") /\ UNCHANGED careless
       \/ /\ pdf' \in Part \cup {pdf}
          /\ Goto(p, "measure")
          /\ careless' = careless \cup {p}
    /\ DisturbOthers(p)
    /\ UNCHANGED <<file, theme, png, command, locals, overtaken, edits, runs>>

MeasureAnySize(p) ==  \* mutant: a PDF of any size will do
    /\ pc[p] = "measure"
    /\ pdf # Absent
    /\ Goto(p, "ok")
    /\ UNCHANGED <<files, locals, unread>>

(* There is a PDF, and it has at least 1000 bytes.                         *)
Measure(p) ==
    /\ pc[p] = "measure"
    /\ pdf # Absent
    /\ pdf.large
    /\ Goto(p, "ok")
    /\ UNCHANGED <<files, locals, unread>>

----------------------------------------------------------------------------
(* An error is reported, or the process is killed.                         *)
Fail(p) ==
    /\ pc[p] \notin Free
    /\ Goto(p, "idle")
    /\ command' = [command EXCEPT ![p] = Absent]
    /\ Forget(p)
    /\ disturbed' = [disturbed EXCEPT ![p] = FALSE]
    /\ overtaken' = overtaken \ {p}
    /\ careless' = careless \ {p}
    /\ UNCHANGED <<files, edits, runs>>

(* The author, in an editor that saves the file as a whole, at any time,   *)
(* also while a command is creating it.                                    *)
EditNote ==
    /\ file["note"] # Absent
    /\ \E t \in Texts : t # file["note"] /\ file' = [file EXCEPT !["note"] = t]
    /\ UNCHANGED <<theme, png, pdf>>

EditDiagram ==
    /\ file["html"] # Absent
    /\ \E d \in Diagrams : d # file["html"] /\ file' = [file EXCEPT !["html"] = d]
    /\ UNCHANGED <<theme, png, pdf>>

EditTheme ==
    /\ \E t \in Themes \ {theme} : theme' = t
    /\ UNCHANGED <<file, png, pdf>>

(* The picture is cropped or painted over; its metadata stays.             *)
RetouchPicture ==
    /\ png # Absent
    /\ png.intact
    /\ png' = [png EXCEPT !.intact = FALSE]
    /\ UNCHANGED <<file, theme, pdf>>

Edit ==
    /\ edits < MaxEdits
    /\ edits' = edits + 1
    /\ EditNote \/ EditDiagram \/ EditTheme \/ RetouchPicture
    /\ Disturb(Printers)
    /\ overtaken' = overtaken \cup
          UNION { Creators(s) : s \in { x \in Sources : file'[x] # file[x] } }
    /\ UNCHANGED <<pc, command, locals, careless, runs>>

Step(p) ==
    \/ Open(p) \/ Write(p)
    \/ ReadHtml(p) \/ ReadAssets(p) \/ Draw(p) \/ Recheck(p) \/ Accept(p)
    \/ Replace(p) \/ Sweep(p)
    \/ InspectNames(p) \/ InspectPixels(p) \/ ReadLabels(p)
    \/ Validate(p) \/ Reread(p) \/ PrintNote(p) \/ Measure(p)

Next == Edit \/ \E p \in Processes : Start(p) \/ Step(p) \/ Fail(p)

Spec == Init /\ [][Next]_vars
----------------------------------------------------------------------------
Steps == {"idle", "open", "write", "source", "assets", "draw", "source again",
          "assets again", "source at last", "assets at last", "replace",
          "sweep", "inspect", "inspect pixels", "validate", "labels",
          "reread", "print", "measure", "ok", "failed"}

TypeOK ==
    /\ DOMAIN file = Sources
    /\ \A s \in Sources : file[s] \in Contents(s) \cup {Absent, Blank}
    /\ theme \in Themes
    /\ png \in Picture \cup {Absent}
    /\ pdf \in PdfFile \cup {Absent}
    /\ pc \in [Processes -> Steps]
    /\ command \in [Processes -> Commands \cup {Absent}]
    /\ source \in [Processes -> Diagrams \cup {Absent}]
    /\ seen \in [Processes -> Document \cup {Absent}]
    /\ picture \in [Processes -> Picture \cup {Absent}]
    /\ text \in [Processes -> Texts \cup {Absent}]
    /\ body \in [Processes -> Texts \cup {Absent}]
    /\ disturbed \in [Processes -> BOOLEAN]
    /\ overtaken \subseteq Processes
    /\ careless \subseteq Processes
    /\ edits \in 0..MaxEdits
    /\ runs \in 0..MaxRuns

(* The metadata of a published picture never lies: unless somebody painted *)
(* over it, its pixels show the very document its fingerprint names, even  *)
(* when the sources changed, and changed back, while the browser ran       *)
(* (render_diagram.py:174-244).                                            *)
PictureFaithful == png # Absent /\ png.intact => png.shows = png.names

(* In every published picture the boxes keep the distances the layout      *)
(* promises, whatever diagram the author had in the file by then: apart    *)
(* from left to right, and from top to bottom as far as their labels fit   *)
(* into its rows (render_diagram.py:189-196, diagram.js:241-308).          *)
PublishedBoxesApart == png # Absent => png.shows.html \in Legible

(* A check that found nothing wrong looked at pixels that show the         *)
(* document it had loaded, though it opened the picture twice and a        *)
(* renderer may have replaced it in between (diagram_support.py:613-649).  *)
CheckIsTruthful ==
    \A p \in Processes :
        pc[p] = "ok" /\ command[p].does = "check" =>
            picture[p].intact /\ picture[p].shows = seen[p]

(* Nobody's note or diagram is lost: contents other than those of an empty *)
(* file go away only by the author's hand, by a create --force, or by a    *)
(* create whose new file the author or a create --force has filled while   *)
(* it had it open; a create never takes what was there before it, nor what *)
(* another plain create has made, though the scripts test for the file,    *)
(* open it and write it in three steps (create_diagram.py:131-153,         *)
(* create_note.py:119-141).                                                *)
NoSourceLost ==
    [][\A s \in Sources :
          file[s] \notin {Absent, Blank} /\ file'[s] # file[s] =>
              \/ edits' > edits
              \/ \E p \in Processes : /\ pc[p] \in {"open", "write"}
                                      /\ pc'[p] # pc[p]
                                      /\ command[p].what = s
                                      /\ command[p].force \/ p \in overtaken]_vars

(* If nobody else touched a file while a note was printed, a command that  *)
(* reports success leaves a PDF of at least 1000 bytes, and a whole print  *)
(* of the note unless the browser exited with 0 without having written one *)
(* (then an earlier print passes for it); the note is the current one and  *)
(* sound, and so is the picture of its diagram                             *)
(* (render_note.py:114-188, validate_note.py:440-465).                     *)
UndisturbedPdf ==
    \A p \in Processes :
        pc[p] = "ok" /\ command[p].does = "print" /\ ~disturbed[p] =>
            /\ pdf # Absent /\ pdf.large
            /\ p \notin careless => pdf = PrintOf(p)
            /\ body[p] = file["note"]
            /\ body[p].sound
            /\ body[p].embeds =>
                  /\ png # Absent
                  /\ png.intact
                  /\ png.shows = [html |-> file["html"], theme |-> theme]
=============================================================================
