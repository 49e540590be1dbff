---------------------------- MODULE CaptureEditor ----------------------------
(* The screen capture (bin/app/screenshot/overlay): the region, the           *)
(* annotations drawn on it with mouse and keyboard, and the ways to finish.   *)
(* One thread handles one message after the other, but in any order: a key    *)
(* may come in the middle of a drag, and a release may never come.            *)
EXTENDS Naturals, SequencesExt

CONSTANTS
    Points,         \* places on the screen
    MaxMarks        \* bound: annotations made

ASSUME CaptureAssumption == MaxMarks \in Nat \ {0}

VARIABLES
    overlay,        \* "open", "spawns" a helper, or "closed"
    settled,        \* SETTLE_CLOSE_MS have passed since it opened
    ocr_mode,
    shot,           \* the fields of Shot
    made,           \* annotations made so far, and their numbers
    grabbed,        \* history: the annotation that was grabbed
    handed,         \* history: the annotations handed out, and those on the screen then
    picture         \* the temporary PNG: "none", "ours", of a "helper", or "left" behind

captureVars == <<overlay, settled, ocr_mode, shot, made, grabbed, handed, picture>>

\* "outline" is a tool that draws in a rectangle, "stroke" a line, an arrow or the pen.
Tools == {"outline", "stroke", "text", "number", "eyedropper", "move"}
NoText == [on |-> FALSE, full |-> FALSE]

\* The text being typed is empty or not; its place is chosen when it becomes an annotation.
NewShot ==
    [sel |-> FALSE, sel_dragging |-> FALSE, tool |-> "outline", shapes |-> <<>>, redo |-> <<>>,
     draw_from |-> FALSE, typing |-> NoText, typing_drag |-> FALSE,
     selected |-> 0, move_from |-> FALSE, flyout |-> "none"]

CaptureInit ==
    /\ overlay = "open" /\ settled = FALSE
    /\ ocr_mode \in BOOLEAN
    /\ shot = NewShot /\ made = 0 /\ grabbed = 0
    /\ handed = [marks |-> {}, screen |-> {}]
    /\ picture = "none"

-----------------------------------------------------------------------------
(* Annotations                                                               *)

Mark(at) == [id |-> made + 1, at |-> at]
Ids(marks) == {m.id : m \in ToSet(marks)}

(* Every new annotation goes on top, and what was undone is gone for good.   *)
Push(s, m) == [s EXCEPT !.shapes = Append(@, m), !.redo = <<>>]

\* How many annotations the step makes is told by their numbers.
Made(s) == made' = IF s.shapes # <<>> /\ Last(s.shapes).id > made THEN Last(s.shapes).id ELSE made

\* mutant: switching tools drops the text being typed
commit_text_drops(s, at) == [s EXCEPT !.typing = NoText]
(* commit_text: a text that is not empty becomes an annotation.              *)
commit_text(s, at) ==
    LET t == [s EXCEPT !.typing = NoText]
    IN  IF s.typing.full THEN Push(t, Mark(at)) ELSE t

(* hit_shape: the topmost one at the place.                                  *)
hit_shape(s, p) == SelectLastInSeq(s.shapes, LAMBDA m : m.at = p)

(* finish_shape: an outline must have a size; a stroke is taken as it is.    *)
finish_shape(s, p, far) ==
    CASE s.tool = "outline" -> IF far THEN Push(s, Mark(p)) ELSE s
      [] s.tool = "stroke" -> Push(s, Mark(p))
      [] OTHER -> s

Unselected(s) == [s EXCEPT !.selected = 0, !.move_from = FALSE]

\* mutant: undoing leaves the grabbed annotation selected, by its index
Undo_stays_selected(s) ==
    IF s.shapes = <<>> THEN s
    ELSE [s EXCEPT !.shapes = Front(@), !.redo = Append(@, Last(s.shapes))]
Undo(s) ==
    Unselected(IF s.shapes = <<>> THEN s
               ELSE [s EXCEPT !.shapes = Front(@), !.redo = Append(@, Last(s.shapes))])
Redo(s) ==
    Unselected(IF s.redo = <<>> THEN s
               ELSE [s EXCEPT !.redo = Front(@), !.shapes = Append(@, Last(s.redo))])
Delete(s) ==
    Unselected(IF s.selected \notin DOMAIN s.shapes THEN s
               ELSE [s EXCEPT !.shapes = RemoveAt(@, s.selected), !.redo = <<>>])

(* A tool chosen by its key, or by its button, which also closes the panels, *)
(* or opens the text tool's.                                                 *)
ToolKey(s, t, at) == [Unselected(commit_text(s, at)) EXCEPT !.tool = t, !.typing_drag = FALSE]
ToolButton(s, t, at) ==
    IF t = "text"
    THEN IF s.tool = "text" THEN [s EXCEPT !.flyout = IF @ = "text" THEN "none" ELSE "text"]
         ELSE [Unselected(commit_text(s, at)) EXCEPT !.tool = "text", !.flyout = "text"]
    ELSE [ToolKey(s, t, at) EXCEPT !.flyout = "none"]

-----------------------------------------------------------------------------
(* Finishing                                                                 *)

\* the committed annotations, and the text being typed; not the preview of a drag in progress
OnScreen(s) == Ids(s.shapes) \cup (IF s.typing.full THEN {made + 1} ELSE {})

(* compose: the region with its annotations, or nothing when there is no     *)
(* region or the system refuses a bitmap.                                    *)
HandsOut(s) == handed' = [marks |-> Ids(s.shapes), screen |-> OnScreen(shot)]
HandsNothing == handed' = handed
OverlayCloses == overlay' = "closed" /\ UNCHANGED picture
StaysOpen == overlay' = overlay /\ UNCHANGED picture

(* finish_copy.                                                              *)
finish_copy(s) == (IF s.sel THEN HandsOut(s) \/ HandsNothing ELSE HandsNothing) /\ OverlayCloses
(* finish_save: a refusal of the disk, or of the user, leaves it open.       *)
finish_save(s) == (HandsOut(s) /\ OverlayCloses) \/ (HandsNothing /\ StaysOpen)
(* compose_and_spawn, of OCR and Upload: a PNG in the temporary folder, then *)
(* the helper that is to have it.                                            *)
(* A disk that fills up leaves a part of it.                                 *)
compose_and_spawn(s) ==
    \/ HandsOut(s) /\ picture' = "ours" /\ overlay' = "spawns"
    \/ HandsNothing /\ overlay' = "closed" /\ picture' \in {"none", "left"}

Finish(s) ==
    /\ shot' = s /\ Made(s)
    /\ grabbed' = IF s.selected = 0 THEN 0 ELSE grabbed
    /\ UNCHANGED <<settled, ocr_mode>>

Edit(s) == Finish(s) /\ HandsNothing /\ StaysOpen

(* The process that has put the picture there goes on.                       *)
HelperStarts == picture' \in {"helper", "none"}
Spawns ==
    /\ overlay = "spawns" /\ overlay' = "closed"
    /\ HelperStarts
    /\ UNCHANGED <<settled, ocr_mode, shot, made, grabbed, handed>>

(* run_ocr and run_upload read the picture and delete it at once.            *)
HelperReads == picture = "helper" /\ picture' = "none"
HelperKilled ==
    \/ overlay = "spawns" /\ picture' = "left"
    \/ picture = "helper" /\ picture' = "left"
Elsewhere ==
    /\ HelperReads \/ HelperKilled
    /\ overlay' = IF overlay = "spawns" THEN "closed" ELSE overlay
    /\ UNCHANGED <<settled, ocr_mode, shot, made, grabbed, handed>>

-----------------------------------------------------------------------------
(* The mouse                                                                 *)

(* WM_LBUTTONDOWN without a region.                                          *)
StartRegion ==
    /\ overlay = "open" /\ ~shot.sel
    /\ Edit(IF shot.tool = "eyedropper" THEN shot ELSE [shot EXCEPT !.sel_dragging = TRUE])

(* A click on an open panel: a colour closes it, a setting of the text does  *)
(* not, the dialog for more does.                                            *)
ClickPanel ==
    /\ overlay = "open" /\ shot.sel /\ shot.flyout # "none"
    /\ \/ Edit([shot EXCEPT !.flyout = "none"])
       \/ shot.flyout = "text" /\ Edit(shot)

\* Any other click closes the panel first, and is used up by the panel's own button.
BesidePanel == [shot EXCEPT !.flyout = "none"]

(* WM_LBUTTONDOWN on the region.                                             *)
Grab(p) ==
    LET s == BesidePanel
        hit == hit_shape(s, p)
    IN  /\ shot' = [s EXCEPT !.selected = hit, !.move_from = (hit # 0)]
        /\ grabbed' = IF hit = 0 THEN 0 ELSE s.shapes[hit].id
        /\ HandsNothing /\ StaysOpen
        /\ UNCHANGED <<settled, ocr_mode, made>>

Press(p, ctrl) ==
    LET s == BesidePanel
    IN  /\ overlay = "open" /\ s.sel
        /\ IF ctrl /\ s.typing.on
           THEN Edit([s EXCEPT !.typing_drag = TRUE, !.move_from = TRUE])
           ELSE IF ctrl \/ s.tool = "move" THEN Grab(p)
           ELSE CASE s.tool = "eyedropper" -> Edit(s)
                  [] s.tool = "text" ->
                        IF s.typing.on THEN made < MaxMarks /\ \E q \in Points : Edit(commit_text(s, q))
                                       ELSE Edit([s EXCEPT !.typing = [NoText EXCEPT !.on = TRUE]])
                  [] s.tool = "number" -> made < MaxMarks /\ Edit(Push(s, Mark(p)))
                  [] OTHER -> Edit([s EXCEPT !.draw_from = TRUE])

(* WM_MOUSEMOVE: the annotation that is grabbed goes along.                  *)
Move(p) ==
    /\ overlay = "open"
    /\ ~shot.sel_dragging /\ ~shot.typing_drag
    /\ shot.move_from /\ shot.selected \in DOMAIN shot.shapes
    /\ Edit([shot EXCEPT !.shapes[shot.selected].at = p])

(* WM_LBUTTONUP, far enough from the press to count or not.                  *)
Release(p, far) ==
    /\ overlay = "open" /\ made < MaxMarks
    /\ LET s == shot
       IN  IF s.sel_dragging
           THEN LET t == [s EXCEPT !.sel_dragging = FALSE, !.sel = @ \/ far]
                IN  IF far /\ ocr_mode THEN Finish(t) /\ compose_and_spawn(t) ELSE Edit(t)
           ELSE IF s.typing_drag THEN Edit([s EXCEPT !.typing_drag = FALSE, !.move_from = FALSE])
           ELSE IF s.move_from THEN Edit([s EXCEPT !.move_from = FALSE])
           ELSE s.draw_from /\ Edit(finish_shape([s EXCEPT !.draw_from = FALSE], p, far))

(* handle_button.                                                            *)
ButtonDown ==
    /\ overlay = "open" /\ shot.sel /\ made < MaxMarks
    /\ LET s == BesidePanel
           c(p) == commit_text(s, p)
       IN  \/ \E t \in Tools, p \in Points :
                 Edit(IF t = "text" /\ shot.flyout = "text" THEN s ELSE ToolButton(s, t, p))
           \/ Edit([s EXCEPT !.flyout = IF shot.flyout = "color" THEN "none" ELSE "color"])
           \/ Edit(Undo(s)) \/ Edit(Redo(s))
           \/ \E p \in Points : Finish(c(p)) /\ (finish_copy(c(p)) \/ finish_save(c(p)) \/ compose_and_spawn(c(p)))
           \/ Finish(s) /\ HandsNothing /\ OverlayCloses

-----------------------------------------------------------------------------
(* The keyboard (handle_key, WM_CHAR)                                        *)

OverlaySettles == ~settled /\ settled' = TRUE
           /\ UNCHANGED <<overlay, ocr_mode, shot, made, grabbed, handed, picture>>

(* Esc takes back one thing at a time before it closes.                      *)
Escape ==
    /\ overlay = "open" /\ settled
    /\ LET s == shot
       IN  IF s.sel_dragging THEN Edit([s EXCEPT !.sel_dragging = FALSE])
           ELSE IF s.flyout # "none" THEN Edit([s EXCEPT !.flyout = "none"])
           ELSE IF s.typing.on THEN Edit([s EXCEPT !.typing = NoText, !.typing_drag = FALSE, !.move_from = FALSE])
           ELSE IF s.draw_from THEN Edit([s EXCEPT !.draw_from = FALSE])
           ELSE IF s.selected # 0 THEN Edit(Unselected(s))
           ELSE Finish(s) /\ HandsNothing /\ OverlayCloses

Enter ==
    /\ overlay = "open" /\ settled /\ made < MaxMarks
    /\ \E p \in Points : LET c == commit_text(shot, p) IN Finish(c) /\ finish_copy(c)

\* Letters go into the text being typed, and nothing else is a shortcut then.
Type ==
    /\ overlay = "open" /\ shot.typing.on
    /\ \E full \in BOOLEAN : Edit([shot EXCEPT !.typing.full = full])

Shortcut ==
    /\ overlay = "open" /\ ~shot.typing.on
    /\ \/ Edit(Delete(shot)) \/ Edit(Undo(shot)) \/ Edit(Redo(shot))
       \/ shot.sel /\ Finish(shot) /\ (finish_copy(shot) \/ finish_save(shot) \/ compose_and_spawn(shot))
       \/ ~ocr_mode /\ \E t \in Tools, p \in Points : Edit(ToolKey(shot, t, p))

(* The hotkey opens the next capture, in a process of its own.  What an       *)
(* earlier one left is no longer followed: sweep_stale_captures takes it when *)
(* it is a day old.                                                           *)
OpensAgain ==
    /\ overlay = "closed" /\ picture \in {"none", "left"}
    /\ overlay' = "open" /\ settled' = FALSE /\ ocr_mode' \in BOOLEAN
    /\ shot' = NewShot /\ made' = 0 /\ grabbed' = 0
    /\ handed' = [marks |-> {}, screen |-> {}]
    /\ picture' = "none"

CaptureNext ==
    \/ StartRegion \/ ClickPanel \/ ButtonDown
    \/ \E p \in Points : Move(p) \/ \E b \in BOOLEAN : Press(p, b) \/ Release(p, b)
    \/ OverlaySettles \/ Escape \/ Enter \/ Type \/ Shortcut
    \/ Spawns \/ Elsewhere \/ OpensAgain

CaptureSpec == CaptureInit /\ [][CaptureNext]_captureVars

-----------------------------------------------------------------------------
CaptureTypeOK ==
    /\ overlay \in {"open", "spawns", "closed"} /\ {settled, ocr_mode} \subseteq BOOLEAN
    /\ shot.tool \in Tools /\ shot.flyout \in {"none", "color", "text"}
    /\ shot.typing \in [on : BOOLEAN, full : BOOLEAN]
    /\ \A m \in ToSet(shot.shapes \o shot.redo) : m.id \in 1 .. MaxMarks /\ m.at \in Points
    /\ made \in 0 .. MaxMarks /\ grabbed \in 0 .. MaxMarks
    /\ picture \in {"none", "ours", "helper", "left"}

(* The list of annotations, the undone ones and the grabbed one stay in step *)
(* however drags, keys, undo, redo and Delete interleave: done and undone    *)
(* together are in the order in which they were made, each once, so that     *)
(* Undo takes the newest and Redo the next; and what a drag or Delete goes   *)
(* to is the annotation the user grabbed.                                    *)
KeepsItsMarks ==
    /\ LET all == shot.shapes \o Reverse(shot.redo)
       IN  \A i, k \in DOMAIN all : i < k => all[i].id < all[k].id
    /\ shot.selected # 0 =>
          shot.selected \in DOMAIN shot.shapes /\ shot.shapes[shot.selected].id = grabbed

(* What is handed out is every annotation on the screen, with the text still *)
(* being typed (the preview of a drag in progress is none yet); and once the *)
(* capture is over, its picture is on the disk only while a helper has it,   *)
(* unless a process was killed or the disk was full.                         *)
HandsOver ==
    /\ handed.marks = handed.screen
    /\ overlay = "closed" => picture # "ours"
=============================================================================
