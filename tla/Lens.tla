-------------------------------- MODULE Lens --------------------------------
(***************************************************************************)
(* The desktop as agents see it and act on it:                             *)
(* llmings/core/llming_lens/llming_lens.py over hort/windows.py,           *)
(* hort/screen.py and hort/input.py.                                       *)
(*                                                                         *)
(* There is one LlmingLens for every agent and chat.  Its powers are plain *)
(* functions that the event loop calls and waits for, so two calls never   *)
(* overlap; the preview is captured by a job in an executor thread.        *)
(*                                                                         *)
(* A region of a picture is the path of cells that leads to it: <<>> is    *)
(* the whole picture, <<p, q>> the cell q of the cell p.                   *)
(***************************************************************************)
EXTENDS Naturals, Sequences, SequencesExt

CONSTANTS Client,    \* who calls the powers
          Window,    \* windows there may be
          Desktop,   \* the virtual window of the whole screen
          Cell,      \* cells of the 4x4 grid
          Given,     \* a region the caller spells out
          MaxDepth,  \* bound: cells zoomed into
          MaxKeys,   \* bound: characters of a text
          None

\* What the constants have to be.
LensAssumption ==
  /\ Desktop \notin Window /\ Given \notin Cell
  /\ MaxDepth \in Nat /\ None \notin BoundedSeq(Cell \cup {Given}, MaxDepth)

VARIABLES
  open,     \* windows the system lists
  front,    \* the window that is in front
  user,     \* somebody has used mouse or keyboard within 1.5 s
  grid,     \* _last_grid_region
  got,      \* client -> its last screenshot
  zoomed,   \* the last zoom into a cell: the picture it started from, and the outcome
  typing,   \* characters type_text has left
  landed,   \* windows that received a click or a key
  shooting, \* capture_preview(): what it has captured so far, or None
  preview   \* _preview: the windows on the card

vars == <<open, front, user, grid, got, zoomed, typing, landed, shooting, preview>>

Picture == [of : Window \cup {Desktop}, path : Seq(Cell \cup {Given}), grid : BOOLEAN]

Init ==
  /\ open = Window /\ front = None /\ user = FALSE
  /\ grid = None /\ got = [c \in Client |-> None] /\ zoomed = None
  /\ typing = 0 /\ landed = {} /\ shooting = None /\ preview = {}

\* The event loop is free: type_text() sleeps between two characters.
Free == typing = 0

-----------------------------------------------------------------------------
(* The desktop                                                             *)

Opens(w) ==
  /\ w \notin open
  /\ open' = open \cup {w}
  /\ UNCHANGED <<front, user, grid, got, zoomed, typing, landed, shooting, preview>>

Closes(w) ==
  /\ w \in open
  /\ open' = open \ {w} /\ front' = IF front = w THEN None ELSE front
  /\ UNCHANGED <<user, grid, got, zoomed, typing, landed, shooting, preview>>

UserActs ==
  /\ user' = ~user
  /\ \E w \in open \cup {front} : front' = IF user' THEN w ELSE front
  /\ UNCHANGED <<open, grid, got, zoomed, typing, landed, shooting, preview>>

-----------------------------------------------------------------------------
(* Looking                                                                 *)

\* list_windows(): the desktop, and what the system shows of windows with a
\* name, a size and a Space.
Listed == {Desktop} \cup open

\* An ID of no window is kept as it is, and the capture of it fails.
Captured(target) == target \in Listed

\* The region of a screenshot: a cell is looked for in the region of the last
\* grid, and goes before a region the caller gives.
Region(cell, region) ==
  IF cell = None THEN region
  ELSE Append(IF grid = None THEN <<>> ELSE grid, cell)

\* Mutant: the cell itself is kept, not where it lies.
Kept_Cell(lines, path) ==
  IF lines THEN (IF path = <<>> THEN path ELSE <<Last(path)>>) ELSE None

\* What is remembered of a screenshot: its region, if lines were drawn on it.
Kept(lines, path) == IF lines THEN path ELSE None

Screenshot(c, target, cell, region, lines) ==
  /\ Free /\ Captured(target)
  /\ LET path == Region(cell, region)
     IN /\ Len(path) <= MaxDepth
        /\ grid' = Kept(lines, path)
        /\ got' = [got EXCEPT ![c] = [of |-> target, path |-> path, grid |-> lines]]
        /\ zoomed' = IF cell = None \/ got[c] = None THEN zoomed
                     ELSE [from |-> got[c], of |-> target, cell |-> cell, path |-> path]
  /\ UNCHANGED <<open, front, user, typing, landed, shooting, preview>>

\* /screenshot of a chat, or one of the buttons under /windows: the whole
\* window, whatever the agents look at.
CmdScreenshot(c, target) ==
  /\ Free /\ Captured(target)
  /\ got' = [got EXCEPT ![c] = [of |-> target, path |-> <<>>, grid |-> FALSE]]
  /\ UNCHANGED <<open, front, user, grid, zoomed, typing, landed, shooting, preview>>

-----------------------------------------------------------------------------
(* Acting                                                                  *)

\* handle_input(): the application is activated and its window raised before a
\* click; one on the desktop has no application and meets whatever is in front.
Raised(target) == IF target = Desktop THEN front ELSE target

Click(target) ==
  /\ Free /\ ~user /\ Captured(target)
  /\ front' = Raised(target)
  /\ landed' = landed \cup ({front'} \ {None})
  /\ UNCHANGED <<open, user, grid, got, zoomed, typing, shooting, preview>>

\* type_text() looks for the user once, before the first character.
TypeText(n) ==
  /\ Free /\ ~user /\ n \in 1..MaxKeys
  /\ typing' = n
  /\ UNCHANGED <<open, front, user, grid, got, zoomed, landed, shooting, preview>>

TypesOn ==
  /\ typing > 0
  /\ typing' = typing - 1 /\ landed' = landed \cup ({front} \ {None})
  /\ UNCHANGED <<open, front, user, grid, got, zoomed, shooting, preview>>

PressKey ==
  /\ Free /\ ~user
  /\ landed' = landed \cup ({front} \ {None})
  /\ UNCHANGED <<open, front, user, grid, got, zoomed, typing, shooting, preview>>

-----------------------------------------------------------------------------
(* The card's preview, a job every 3 s                                     *)

\* The desktop, then the windows list_windows() finds now.
ShootDesktop ==
  /\ shooting = None
  /\ shooting' = [left |-> Listed \ {Desktop}, done |-> {}]
  /\ UNCHANGED <<open, front, user, grid, got, zoomed, typing, landed, preview>>

\* One closed since then gives no picture and is left out.
ShootWindow(w) ==
  /\ shooting # None /\ w \in shooting.left
  /\ shooting' = [left |-> shooting.left \ {w},
                  done |-> shooting.done \cup ({w} \cap open)]
  /\ UNCHANGED <<open, front, user, grid, got, zoomed, typing, landed, preview>>

ShowPreview ==
  /\ shooting # None /\ shooting.left = {}
  /\ preview' = shooting.done /\ shooting' = None
  /\ UNCHANGED <<open, front, user, grid, got, zoomed, typing, landed>>

-----------------------------------------------------------------------------
Next ==
  \/ \E w \in Window : Opens(w) \/ Closes(w) \/ ShootWindow(w)
  \/ UserActs \/ TypesOn \/ PressKey \/ ShootDesktop \/ ShowPreview
  \/ \E c \in Client, t \in Window \cup {Desktop}, p \in Cell \cup {None},
        r \in {<<>>, <<Given>>}, g \in BOOLEAN : Screenshot(c, t, p, r, g)
  \/ \E c \in Client, t \in Window \cup {Desktop} : CmdScreenshot(c, t) \/ Click(t)
  \/ \E n \in 1..MaxKeys : TypeText(n)

Spec == Init /\ [][Next]_vars

-----------------------------------------------------------------------------
(* Properties                                                              *)

\* Windows, focus and the coordinates of the last picture have their shape.
LensTypeOK ==
  /\ open \subseteq Window /\ front \in Window \cup {None}
  /\ {user} \subseteq BOOLEAN /\ typing \in 0..MaxKeys
  /\ grid \in {None} \cup BoundedSeq(Cell \cup {Given}, MaxDepth)
  /\ \A c \in Client : got[c] # None => got[c].of \in Window \cup {Desktop}
  /\ landed \subseteq Window /\ preview \subseteq Window

\* An agent that has the labelled grid before its eyes and zooms into a cell of
\* it gets that cell, however deep it has zoomed already, and whatever else was
\* clicked, typed, closed or captured for the card in between.
ZoomShowsTheCell ==
  zoomed # None /\ zoomed.from.grid /\ zoomed.of = zoomed.from.of
    => zoomed.path = Append(zoomed.from.path, zoomed.cell)
=============================================================================
