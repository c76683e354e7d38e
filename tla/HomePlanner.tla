---------------------------- MODULE HomePlanner ----------------------------
(* The home planner of subprojects/hortplanner: walls, openings and          *)
(* furniture on several floors (static/js/grid-home.js), the engine that     *)
(* draws them and handles the pointer (engine-home.js), and the page around  *)
(* it (index.html).  Furniture is drawn asynchronously: every edit throws    *)
(* the drawn pieces away and loads the models of all pieces again, and the   *)
(* handlers continue once theirs are loaded.                                 *)
(*                                                                           *)
(* A piece stands in a row of spots; straight it covers one, turned by       *)
(* anything but 180 degrees also the two beside it.  A wall edge is          *)
(* <<x, z, orientation>>.  Cameras, materials and rooms are left out.        *)
EXTENDS Integers, Sequences, FiniteSets, Functions

CONSTANTS
    Floor,        \* floor indices, 0 the ground floor
    Edge,         \* the wall edges the user points at
    Spot,         \* where furniture is put
    Preset,       \* presets: functions from floors to the spots furnished
    Width,        \* OPENING_WIDTHS: from door and window tools to cells
    MaxEdits,     \* bound: edits (each rebuilds the drawing)
    Patient,      \* the user acts only when the drawing is complete
    None

(* What the constants have to be.                                            *)
HomePlannerAssumption ==
    /\ Floor \subseteq Nat /\ 0 \in Floor /\ MaxEdits \in Nat
    /\ \A p \in Preset : /\ DOMAIN p \subseteq Floor /\ IsFiniteSet(DOMAIN p)
                        /\ \A f \in DOMAIN p : p[f] \in Seq(Int)

VARIABLES
    order,     \* the floors there are, in the order they were added
    walls,     \* per floor, from edges to "wall" or an opening's type
    furn,      \* per floor, from ids to [at, rot] (rot in eighths)
    nextId,    \* HomeGrid._nextFurnId
    active,    \* HomeGrid.activeFloor
    tool, sel, drag, stroke, pan,  \* the engine: _activeTool, _selectedFurnId,
                                   \* _isDragging, _wallDrawMode, controls.enabled
    drawn,     \* the edges whose walls are in the scene
    scene,     \* the furniture meshes in the scene: <<id, rebuild>>
    meshes,    \* _furnitureMeshes: from ids to meshes
    tasks,     \* the rebuilds that wait for models, and what follows them
    serial,    \* edits so far
    panel, shown, list  \* the page: selected, activeFloor, floorList

vars == <<order, walls, furn, nextId, active, tool, sel, drag, stroke, pan,
          drawn, scene, meshes, tasks, serial, panel, shown, list>>
home == <<order, walls, furn, nextId, active>>
picture == <<drawn, scene, meshes, tasks, serial>>
page == <<panel, shown, list>>

Empty == << >>   \* the function with no argument

Init ==
    /\ order = <<0>>
    /\ walls = [f \in Floor |-> Empty]
    /\ furn = [f \in Floor |-> Empty]
    /\ nextId = 1 /\ active = 0
    /\ tool = None /\ sel = None /\ drag = FALSE /\ stroke = None /\ pan = TRUE
    /\ drawn = {} /\ scene = {} /\ meshes = Empty /\ tasks = {} /\ serial = 0
    /\ panel = None /\ shown = 0 /\ list = {0}

With(f, x, v) == [y \in DOMAIN f \cup {x} |-> IF y = x THEN v ELSE f[y]]
But(f, x) == [y \in DOMAIN f \ {x} |-> f[y]]

Acts == Patient => tasks = {}

(* _rotatedBB and _bbOverlap, _checkFurnitureCollision on the active floor.  *)
Covers(at, rot) == IF rot % 4 = 0 THEN {at} ELSE (at - 1)..(at + 1)
Collides(at, rot, except) ==
    \E i \in DOMAIN furn[active] \ {except} :
      Covers(at, rot) \cap Covers(furn[active][i].at, furn[active][i].rot) # {}

(* _rebuildWallMeshes(): runs of walls and openings, every edge in one.      *)
Drawn(w) == DOMAIN w

(* _rebuildAll(): the walls at once; the pieces drawn are thrown away and    *)
(* the models of all pieces asked for.                                       *)
Cleared_Selected(ms) == scene \ {ms[i] : i \in DOMAIN ms \cap {sel}}
Cleared(ms) == scene \ Range(ms)

Rebuild(ms, walls2, furn2, then, id) ==
    /\ serial < MaxEdits /\ serial' = serial + 1
    /\ drawn' = Drawn(walls2)
    /\ scene' = Cleared(ms) /\ meshes' = Empty
    /\ tasks' = tasks \cup {[n |-> serial + 1, left |-> DOMAIN furn2,
                             then |-> then, id |-> id]}

(* A model is loaded, or replaced by a box.                                  *)
Loaded(t, i) ==
    /\ t.then # "preset" /\ i \in t.left
    /\ scene' = scene \cup {<<i, t.n>>}
    /\ meshes' = With(meshes, i, <<i, t.n>>)
    /\ tasks' = (tasks \ {t}) \cup {[t EXCEPT !.left = @ \ {i}]}
    /\ UNCHANGED <<home, tool, sel, drag, stroke, pan, drawn, serial, page>>

(* All of them: the selection is kept if it is drawn, and the handler that   *)
(* asked for the rebuild goes on.                                            *)
Complete(t) ==
    /\ t.then # "preset" /\ t.left = {}
    /\ tasks' = tasks \ {t}
    /\ LET kept == IF sel \in DOMAIN meshes THEN sel ELSE None IN
       /\ sel' = IF t.then = "place" THEN t.id ELSE kept
       /\ panel' = CASE t.then = "place" ->
                          IF t.id \in DOMAIN furn[active] THEN t.id ELSE panel
                     [] t.then = "turn" -> kept
                     [] OTHER -> panel
    /\ pan' = (pan /\ t.then # "wall")
    /\ shown' = CASE t.then = "floor" -> t.id
                  [] t.then = "loaded" -> active
                  [] OTHER -> shown
    /\ UNCHANGED <<home, tool, drag, stroke, drawn, scene, meshes, serial, list>>

(* setTool(): the same tool again puts it away.                              *)
PickTool(x) ==
    /\ Acts
    /\ tool' = IF tool = x THEN None ELSE x
    /\ panel' = IF tool = x THEN panel ELSE None
    /\ UNCHANGED <<home, sel, drag, stroke, pan, picture, shown, list>>

SetWalls(es, type) ==
    walls' = [walls EXCEPT ![active] =
                [e \in DOMAIN @ \cup es |-> IF e \in es THEN type ELSE @[e]]]

(* Pointer down with the wall tool: a wall there is taken away, else one is  *)
(* built, and the stroke goes on that way.                                   *)
StartWall(e) ==
    /\ Acts /\ tool = "wall"
    /\ IF e \in DOMAIN walls[active]
         THEN /\ stroke' = "remove"
              /\ walls' = [walls EXCEPT ![active] = But(@, e)]
         ELSE stroke' = "add" /\ SetWalls({e}, "wall")
    /\ Rebuild(meshes, walls'[active], furn[active], "wall", None)
    /\ UNCHANGED <<order, furn, nextId, active, tool, sel, drag, pan, page>>

DragWall(e) ==
    /\ Acts /\ tool = "wall" /\ stroke # None
    /\ IF stroke = "remove" THEN walls' = [walls EXCEPT ![active] = But(@, e)]
                            ELSE SetWalls({e}, "wall")
    /\ Rebuild(meshes, walls'[active], furn[active], "nothing", None)
    /\ UNCHANGED <<order, furn, nextId, active, tool, sel, drag, stroke, pan, page>>

(* Doors and windows span several edges, whatever is or is not there.        *)
Span(e, n) ==
    {<<IF e[3] = "h" THEN e[1] + i ELSE e[1],
       IF e[3] = "v" THEN e[2] + i ELSE e[2], e[3]>> : i \in 0..(n - 1)}

Open(e) ==
    /\ Acts /\ tool \in DOMAIN Width
    /\ SetWalls(Span(e, Width[tool]), tool)
    /\ Rebuild(meshes, walls'[active], furn[active], "nothing", None)
    /\ UNCHANGED <<order, furn, nextId, active, tool, sel, drag, stroke, pan, page>>

(* HomeGrid.addFurniture(): ids come from the grid's own counter.            *)
Place(x) ==
    /\ Acts /\ tool = "furniture" /\ ~Collides(x, 0, None)
    /\ nextId' = nextId + 1
    /\ furn' = [furn EXCEPT ![active] = With(@, nextId, [at |-> x, rot |-> 0])]
    /\ Rebuild(meshes, walls[active], furn'[active], "place", nextId)
    /\ UNCHANGED <<order, walls, active, tool, sel, drag, stroke, pan, page>>

(* Pointer down on a drawn piece selects it, and drags it if it is a piece   *)
(* of the active floor; anywhere else deselects.                             *)
Pick(m) ==
    /\ Acts /\ tool = None
    /\ sel' = m[1]
    /\ IF m[1] \in DOMAIN furn[active]
         THEN panel' = m[1] /\ drag' = TRUE /\ pan' = FALSE
         ELSE UNCHANGED <<panel, drag, pan>>
    /\ UNCHANGED <<home, tool, stroke, picture, shown, list>>

PickNothing ==
    /\ Acts /\ tool = None
    /\ sel' = None /\ panel' = None
    /\ UNCHANGED <<home, tool, drag, stroke, pan, picture, shown, list>>

Drag(x) ==
    /\ drag /\ sel \in DOMAIN furn[active]
    /\ ~Collides(x, furn[active][sel].rot, sel)
    /\ furn' = [furn EXCEPT ![active][sel].at = x]
    /\ UNCHANGED <<order, walls, nextId, active, tool, sel, drag, stroke, pan,
                   picture, page>>

PointerUp ==
    /\ drag \/ stroke # None
    /\ drag => Acts
    /\ drag' = FALSE /\ stroke' = None /\ pan' = TRUE
    /\ IF drag THEN Rebuild(meshes, walls[active], furn[active], "nothing", None)
               ELSE UNCHANGED picture
    /\ UNCHANGED <<home, tool, sel, page>>

(* rotateSelected() and flipSelected().                                      *)
Turn(by) ==
    /\ Acts /\ sel \in DOMAIN furn[active]
    /\ furn' = [furn EXCEPT ![active][sel].rot = (@ + by) % 8]
    /\ Rebuild(meshes, walls[active], furn'[active], "turn", None)
    /\ UNCHANGED <<order, walls, nextId, active, tool, sel, drag, stroke, pan, page>>

(* HomeGrid.removeFurniture(): the first floor that has the id.              *)
Holder(i) == SelectSeq(order, LAMBDA f : i \in DOMAIN furn[f])

(* deleteSelected() of the page, removeSelected() of the engine.             *)
Delete ==
    /\ Acts /\ panel # None /\ panel' = None
    /\ IF sel = None THEN UNCHANGED <<furn, sel, picture>>
       ELSE /\ furn' = IF Holder(sel) = << >> THEN furn
                       ELSE [furn EXCEPT ![Holder(sel)[1]] = But(@, sel)]
            /\ sel' = None
            /\ Rebuild(meshes, walls[active], furn'[active], "nothing", None)
    /\ UNCHANGED <<order, walls, nextId, active, tool, drag, stroke, pan, shown, list>>

(* setFloor(): an index that is not there any more changes nothing but what  *)
(* the page shows.                                                           *)
SetFloor(f) ==
    /\ Acts /\ f \in list
    /\ active' = IF f \in Range(order) THEN f ELSE active
    /\ sel' = None /\ panel' = None /\ shown' = f
    /\ Rebuild(meshes, walls[active'], furn[active'], "floor", f)
    /\ UNCHANGED <<order, walls, furn, nextId, tool, drag, stroke, pan, list>>

AddFloor ==
    /\ Acts
    /\ LET f == 1 + CHOOSE g \in Range(order) : \A h \in Range(order) : h <= g IN
       /\ f \in Floor
       /\ order' = Append(order, f) /\ active' = f /\ shown' = f
       /\ list' = Range(order')
       /\ Rebuild(meshes, walls[f], furn[f], "floor", f)
    /\ sel' = None /\ panel' = None
    /\ UNCHANGED <<walls, furn, nextId, tool, drag, stroke, pan>>

(* loadPreset() of the page: the engine first waits for its manifest, so the *)
(* floors the page lists are those from before.                              *)
AskPreset(p) ==
    /\ Acts /\ serial < MaxEdits
    /\ tasks' = tasks \cup {[n |-> 0, left |-> {}, then |-> "preset", id |-> p]}
    /\ list' = Range(order)
    /\ UNCHANGED <<home, tool, sel, drag, stroke, pan, drawn, scene, meshes,
                   serial, panel, shown>>

(* The ids of a preset's pieces: each floor counts for itself, from the      *)
(* counter of the new HomeGrid, which stays where it is.                     *)
Furnished(spots) == [i \in 1..Len(spots) |-> [at |-> spots[i], rot |-> 0]]

(* The floors of a preset above the ground floor, in ascending order.        *)
IsAscending(s) == \A i, j \in DOMAIN s : i < j => s[i] < s[j]
Upper(p) ==
    LET fs == DOMAIN p \ {0}
    IN  {s \in [1..Cardinality(fs) -> fs] : IsAscending(s)}

(* loadPreset() of the engine: clearAll, the floors, a rebuild.              *)
LoadPreset(t) ==
    /\ t.then = "preset"
    /\ LET p == t.id
           fs == {0} \cup DOMAIN p
           low == CHOOSE f \in fs : \A g \in fs : f <= g IN
       /\ \E s \in Upper(p) : order' = <<0>> \o s
       /\ walls' = [f \in Floor |-> IF f \in DOMAIN p
                                      THEN [e \in Edge |-> "wall"] ELSE Empty]
       /\ furn' = [f \in Floor |-> IF f \in DOMAIN p THEN Furnished(p[f]) ELSE Empty]
       /\ nextId' = 1 /\ active' = low
       /\ serial < MaxEdits /\ serial' = serial + 1
       /\ drawn' = Drawn(walls'[low])
       /\ scene' = Cleared(meshes) /\ meshes' = Empty
       /\ tasks' = (tasks \ {t}) \cup {[n |-> serial + 1, left |-> DOMAIN furn'[low],
                                        then |-> "loaded", id |-> None]}
    /\ sel' = None /\ panel' = None
    /\ UNCHANGED <<tool, drag, stroke, pan, shown, list>>

Next ==
    \/ \E t \in tasks : Complete(t) \/ LoadPreset(t) \/ \E i \in t.left : Loaded(t, i)
    \/ \E x \in {"wall", "furniture"} \cup DOMAIN Width : PickTool(x)
    \/ \E e \in Edge : StartWall(e) \/ DragWall(e) \/ Open(e)
    \/ \E x \in Spot : Place(x) \/ Drag(x)
    \/ \E m \in scene : Pick(m)
    \/ PickNothing \/ PointerUp \/ Turn(1) \/ Turn(4) \/ Delete
    \/ \E f \in list : SetFloor(f)
    \/ AddFloor
    \/ \E p \in Preset : AskPreset(p)

Spec == Init /\ [][Next]_vars

-----------------------------------------------------------------------------
(* Type correctness.                                                         *)
HomePlannerTypeOK ==
    /\ active \in Range(order) /\ Range(order) \subseteq Floor
    /\ nextId \in Nat /\ serial \in 0..MaxEdits
    /\ sel \in Nat \cup {None} /\ drag \in BOOLEAN /\ pan \in BOOLEAN
    /\ stroke \in {None, "add", "remove"}
    /\ \A i \in DOMAIN meshes : meshes[i] \in scene
    /\ \A t \in tasks : t.n <= serial

(* When nothing is being loaded, the scene shows the active floor: its       *)
(* walls, and every piece of it exactly once.  About _rebuildAll, which      *)
(* every edit calls, and the awaits in it.                                   *)
SceneShowsFloor ==
    tasks = {} =>
      /\ drawn = DOMAIN walls[active]
      /\ {m[1] : m \in scene} = DOMAIN furn[active]
      /\ Cardinality(scene) = Cardinality(DOMAIN furn[active])

(* Placing a piece takes none away.  About HomeGrid.addFurniture.            *)
PlacingKeeps ==
    [][nextId' = nextId + 1 =>
         Cardinality(DOMAIN furn'[active]) = Cardinality(DOMAIN furn[active]) + 1]_vars
=============================================================================
