--------------------------------- MODULE Planner ---------------------------------
(***************************************************************************)
(* The HortPlanner editor (hortplanner/static/js: engine.js, grid.js,      *)
(* history.js): machines on a world grid, containers and tools on the grid *)
(* inside a container, connections, navigation, undo and redo.  Grids have *)
(* one dimension here instead of two.  Meshes load asynchronously, so a    *)
(* drop, a redo or a resize is finished by an action of its own.           *)
(***************************************************************************)
EXTENDS Integers, SequencesExt

CONSTANTS
  MaxId,        \* bound: components ever made
  Place,        \* where the pointer lets go: machines of the world, children inside
  MaxWidth,     \* bound: cells inside a container
  MaxLevels,    \* bound: levels entered
  MaxLinks,     \* bound: connections
  MaxHistory,   \* bound: recorded actions
  MachineInner, SubInner, MinInner,   \* cells inside; the least a resize leaves
  Overlapping   \* may the user go on while meshes load?

\* What the constants have to be.
PlannerAssumption ==
  /\ {MaxId, MaxWidth, MaxLevels, MaxLinks, MachineInner, SubInner, MinInner} \subseteq Nat
  /\ Place \subseteq Nat /\ Overlapping \in BOOLEAN

Id == 1..MaxId
NoId == 0

VARIABLES
  components,   \* function of the ids that exist
  nextId,
  world,        \* cells of the world grid: set of [at, id, content]
  inner,        \* [Id -> cells of its internal grid]
  undoStack, redoStack,
  pending,      \* what waits for a mesh
  levelStack,   \* the containers entered, from the outside
  connectingFrom,
  connections,  \* set of pairs
  drag          \* <<component dragged, target>>, <<>>: none

editor == <<levelStack, connectingFrom, connections, drag>>
vars == <<components, nextId, world, inner, undoStack, redoStack, pending, editor>>

history == <<undoStack, redoStack>>
Exists(id) == id \in DOMAIN components
Container(id) == Exists(id) /\ components[id].width > 0
Machine(id) == Exists(id) /\ components[id].parent = NoId
Ready == Overlapping \/ pending = {}
Free == Ready /\ drag = <<>>   \* for the mouse; keys work during a drag too
Level == IF levelStack = <<>> THEN NoId ELSE Last(levelStack)   \* currentLevelId

-----------------------------------------------------------------------------
(* Grids                                                                   *)

Vacate(cells, id) == {c \in cells : c.id # id}

\* Content replaces what is there, the gap around it does not.
Occupy(cells, id, x, w) ==
  LET content == x .. x + w - 1
      kept    == {c \in cells : c.at \notin content}
      gap     == {x - 1, x + w} \ {c.at : c \in kept}
  IN  kept \cup {[at |-> i, id |-> id, content |-> TRUE] : i \in content}
           \cup {[at |-> i, id |-> id, content |-> FALSE] : i \in gap}

Taken(cells, x, w) == \E c \in cells : c.at \in x .. x + w - 1

\* WorldGrid.canPlace looks at the gap too, InternalGrid.canPlace at the border.
CanPlace(cells, x, w) == ~Taken(cells, x - 1, w + 2)
Fits(cells, size, x) == x \in 0 .. size - 1 /\ ~Taken(cells, x, 1)

\* InternalGrid.findSpace (children take one cell): -1 when there is none
FindSpace(cells, size) == Min({x \in 0 .. size - 1 : Fits(cells, size, x)} \cup {size}) % size
HasSpace(cells, size) == \E x \in 0 .. size - 1 : Fits(cells, size, x)

-----------------------------------------------------------------------------
(* Placing                                                                 *)

\* The Map of components with one set (Map.set).
With(f, x, v) == [y \in DOMAIN f \cup {x} |-> IF y = x THEN v ELSE f[y]]

Await(op) == pending' = pending \cup {op}
Record(a) == undoStack' = Append(undoStack, a) /\ redoStack' = <<>>

\* handleDrop of a machine on the world: the cells are looked at, then the mesh is
\* awaited.
DropMachine(x) ==
  /\ Free /\ Level = NoId /\ nextId <= MaxId
  /\ CanPlace(world, x, MachineInner)
  /\ nextId' = nextId + 1 /\ Await([op |-> "place", id |-> nextId, at |-> x, size |-> 0])
  /\ UNCHANGED <<components, world, inner, history, editor>>

\* _placeMachineHort, after the await
Placed(p) ==
  /\ p \in pending /\ p.op = "place" /\ pending' = pending \ {p}
  /\ Len(undoStack) < MaxHistory
  /\ world' = Occupy(world, p.id, p.at, MachineInner)
  /\ components' = With(components, p.id,
                        [parent |-> NoId, at |-> p.at, foot |-> MachineInner,
                         width |-> MachineInner, size |-> MachineInner, children |-> {}])
  /\ Record([type |-> "place", id |-> p.id, old |-> 0, new |-> p.at])
  /\ UNCHANGED <<nextId, inner, editor>>

Child(id, parent, slot, sub) ==
  /\ inner' = [inner EXCEPT ![parent] = Occupy(@, id, slot, 1)]
  /\ Await([op |-> "child", id |-> id, at |-> slot, size |-> IF sub THEN SubInner ELSE 0, parent |-> parent])
  /\ nextId' = nextId + 1

\* The container a drop goes to: the machine under the pointer, or the level shown
Target == IF Level = NoId THEN {c.id : c \in {d \in world : d.content}} ELSE {Level}

\* _addChild when there is space
AddChild(sub) ==
  \E p \in Target :
    /\ Free /\ nextId <= MaxId /\ Container(p) /\ HasSpace(inner[p], components[p].size)
    /\ Child(nextId, p, FindSpace(inner[p], components[p].size), sub)
    /\ UNCHANGED <<components, world, history, editor>>

\* _addChild when the container has to grow: a machine that cannot is left without
\* its cells in the world; one that can has its mesh rebuilt first.
AddGrowing(sub) ==
  \E p \in Target :
    LET c    == components[p]
        more == {n \in 1 .. MaxWidth - c.width : HasSpace(inner[p], Max({c.size, c.width + n}))}
        w    == c.width + Min(more)
        size == Max({c.size, w})
        grown == [c EXCEPT !.width = w, !.size = size]
        free  == Vacate(world, p)
    IN  /\ Free /\ nextId <= MaxId /\ Container(p) /\ ~HasSpace(inner[p], c.size) /\ more # {}
        /\ \/ /\ ~Machine(p)
              /\ components' = [components EXCEPT ![p] = grown]
              /\ Child(nextId, p, FindSpace(inner[p], size), sub) /\ world' = world
           \/ /\ Machine(p) /\ ~CanPlace(free, c.at, w)
              /\ components' = [components EXCEPT ![p] = grown] /\ world' = free
              /\ UNCHANGED <<inner, nextId, pending>>
           \/ /\ Machine(p) /\ CanPlace(free, c.at, w)
              /\ components' = [components EXCEPT ![p] = [grown EXCEPT !.foot = w]]
              /\ world' = Occupy(free, p, c.at, w)
              /\ Await([op |-> "grow", at |-> FindSpace(inner[p], size), sub |-> sub, parent |-> p])
              /\ UNCHANGED <<inner, nextId>>
        /\ UNCHANGED <<history, editor>>

\* ... and goes on with the slot found before.
Grown(p) ==
  /\ p \in pending /\ p.op = "grow" /\ nextId <= MaxId
  /\ nextId' = nextId + 1
  /\ inner' = [inner EXCEPT ![p.parent] = Occupy(@, nextId, p.at, 1)]
  /\ pending' = (pending \ {p}) \cup {[op |-> "child", id |-> nextId, at |-> p.at,
                                       size |-> IF p.sub THEN SubInner ELSE 0, parent |-> p.parent]}
  /\ UNCHANGED <<components, world, history, editor>>

Added(p) ==
  /\ p \in pending /\ p.op = "child" /\ pending' = pending \ {p}
  /\ LET adopted == [i \in DOMAIN components |->
                       IF i = p.parent THEN [components[i] EXCEPT !.children = @ \cup {p.id}]
                       ELSE components[i]]
     IN  components' = With(adopted, p.id, [parent |-> p.parent, at |-> p.at, foot |-> 1,
                                            width |-> p.size, size |-> p.size, children |-> {}])
  /\ UNCHANGED <<nextId, world, inner, history, editor>>

-----------------------------------------------------------------------------
(* Removing                                                                *)

\* Mutant: only the component goes, and not what is inside it.
Subtree_Self(id) == {id}

\* removeComponent is recursive: with the component go its children, theirs, and so on.
Closed(S) == \A i \in S \cap DOMAIN components : components[i].children \subseteq S
Subtree(id) == {i \in Id : \A S \in SUBSET Id : id \in S /\ Closed(S) => i \in S}

\* A removed component is vacated in its parent's grid and in the world.  Levels
\* entered and a connection begun are left as they are.
RemoveComponent(id) ==
  LET gone == IF Exists(id) THEN Subtree(id) ELSE {}
  IN  /\ components' = [i \in DOMAIN components \ gone |-> [components[i] EXCEPT !.children = @ \ gone]]
      /\ inner' = [i \in Id |-> {c \in inner[i] : c.id \notin gone}]
      /\ world' = {c \in world : c.id \notin gone}
      /\ connections' = {c \in connections : c[1] \notin gone /\ c[2] \notin gone}

\* deleteSelected, of whatever component is selected
Delete(id) ==
  /\ Ready /\ Exists(id) /\ RemoveComponent(id)
  /\ UNCHANGED <<nextId, history, pending, levelStack, connectingFrom, drag>>

\* clearAll (first in loadPreset), which leaves the history and what is awaited.
ClearAll ==
  /\ Free /\ components # <<>> /\ components' = <<>> /\ connections' = {}
  /\ levelStack' = <<>> /\ connectingFrom' = NoId /\ drag' = <<>> /\ world' = {}
  /\ inner' = [i \in Id |-> {}]
  /\ UNCHANGED <<nextId, history, pending>>

-----------------------------------------------------------------------------
(* Moving and resizing                                                     *)

\* WorldGrid.move and InternalGrid.move
Moved(cells, id, x, w, ok) == IF ok THEN Occupy(Vacate(cells, id), id, x, w) ELSE cells

\* pointermove with a machine in the world, or with a child in its container, which
\* grows with the child unless the world has no place
DragMachine(id, x) ==
  /\ Ready /\ Level = NoId /\ Machine(id) /\ x # components[id].at
  /\ drag' = <<id, x>>
  /\ UNCHANGED <<components, nextId, world, inner, history, pending, levelStack, connectingFrom, connections>>

DragChild(id, x) ==
  LET p == components[id].parent
      c == components[p]
      w == Max({c.width, x + 2})
      free  == Vacate(world, p)
      grows == x + 1 > c.width /\ (c.parent # NoId \/ CanPlace(free, c.at, w))
  IN  /\ Ready /\ Level # NoId /\ Exists(id) /\ p = Level /\ Exists(p) /\ w <= MaxWidth
      /\ drag' = <<id, IF grows THEN x ELSE Min({x, c.width - 1})>>
      /\ components' = IF ~grows THEN components
                       ELSE [components EXCEPT ![p] = [c EXCEPT !.width = w, !.size = Max({c.size, w}),
                               !.foot = IF c.parent = NoId THEN w ELSE c.foot]]
      /\ world' = IF grows /\ c.parent = NoId THEN Occupy(free, p, c.at, w) ELSE world
      /\ UNCHANGED <<nextId, inner, history, pending, levelStack, connectingFrom, connections>>

\* pointerup: only the move of a machine is recorded.
Release ==
  /\ drag # <<>> /\ drag' = <<>>
  /\ LET id == drag[1]
         x  == drag[2]
         c  == components[id]
         inWorld == CanPlace(Vacate(world, id), x, c.foot) /\ \E d \in world : d.id = id
         inside  == Exists(c.parent) /\ Fits(Vacate(inner[c.parent], id), components[c.parent].size, x)
     IN  IF ~Exists(id) THEN UNCHANGED <<components, world, inner, history>>
         ELSE IF c.parent = NoId
         THEN /\ world' = Moved(world, id, x, c.foot, inWorld) /\ inner' = inner
              /\ components' = IF inWorld THEN [components EXCEPT ![id].at = x] ELSE components
              /\ IF inWorld THEN /\ Len(undoStack) < MaxHistory
                                 /\ Record([type |-> "move", id |-> id, old |-> c.at, new |-> x])
                 ELSE UNCHANGED history
         ELSE /\ inner' = IF inside THEN [inner EXCEPT ![c.parent] = Moved(@, id, x, 1, TRUE)] ELSE inner
              /\ components' = IF inside THEN [components EXCEPT ![id].at = x] ELSE components
              /\ UNCHANGED <<world, history>>
  /\ UNCHANGED <<nextId, pending, levelStack, connectingFrom, connections>>

\* resizeContainer: the internal grid grows even if the world then refuses, and
\* never shrinks.
Resize(id, d) ==
  LET c == components[id]
      w == Max({MinInner, c.width + d})
      used == {x.at + 1 : x \in {y \in inner[id] : y.content}}
      free == Vacate(world, id)
      can  == c.parent # NoId \/ CanPlace(free, c.at, w)
      grid == [c EXCEPT !.size = Max({@, w})]
  IN  /\ Free /\ Container(id) /\ w # c.width /\ w <= MaxWidth /\ \A m \in used : m <= w
      /\ components' = [components EXCEPT ![id] = IF ~can THEN grid
                          ELSE [grid EXCEPT !.width = w, !.foot = IF c.parent = NoId THEN w ELSE c.foot]]
      /\ world' = IF c.parent # NoId THEN world ELSE Occupy(free, id, c.at, IF can THEN w ELSE c.width)
      /\ IF can THEN Await([op |-> "resize", id |-> id]) ELSE pending' = pending
      /\ UNCHANGED <<nextId, inner, history, editor>>

Resized(p) ==
  /\ p \in pending /\ p.op = "resize" /\ pending' = pending \ {p}
  /\ Len(undoStack) < MaxHistory
  /\ Record([type |-> "resize", id |-> p.id, old |-> 0, new |-> 0])
  /\ UNCHANGED <<components, nextId, world, inner, editor>>

-----------------------------------------------------------------------------
(* Undo and redo                                                           *)

\* _applyAction of a move: the component is put there, whatever the grid says.
Replay(id, x) ==
  LET can == CanPlace(Vacate(world, id), x, components[id].foot) /\ \E d \in world : d.id = id
  IN  IF ~Exists(id) THEN UNCHANGED <<components, world>>
      ELSE /\ world' = Moved(world, id, x, components[id].foot, can)
           /\ components' = [components EXCEPT ![id].at = x]

\* A placed machine is removed, a move is taken back, and a resize is left as it is.
Undo ==
  /\ Ready /\ undoStack # <<>>
  /\ undoStack' = Front(undoStack) /\ redoStack' = Append(redoStack, Last(undoStack))
  /\ LET a == Last(undoStack)
     IN  \/ a.type = "place" /\ RemoveComponent(a.id)
         \/ a.type = "move" /\ Replay(a.id, a.old) /\ UNCHANGED <<inner, connections>>
         \/ a.type = "resize" /\ UNCHANGED <<components, world, inner, connections>>
  /\ UNCHANGED <<nextId, pending, levelStack, connectingFrom, drag>>

\* A machine placed again is a new component, and recorded once more.
Redo ==
  /\ Ready /\ redoStack # <<>>
  /\ redoStack' = Front(redoStack) /\ undoStack' = Append(undoStack, Last(redoStack))
  /\ LET a == Last(redoStack)
     IN  \/ /\ a.type = "place" /\ nextId <= MaxId /\ nextId' = nextId + 1
            /\ Await([op |-> "place", id |-> nextId, at |-> a.new, size |-> 0])
            /\ UNCHANGED <<components, world>>
         \/ a.type = "move" /\ Replay(a.id, a.new) /\ UNCHANGED <<nextId, pending>>
         \/ a.type = "resize" /\ UNCHANGED <<components, world, nextId, pending>>
  /\ UNCHANGED <<inner, editor>>

-----------------------------------------------------------------------------
(* Levels and connections                                                  *)

Shown(id) == Exists(id) /\ Level \in {NoId, components[id].parent}

Enter(id) ==
  /\ Free /\ Shown(id) /\ Container(id) /\ Len(levelStack) < MaxLevels /\ levelStack' = Append(levelStack, id)
  /\ UNCHANGED <<components, nextId, world, inner, history, pending, connectingFrom, connections, drag>>

Exit ==
  /\ Free /\ levelStack # <<>> /\ levelStack' = Front(levelStack)
  /\ UNCHANGED <<components, nextId, world, inner, history, pending, connectingFrom, connections, drag>>

\* A click on a port begins a connection or ends it, one elsewhere cancels it.
ClickPort(id) ==
  /\ Free /\ Shown(id) /\ Cardinality(connections) < MaxLinks
  /\ connectingFrom' = IF connectingFrom = NoId THEN id ELSE NoId
  /\ connections' = IF connectingFrom \in {NoId, id} THEN connections
                    ELSE connections \cup {<<connectingFrom, id>>}
  /\ UNCHANGED <<components, nextId, world, inner, history, pending, levelStack, drag>>

CancelConnection ==
  /\ Free /\ connectingFrom # NoId /\ connectingFrom' = NoId
  /\ UNCHANGED <<components, nextId, world, inner, history, pending, levelStack, connections, drag>>

RemoveConnection(c) ==
  /\ Free /\ c \in connections /\ connections' = connections \ {c}
  /\ UNCHANGED <<components, nextId, world, inner, history, pending, levelStack, connectingFrom, drag>>

-----------------------------------------------------------------------------
Init ==
  /\ components = <<>> /\ nextId = 1 /\ world = {} /\ inner = [i \in Id |-> {}]
  /\ undoStack = <<>> /\ redoStack = <<>> /\ pending = {}
  /\ levelStack = <<>> /\ connectingFrom = NoId /\ connections = {} /\ drag = <<>>

Next ==
  \/ \E x \in Place : DropMachine(x)
  \/ \E sub \in BOOLEAN : AddChild(sub) \/ AddGrowing(sub)
  \/ \E p \in pending : Placed(p) \/ Grown(p) \/ Added(p) \/ Resized(p)
  \/ \E id \in Id : \/ Delete(id) \/ Enter(id) \/ ClickPort(id)
                    \/ \E x \in Place : DragMachine(id, x) \/ DragChild(id, x)
                    \/ \E d \in {-1, 1} : Resize(id, d)
  \/ ClearAll \/ Release \/ Undo \/ Redo \/ Exit \/ CancelConnection
  \/ \E c \in connections : RemoveConnection(c)

Spec == Init /\ [][Next]_vars

-----------------------------------------------------------------------------
\* Identifiers in use have been given out, and both histories hold snapshots of the plan.
PlannerTypeOK ==
  /\ DOMAIN components \subseteq Id /\ nextId \in 1 .. MaxId + 1
  /\ connectingFrom \in Id \cup {NoId}
  /\ connections \subseteq Id \X Id

\* However components are dropped, moved, removed, undone and redone: parents and
\* children agree, and the cells of a container are those of its children, each
\* with a place of its own (engine.js:1067-1128, 1307-1342).
WholeTree ==
  /\ \A i \in DOMAIN components :
       /\ components[i].parent # NoId => Exists(components[i].parent) /\ i \in components[components[i].parent].children
       /\ \A j \in components[i].children :
            Exists(j) /\ components[j].parent = i
            /\ [at |-> components[j].at, id |-> j, content |-> TRUE] \in inner[i]
  /\ \A i \in Id : \A c \in inner[i] :
       c.content => \/ c.id \in DOMAIN components /\ components[c.id].at = c.at
                    \/ \E p \in pending : p.op = "child" /\ p.id = c.id
=============================================================================
