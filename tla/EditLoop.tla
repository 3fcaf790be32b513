------------------------------ MODULE EditLoop ------------------------------
(***************************************************************************)
(* Editing a scene: one frame of the engine (Engine::frame) as a sequence  *)
(* of steps, and what mouse events between frames make of it.  A click may *)
(* be taken by the user interface, by the gizmo, by the icon of a light or *)
(* by the scene under it; a drag of the gizmo and the inspector both write *)
(* the transform of the selected entity through the command stream, each   *)
(* from a copy of its own that it took when the entity was selected.       *)
(*                                                                         *)
(* The layers see the actions of a frame from top to bottom (debug, edit,  *)
(* gizmo, stage, scene), until one of them says it consumed them: then the *)
(* layers below see none of that frame's actions.                          *)
(*                                                                         *)
(* A transform is a record of two fields: the position, and the rotation   *)
(* and scale as one.  The camera, the BVH and the icons of lights are      *)
(* known by when they were made: for the picture that is on the screen, or *)
(* for the next one.                                                       *)
(***************************************************************************)
EXTENDS Naturals, Sequences

CONSTANTS
    Entities,   \* the entities that can be selected
    NoEntity,   \* ecs::ctx::invalid_entity
    Numbers     \* the values of a field of a transform

ASSUME EntitiesAssumption == NoEntity \notin Entities
ASSUME NumbersAssumption == Numbers # {}

SE == INSTANCE SequencesExt

Transforms == [position : Numbers, form : Numbers]
Made == {"never", "shown", "next"}      \* when something was made

VARIABLES
    pc,         \* where the frame is; "idle" between frames
    mouse,      \* the left button and the pointer, as InputState has them
    actions,    \* the actions of the frame that the layers look at
    transform,  \* TransformComponent of every entity
    gizmo,      \* m_entity, m_position/m_rotation/m_scale, m_active
    inspector,  \* m_inspector_state.selection
    commands,   \* CmdStream
    events,     \* EventQueue
    view,       \* m_scene_ctx.draw_view
    tlas,       \* the BVH over the submeshes of the scene
    icons,      \* StageLayer::m_pick_proxies
    pick,       \* m_pick_ctx; "on" is history: the BVH the ray was cast on
    writers,    \* history: who wrote the transform since it was copied
    swallowed   \* history: the last GizmoEnd did not reach the gizmo

inputVars == <<mouse, actions>>
editVars == <<gizmo, inspector>>
queueVars == <<commands, events>>
screenVars == <<view, tlas, icons>>
historyVars == <<writers, swallowed>>
vars == <<pc, inputVars, transform, editVars, queueVars, screenVars, pick, historyVars>>

NoActions == [click |-> FALSE, update |-> FALSE, end |-> FALSE]

Init ==
    /\ pc = "idle"
    /\ mouse = [held |-> FALSE, press |-> FALSE, release |-> FALSE, moved |-> FALSE]
    /\ actions = NoActions
    /\ transform \in [Entities -> Transforms]
    /\ \E t \in Transforms :
          /\ gizmo = [entity |-> NoEntity, transform |-> t, active |-> FALSE]
          /\ inspector = [entity |-> NoEntity, transform |-> t]
    /\ commands = <<>> /\ events = <<>>
    /\ view = "never" /\ tlas = "never" /\ icons = "never"
    /\ pick = [pending |-> FALSE, ray |-> "never", on |-> "never"]
    /\ writers = {}
    /\ swallowed = FALSE

-----------------------------------------------------------------------------
(***************************************************************************)
(* Between frames: handle_event                                            *)
(***************************************************************************)

MouseDown ==
    /\ pc = "idle" /\ ~mouse.held
    /\ mouse' = [mouse EXCEPT !.held = TRUE, !.press = TRUE]
    /\ UNCHANGED <<pc, actions, transform, editVars, queueVars, screenVars, pick, historyVars>>

MouseUp ==
    /\ pc = "idle" /\ mouse.held
    /\ mouse' = [mouse EXCEPT !.held = FALSE, !.release = TRUE]
    /\ UNCHANGED <<pc, actions, transform, editVars, queueVars, screenVars, pick, historyVars>>

MouseMove ==
    /\ pc = "idle" /\ ~mouse.moved
    /\ mouse' = [mouse EXCEPT !.moved = TRUE]
    /\ UNCHANGED <<pc, actions, transform, editVars, queueVars, screenVars, pick, historyVars>>

-----------------------------------------------------------------------------
(***************************************************************************)
(* The actions of a frame, layer by layer                                  *)
(***************************************************************************)

\* InputMapper::map, and clear_mouse_delta after it.
MapInput ==
    /\ pc = "idle"
    /\ pc' = "debugActions"
    /\ actions' = [click |-> mouse.press,
                   update |-> mouse.held /\ mouse.moved,
                   end |-> mouse.release]
    /\ mouse' = [mouse EXCEPT !.moved = FALSE]
    /\ swallowed' = (swallowed \/ mouse.release)
    /\ UNCHANGED <<transform, editVars, queueVars, screenVars, pick, writers>>

\* Any of the keys of the debug layer consumes the actions of the frame.
DebugActions(consumed) ==
    /\ pc = "debugActions"
    /\ pc' = IF consumed THEN "beginUpdate" ELSE "editActions"
    /\ UNCHANGED <<inputVars, transform, editVars, queueVars, screenVars, pick, historyVars>>

\* A click over the user interface is its own.
EditActions(wantsMouse) ==
    /\ pc = "editActions"
    /\ pc' = IF actions.click /\ wantsMouse THEN "beginUpdate" ELSE "gizmoActions"
    /\ UNCHANGED <<inputVars, transform, editVars, queueVars, screenVars, pick, historyVars>>

Selected == gizmo.entity # NoEntity

\* A click on a handle of the gizmo starts a drag.
GizmoStart ==
    /\ pc = "gizmoActions"
    /\ actions.click /\ Selected
    /\ pc' = "beginUpdate"
    /\ gizmo' = [gizmo EXCEPT !.active = TRUE]
    /\ UNCHANGED <<inputVars, transform, inspector, queueVars, screenVars, pick, historyVars>>

\* Mutant: the gizmo forgets to move itself with the entity.
GizmoDragCommandOnly(t) ==
    /\ pc = "gizmoActions"
    /\ actions.update /\ gizmo.active /\ Selected
    /\ t.position = gizmo.transform.position \/ t.form = gizmo.transform.form
    /\ pc' = "beginUpdate"
    /\ commands' = Append(commands, [by |-> "gizmo", entity |-> gizmo.entity, transform |-> t])
    /\ UNCHANGED <<inputVars, transform, editVars, events, screenVars, pick, historyVars>>

\* A motion while a drag is active writes one of the two fields.
GizmoDrag(t) ==
    /\ pc = "gizmoActions"
    /\ actions.update /\ gizmo.active /\ Selected
    /\ t.position = gizmo.transform.position \/ t.form = gizmo.transform.form
    /\ pc' = "beginUpdate"
    /\ gizmo' = [gizmo EXCEPT !.transform = t]
    /\ commands' = Append(commands, [by |-> "gizmo", entity |-> gizmo.entity, transform |-> t])
    /\ UNCHANGED <<inputVars, transform, inspector, events, screenVars, pick, historyVars>>

\* Mutant: the end of a drag is not noticed.
GizmoPassKeepDrag ==
    /\ pc = "gizmoActions"
    /\ ~(actions.update /\ gizmo.active /\ Selected)
    /\ pc' = "stageActions"
    /\ swallowed' = (swallowed /\ ~actions.end)
    /\ UNCHANGED <<inputVars, transform, editVars, queueVars, screenVars, pick, writers>>

\* A click beside the gizmo, a motion without a drag, and the end of a drag
\* are left to the layers below.
GizmoPass ==
    /\ pc = "gizmoActions"
    /\ ~(actions.update /\ gizmo.active /\ Selected)
    /\ pc' = "stageActions"
    /\ gizmo' = [gizmo EXCEPT !.active = @ /\ ~actions.end]
    /\ swallowed' = (swallowed /\ ~actions.end)
    /\ UNCHANGED <<inputVars, transform, inspector, queueVars, screenVars, pick, writers>>

\* A SelectionChangedEvent carries a copy of the transform.
SelectionChanged(e) ==
    [entity |-> e, transform |-> IF e \in Entities THEN transform[e] ELSE
        [position |-> CHOOSE n \in Numbers : TRUE, form |-> CHOOSE n \in Numbers : TRUE]]

\* A click on the icon of a light selects it.
StagePick(e) ==
    /\ pc = "stageActions"
    /\ actions.click /\ icons # "never"
    /\ pc' = "beginUpdate"
    /\ events' = Append(events, SelectionChanged(e))
    /\ writers' = {}
    /\ UNCHANGED <<inputVars, transform, editVars, commands, screenVars, pick, swallowed>>

StagePass ==
    /\ pc = "stageActions"
    /\ pc' = "sceneActions"
    /\ UNCHANGED <<inputVars, transform, editVars, queueVars, screenVars, pick, historyVars>>

\* A click that nobody wanted is a ray into the scene, to be cast later.
SceneActions ==
    /\ pc = "sceneActions"
    /\ pc' = "beginUpdate"
    /\ pick' = IF actions.click THEN [pick EXCEPT !.pending = TRUE, !.ray = view] ELSE pick
    /\ UNCHANGED <<inputVars, transform, editVars, queueVars, screenVars, historyVars>>

-----------------------------------------------------------------------------
(***************************************************************************)
(* LayerStack::on_update and on_submit                                     *)
(***************************************************************************)

\* The camera moves, world matrices are updated, the view is made.
BeginUpdate ==
    /\ pc = "beginUpdate"
    /\ pc' = "editUpdate"
    /\ view' = "next"
    /\ UNCHANGED <<inputVars, transform, editVars, queueVars, tlas, icons, pick, historyVars>>

\* The inspector writes its copy with one field changed.
InspectorEdit(t) ==
    /\ pc = "editUpdate"
    /\ inspector.entity # NoEntity
    /\ t # inspector.transform
    /\ t.position = inspector.transform.position \/ t.form = inspector.transform.form
    /\ pc' = "stageUpdate"
    /\ inspector' = [inspector EXCEPT !.transform = t]
    /\ commands' = Append(commands, [by |-> "inspector", entity |-> inspector.entity,
                                     transform |-> t])
    /\ UNCHANGED <<inputVars, transform, gizmo, events, screenVars, pick, historyVars>>

InspectorRests ==
    /\ pc = "editUpdate"
    /\ pc' = "stageUpdate"
    /\ UNCHANGED <<inputVars, transform, editVars, queueVars, screenVars, pick, historyVars>>

StageUpdate ==
    /\ pc = "stageUpdate"
    /\ pc' = "sceneUpdate"
    /\ icons' = "never"
    /\ UNCHANGED <<inputVars, transform, editVars, queueVars, view, tlas, pick, historyVars>>

\* Mutant: the BVH is rebuilt before the ray is cast.
SceneUpdateSyncFirst(e) ==
    /\ pc = "sceneUpdate"
    /\ pc' = "commands"
    /\ IF pick.pending
       THEN /\ pick' = [pick EXCEPT !.pending = FALSE, !.on = "next"]
            /\ events' = Append(events, SelectionChanged(e))
            /\ writers' = {}
       ELSE UNCHANGED <<pick, events, writers>>
    /\ tlas' = "next"
    /\ UNCHANGED <<inputVars, transform, editVars, commands, view, icons, swallowed>>

\* Mutant: the selection is changed at once and not by an event.
SceneUpdateAtOnce(e) ==
    /\ pc = "sceneUpdate"
    /\ pc' = "commands"
    /\ IF pick.pending
       THEN /\ pick' = [pick EXCEPT !.pending = FALSE, !.on = tlas]
            /\ inspector' = SelectionChanged(e)
            /\ gizmo' = [entity |-> e, transform |-> SelectionChanged(e).transform,
                         active |-> FALSE]
            /\ writers' = {}
       ELSE UNCHANGED <<pick, editVars, writers>>
    /\ tlas' = "next"
    /\ UNCHANGED <<inputVars, transform, queueVars, view, icons, swallowed>>

\* process_raycast hits e, or nothing; then the BVH is made anew from the
\* world matrices of this frame.
SceneUpdate(e) ==
    /\ pc = "sceneUpdate"
    /\ pc' = "commands"
    /\ IF pick.pending
       THEN /\ tlas = "never" => e = NoEntity
            /\ pick' = [pick EXCEPT !.pending = FALSE, !.on = tlas]
            /\ events' = Append(events, SelectionChanged(e))
            /\ writers' = {}
       ELSE UNCHANGED <<pick, events, writers>>
    /\ tlas' = "next"
    /\ UNCHANGED <<inputVars, transform, editVars, commands, view, icons, swallowed>>

\* The transforms after a stream of commands: of two that write the same
\* entity, the last one stands.
Written(stream, before) ==
    [e \in Entities |->
        LET last == SE!SelectLastInSeq(stream, LAMBDA c : c.entity = e)
        IN IF last = 0 THEN before[e] ELSE stream[last].transform]

\* Whose writes the copies of the selected entity are to be compared with: a
\* write to an entity that is being selected comes after the copy was taken.
NewWriters ==
    {IF events = <<>> THEN commands[i].by ELSE "unseen" :
        i \in {j \in 1 .. Len(commands) :
                  \A k \in 1 .. Len(events) : events[k].entity = commands[j].entity}}

\* Mutant: the stream is not reset.
ProcessCommandsKeep ==
    /\ pc = "commands"
    /\ pc' = "events"
    /\ transform' = Written(commands, transform)
    /\ writers' = writers \cup NewWriters
    /\ UNCHANGED <<inputVars, editVars, queueVars, screenVars, pick, swallowed>>

\* SceneLayer::process_commands, for all of the stream in its order.
ProcessCommands ==
    /\ pc = "commands"
    /\ pc' = "events"
    /\ transform' = Written(commands, transform)
    /\ commands' = <<>>
    /\ writers' = writers \cup NewWriters
    /\ UNCHANGED <<inputVars, editVars, events, screenVars, pick, swallowed>>

\* Mutant: the inspector keeps an event from the layers below it.
ProcessEventsInspectorOnly ==
    /\ pc = "events"
    /\ pc' = "submit"
    /\ IF events = <<>> THEN UNCHANGED editVars
       ELSE /\ inspector' = events[Len(events)]
            /\ gizmo' = gizmo
    /\ events' = <<>>
    /\ UNCHANGED <<inputVars, transform, commands, screenVars, pick, historyVars>>

\* Every event reaches every layer, from top to bottom.
ProcessEvents ==
    /\ pc = "events"
    /\ pc' = "submit"
    /\ IF events = <<>> THEN UNCHANGED editVars
       ELSE LET last == events[Len(events)] IN
            /\ inspector' = last
            /\ gizmo' = [entity |-> last.entity, transform |-> last.transform, active |-> FALSE]
    /\ events' = <<>>
    /\ UNCHANGED <<inputVars, transform, commands, screenVars, pick, historyVars>>

\* The layers submit what is to be drawn, the renderer draws it, and the
\* edges of the mouse button are forgotten.
Submit ==
    /\ pc = "submit"
    /\ pc' = "idle"
    /\ view' = "shown" /\ tlas' = "shown" /\ icons' = "shown"
    /\ mouse' = [mouse EXCEPT !.press = FALSE, !.release = FALSE]
    /\ actions' = NoActions
    /\ UNCHANGED <<transform, editVars, queueVars, pick, historyVars>>

-----------------------------------------------------------------------------
LayersAct ==
    \/ \E consumed \in BOOLEAN : DebugActions(consumed)
    \/ \E wantsMouse \in BOOLEAN : EditActions(wantsMouse)
    \/ GizmoStart \/ GizmoPass
    \/ \E t \in Transforms : GizmoDrag(t)
    \/ \E e \in Entities : StagePick(e)
    \/ StagePass
    \/ SceneActions

LayersUpdate ==
    \/ BeginUpdate
    \/ \E t \in Transforms : InspectorEdit(t)
    \/ InspectorRests
    \/ StageUpdate
    \/ \E e \in Entities \cup {NoEntity} : SceneUpdate(e)
    \/ ProcessCommands
    \/ ProcessEvents

Next == MouseDown \/ MouseUp \/ MouseMove \/ MapInput \/ LayersAct \/ LayersUpdate \/ Submit

Spec == Init /\ [][Next]_vars

-----------------------------------------------------------------------------
(***************************************************************************)
(* Properties                                                              *)
(***************************************************************************)

Copies == [entity : Entities \cup {NoEntity}, transform : Transforms]

\* Every variable has its type.  A frame has two commands and one event at
\* most, so the pushes that EditLayer asserts to succeed do.
TypeOK ==
    /\ mouse \in [held : BOOLEAN, press : BOOLEAN, release : BOOLEAN, moved : BOOLEAN]
    /\ actions \in [click : BOOLEAN, update : BOOLEAN, end : BOOLEAN]
    /\ transform \in [Entities -> Transforms]
    /\ [entity |-> gizmo.entity, transform |-> gizmo.transform] \in Copies
    /\ inspector \in Copies
    /\ \A i \in 1 .. Len(commands) : commands[i].entity \in Entities
    /\ Len(commands) <= 2 /\ Len(events) <= 1
    /\ {view, tlas, icons, pick.ray, pick.on} \subseteq Made
    /\ writers \subseteq {"gizmo", "inspector", "unseen"}
    /\ swallowed \in BOOLEAN

\* Between frames the gizmo and the inspector have the same entity, whoever
\* selected it: no user sees the values of one and the handles of another.
SelectionAgrees == pc = "idle" => gizmo.entity = inspector.entity

\* When the copies of the selected transform are right.  One that only its
\* owner wrote since it was taken is what the entity has.  (After a write by
\* the other, or by the inspector in the very frame of the click, it is not,
\* and the next write puts the old values back.)
CopiesCurrent ==
    pc = "idle" /\ Selected =>
        /\ writers \subseteq {"gizmo"} => gizmo.transform = transform[gizmo.entity]
        /\ writers \subseteq {"inspector"} => inspector.transform = transform[gizmo.entity]

\* A drag whose button is up is one whose end a layer above the gizmo, or the
\* gizmo itself, swallowed with the rest of the frame's actions.
DragEndsUnlessSwallowed ==
    pc = "idle" /\ gizmo.active /\ ~mouse.held /\ ~mouse.release => swallowed

\* A frame leaves no command, event or pick to the next, where the selection
\* may be another.
FrameDrains == pc = "idle" => commands = <<>> /\ events = <<>> /\ ~pick.pending

\* Every queue and copy holds what it may hold at that point of the frame.
EditInv == TypeOK /\ FrameDrains

\* A command changes the transform of the entity that is selected in the gizmo
\* and in the inspector, and of no other, even in the frame of a new selection.
EditsHitSelection ==
    [][\A e \in Entities : transform'[e] # transform[e] =>
           e = gizmo.entity /\ e = inspector.entity]_vars

\* A click selects what it was on: the ray of the picture that was on the
\* screen is cast into the BVH of that picture, though a frame passes between.
PickSeesWhatWasClicked ==
    [][pick.pending /\ ~pick'.pending => pick'.on = pick.ray]_vars
=============================================================================
