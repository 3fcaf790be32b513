--------------------------- MODULE EditLoopProofs ---------------------------
(***************************************************************************)
(* For any entities and values: what the steps of a frame may find in the  *)
(* queues, in the copies of the selected transform, in the pick and on the *)
(* screen, and with it every safety property of EditLoop.                  *)
(*                                                                         *)
(* None of the properties is inductive alone, since each speaks of one     *)
(* step of the frame; LoopInv says what holds at all the steps before it.  *)
(***************************************************************************)
EXTENDS EditLoop, WellFoundedInduction, TLAPS

-----------------------------------------------------------------------------
(***************************************************************************)
(* What a stream of commands writes                                        *)
(***************************************************************************)

\* A set of natural numbers that is not empty has a least member.
LEMMA LeastOf ==
  ASSUME NEW S, S \subseteq Nat, S # {}
  PROVE  \E m \in S : \A k \in S : m <= k
<1> DEFINE R == OpToRel(<, Nat)
<1>1. IsWellFoundedOn(R, Nat)
  BY NatLessThanWellFounded
<1> HIDE DEF R
<1>2. PICK m \in S : \A k \in S : ~(<<k, m>> \in R)
  BY <1>1, WFMin
<1>3. \A k \in S : k < m => <<k, m>> \in R
  BY DEF R, OpToRel
<1>4. \A k \in S : ~(k < m)
  BY <1>2, <1>3
<1> QED
  BY <1>4

\* One of numbers up to n that are not all missing is the largest.
LEMMA MaxIsMember ==
  ASSUME NEW n \in Nat, NEW S, S \subseteq 1 .. n, S # {}
  PROVE  SE!Max(S) \in S /\ \A k \in S : k <= SE!Max(S)
<1> DEFINE T == {n - k : k \in S}
<1>1. T \subseteq Nat /\ T # {}
  <2>1. \A k \in S : n - k \in Nat
    OBVIOUS
  <2>2. T # {}
    OBVIOUS
  <2> QED
    BY <2>1, <2>2
<1>2. PICK m \in T : \A k \in T : m <= k
  BY <1>1, LeastOf
<1>3. PICK x \in S : m = n - x
  BY <1>2
<1>4. \A k \in S : x >= k
  <2> SUFFICES ASSUME NEW k \in S PROVE x >= k
    OBVIOUS
  <2>1. n - x <= n - k
    BY <1>2, <1>3
  <2>2. x \in Int /\ k \in Int
    OBVIOUS
  <2> QED
    BY <2>1, <2>2
<1>5. SE!Max(S) \in S /\ \A k \in S : SE!Max(S) >= k
  <2>1. \E y \in S : \A k \in S : y >= k
    BY <1>4
  <2> QED
    BY <2>1 DEF SE!Max
<1> DEFINE M == SE!Max(S)
<1> HIDE DEF M, T
<1>6. M \in S /\ \A k \in S : M >= k
  BY <1>5 DEF M
<1>7. \A k \in S : k <= M
  BY <1>6
<1> QED
  BY <1>6, <1>7 DEF M

Command == [by : {"gizmo", "inspector"}, entity : Entities, transform : Transforms]

\* A stream writes the entities it names and no other; if all of it names one
\* entity, that entity has the transform of the last command.
LEMMA WrittenIs ==
  ASSUME NEW stream \in Seq(Command), NEW before \in [Entities -> Transforms]
  PROVE  /\ Written(stream, before) \in [Entities -> Transforms]
         /\ \A e \in Entities :
               (\A i \in 1 .. Len(stream) : stream[i].entity # e)
                  => Written(stream, before)[e] = before[e]
         /\ \A e \in Entities :
               (\A i \in 1 .. Len(stream) : stream[i].entity = e) /\ stream # <<>>
                  => Written(stream, before)[e] = stream[Len(stream)].transform
<1> DEFINE n == Len(stream)
           I(e) == {i \in 1 .. n : stream[i].entity = e}
           last(e) == SE!SelectLastInSeq(stream, LAMBDA c : c.entity = e)
<1>1. n \in Nat /\ (\A i \in 1 .. n : stream[i] \in Command) /\ (stream # <<>> => n >= 1)
  OBVIOUS
<1>2. ASSUME NEW e
      PROVE  /\ I(e) = {} => last(e) = 0
             /\ I(e) # {} => last(e) \in I(e) /\ \A k \in I(e) : k <= last(e)
  <2>1. last(e) = IF I(e) # {} THEN SE!Max(I(e)) ELSE 0
    BY DEF SE!SelectLastInSeq
  <2>2. I(e) \subseteq 1 .. n
    OBVIOUS
  <2> HIDE DEF I, last
  <2> QED
    BY <1>1, <2>1, <2>2, MaxIsMember
<1>3. Written(stream, before) =
         [e \in Entities |-> IF last(e) = 0 THEN before[e] ELSE stream[last(e)].transform]
  BY DEF Written
<1> HIDE DEF last
<1>4. ASSUME NEW e \in Entities
      PROVE  (IF last(e) = 0 THEN before[e] ELSE stream[last(e)].transform) \in Transforms
  <2>1. last(e) # 0 => last(e) \in 1 .. n
    BY <1>2
  <2> QED
    BY <1>1, <2>1 DEF Command
<1>5. Written(stream, before) \in [Entities -> Transforms]
  BY <1>3, <1>4
<1>6. ASSUME NEW e \in Entities, \A i \in 1 .. n : stream[i].entity # e
      PROVE  Written(stream, before)[e] = before[e]
  <2>1. I(e) = {}
    BY <1>6
  <2> QED
    BY <1>2, <1>3, <2>1
<1>7. ASSUME NEW e \in Entities, \A i \in 1 .. n : stream[i].entity = e, stream # <<>>
      PROVE  Written(stream, before)[e] = stream[n].transform
  <2>1. n \in I(e)
    BY <1>1, <1>7
  <2>2. last(e) = n
    BY <1>1, <1>2, <2>1
  <2>3. n # 0
    BY <1>1, <1>7
  <2> HIDE DEF n
  <2> QED
    BY <1>3, <2>2, <2>3
<1> QED
  BY <1>5, <1>6, <1>7
-----------------------------------------------------------------------------
(***************************************************************************)
(* The invariant                                                           *)
(***************************************************************************)

\* The steps before the gizmo may write, and those before the view is made.
Early == {"idle", "debugActions", "editActions", "gizmoActions", "stageActions",
          "sceneActions"}
BeforeView == Early \cup {"beginUpdate"}
Updating == {"beginUpdate", "editUpdate", "stageUpdate", "sceneUpdate"}
Steps == BeforeView \cup Updating \cup {"commands", "events", "submit"}

InputTypes ==
  /\ mouse \in [held : BOOLEAN, press : BOOLEAN, release : BOOLEAN, moved : BOOLEAN]
  /\ actions \in [click : BOOLEAN, update : BOOLEAN, end : BOOLEAN]

EditTypes ==
  /\ transform \in [Entities -> Transforms]
  /\ gizmo \in [entity : Entities \cup {NoEntity}, transform : Transforms, active : BOOLEAN]
  /\ inspector \in Copies

QueueTypes == commands \in Seq(Command) /\ events \in Seq(Copies)

ScreenTypes ==
  /\ view \in Made /\ tlas \in Made /\ icons \in Made
  /\ pick \in [pending : BOOLEAN, ray : Made, on : Made]
  /\ swallowed \in BOOLEAN

WritersTypes == writers \subseteq {"gizmo", "inspector", "unseen"}

Types ==
  pc \in Steps /\ InputTypes /\ EditTypes /\ QueueTypes /\ ScreenTypes /\ WritersTypes

\* The gizmo writes once, then the inspector once, and both write the entity
\* that is selected in both.
CommandsInv ==
  /\ gizmo.entity = inspector.entity
  /\ \A i \in 1 .. Len(commands) : commands[i].entity = gizmo.entity
  /\ pc \in Early \cup {"events", "submit"} => Len(commands) = 0
  /\ pc \in {"beginUpdate", "editUpdate"} => Len(commands) <= 1
  /\ Len(commands) <= 2

\* One click makes one selection: an event at once, or a pick that becomes one.
EventsInv ==
  /\ pc \in Early \cup {"submit"} => Len(events) = 0
  /\ Len(events) <= 1
  /\ pick.pending => pc \in Updating /\ Len(events) = 0

\* Until the scene is synchronised, the BVH is that of the picture on the
\* screen; until the view is made, so is the view.
ScreenInv ==
  /\ pc \in BeforeView => view = tlas
  /\ pick.pending => pick.ray = tlas

\* The edges of the button, and what the end of a drag was lost to.
DragInv ==
  /\ mouse.press /\ ~mouse.held => mouse.release
  /\ pc # "idle" /\ actions.click => mouse.press
  /\ pc \in {"debugActions", "editActions", "gizmoActions"} =>
        actions.end = mouse.release /\ (mouse.release => swallowed)
  /\ gizmo.active /\ ~mouse.held => swallowed \/ (pc = "idle" /\ mouse.release)

\* Everyone who wrote, or whose command waits, since the copies were taken.
Wrote == writers \cup {commands[i].by : i \in 1 .. Len(commands)}

\* A copy that only its owner wrote is what the entity has once the waiting
\* commands are done; an event holds what its entity has, unless a command
\* of the very frame went past it.
CopiesInv ==
  /\ Len(events) = 0 /\ gizmo.entity # NoEntity =>
        /\ Wrote \subseteq {"gizmo"} =>
              gizmo.transform = Written(commands, transform)[gizmo.entity]
        /\ Wrote \subseteq {"inspector"} =>
              inspector.transform = Written(commands, transform)[gizmo.entity]
  /\ \A k \in 1 .. Len(events) :
        /\ pc # "events" => writers = {}
        /\ events[k].entity \in Entities =>
              \/ pc = "events" /\ "unseen" \in writers
              \/ events[k].transform = transform[events[k].entity]

LoopInv == Types /\ CommandsInv /\ EventsInv /\ ScreenInv /\ DragInv /\ CopiesInv

LEMMA SelectionIsCopy ==
  ASSUME Types, NEW e \in Entities \cup {NoEntity}
  PROVE  SelectionChanged(e) \in Copies /\ SelectionChanged(e).entity = e
         /\ (e \in Entities => SelectionChanged(e).transform = transform[e])
<1> DEFINE c == CHOOSE x \in Numbers : TRUE
<1>1. c \in Numbers
  BY NumbersAssumption
<1>2. [position |-> c, form |-> c] \in Transforms
  BY <1>1 DEF Transforms
<1>3. e \in Entities => transform[e] \in Transforms
  BY DEF Types, EditTypes
<1> HIDE DEF c
<1>4. SelectionChanged(e) = [entity |-> e, transform |->
          IF e \in Entities THEN transform[e] ELSE [position |-> c, form |-> c]]
  BY DEF SelectionChanged, c
<1> QED
  BY <1>2, <1>3, <1>4 DEF Copies

\* Nothing was written yet: what is written is what there is.
LEMMA NothingWritten ==
  ASSUME NEW stream \in Seq(Command), Len(stream) = 0,
         NEW before \in [Entities -> Transforms], NEW e \in Entities
  PROVE  Written(stream, before)[e] = before[e]
<1>1. \A i \in 1 .. Len(stream) : stream[i].entity # e
  OBVIOUS
<1> QED
  BY <1>1, WrittenIs

\* One more command is the last one.
LEMMA OneMoreWritten ==
  ASSUME NEW stream \in Seq(Command), NEW c \in Command,
         NEW before \in [Entities -> Transforms],
         \A i \in 1 .. Len(stream) : stream[i].entity = c.entity
  PROVE  Written(Append(stream, c), before)[c.entity] = c.transform
<1> DEFINE s == Append(stream, c)
<1>0. /\ s \in Seq(Command) /\ Len(s) = Len(stream) + 1 /\ Len(stream) \in Nat
      /\ s[Len(stream) + 1] = c
      /\ \A i \in 1 .. Len(stream) : s[i] = stream[i]
  OBVIOUS
<1>1. s # <<>> /\ s[Len(s)] = c
  <2> HIDE DEF s
  <2> QED
    BY <1>0
<1>2. \A i \in 1 .. Len(s) : s[i].entity = c.entity
  <2> HIDE DEF s
  <2>1. \A i \in 1 .. Len(s) : i \in 1 .. Len(stream) \/ i = Len(stream) + 1
    BY <1>0
  <2> QED
    BY <1>0, <2>1
<1>3. c.entity \in Entities
  BY DEF Command
<1> HIDE DEF s
<1>4. Written(s, before)[c.entity] = s[Len(s)].transform
  BY <1>0, <1>1, <1>2, <1>3, WrittenIs
<1> QED
  BY <1>1, <1>4 DEF s

LEMMA InitLoopInv == Init => LoopInv
<1> SUFFICES ASSUME Init PROVE LoopInv
  OBVIOUS
<1>1. Types
  <2>1. commands \in Seq(Command) /\ events \in Seq(Copies)
    BY DEF Init
  <2>2. PICK t \in Transforms :
           /\ gizmo = [entity |-> NoEntity, transform |-> t, active |-> FALSE]
           /\ inspector = [entity |-> NoEntity, transform |-> t]
    BY DEF Init
  <2>3. /\ gizmo \in [entity : Entities \cup {NoEntity}, transform : Transforms,
                      active : BOOLEAN]
        /\ inspector \in Copies
    BY <2>2 DEF Copies
  <2>4. /\ pc \in Steps /\ transform \in [Entities -> Transforms]
        /\ mouse \in [held : BOOLEAN, press : BOOLEAN, release : BOOLEAN, moved : BOOLEAN]
        /\ actions \in [click : BOOLEAN, update : BOOLEAN, end : BOOLEAN]
    BY DEF Init, Steps, BeforeView, Early, NoActions
  <2>5. /\ view \in Made /\ tlas \in Made /\ icons \in Made
        /\ pick \in [pending : BOOLEAN, ray : Made, on : Made]
        /\ writers \subseteq {"gizmo", "inspector", "unseen"}
        /\ swallowed \in BOOLEAN
    BY DEF Init, Made
  <2> QED
    BY <2>1, <2>3, <2>4, <2>5 DEF Types, InputTypes, EditTypes, QueueTypes, ScreenTypes,
                                 WritersTypes
<1>2. Len(commands) = 0 /\ Len(events) = 0 /\ gizmo.entity = NoEntity
      /\ inspector.entity = NoEntity /\ ~pick.pending /\ ~gizmo.active
      /\ ~mouse.press /\ pc = "idle"
  BY DEF Init
<1>3. view = tlas
  BY DEF Init
<1> QED
  BY <1>1, <1>2, <1>3
     DEF LoopInv, CommandsInv, EventsInv, ScreenInv, DragInv, CopiesInv

\* The types of the mouse and of the actions.
LEMMA InputTypesStep ==
  ASSUME LoopInv, [Next]_vars
  PROVE  InputTypes'
<1> USE DEF LoopInv, Types, InputTypes, NoActions,
            inputVars, editVars, queueVars, screenVars, historyVars
<1>1. CASE (\E consumed \in BOOLEAN : DebugActions(consumed))
        \/ (\E wantsMouse \in BOOLEAN : EditActions(wantsMouse)) \/ GizmoStart
        \/ GizmoPass \/ (\E t \in Transforms : GizmoDrag(t))
        \/ (\E e \in Entities : StagePick(e))
  BY <1>1 DEF DebugActions, EditActions, GizmoStart, GizmoPass, GizmoDrag,
           StagePick
<1>2. CASE StagePass \/ SceneActions \/ BeginUpdate
        \/ (\E t \in Transforms : InspectorEdit(t)) \/ InspectorRests \/ StageUpdate
  BY <1>2 DEF StagePass, SceneActions, BeginUpdate, InspectorEdit,
           InspectorRests, StageUpdate
<1>3. CASE (\E e \in Entities \cup {NoEntity} : SceneUpdate(e)) \/ ProcessCommands
        \/ ProcessEvents \/ (UNCHANGED vars)
  BY <1>3 DEF SceneUpdate, ProcessCommands, ProcessEvents, vars
<1>4. CASE MouseDown
  BY <1>4 DEF MouseDown
<1>5. CASE MouseUp
  BY <1>5 DEF MouseUp
<1>6. CASE MouseMove
  BY <1>6 DEF MouseMove
<1>7. CASE MapInput
  BY <1>7 DEF MapInput
<1>8. CASE Submit
  BY <1>8 DEF Submit
<1> QED
  BY <1>1, <1>2, <1>3, <1>4, <1>5, <1>6, <1>7, <1>8
     DEF Next, LayersAct, LayersUpdate

\* The types of the transforms and of their copies.
LEMMA EditTypesStep ==
  ASSUME LoopInv, [Next]_vars
  PROVE  EditTypes'
<1> USE DEF LoopInv, Types, EditTypes, QueueTypes, Selected,
            inputVars, editVars, queueVars, screenVars, historyVars
<1>1. CASE MouseDown \/ MouseUp \/ MouseMove \/ MapInput
        \/ (\E consumed \in BOOLEAN : DebugActions(consumed))
        \/ (\E wantsMouse \in BOOLEAN : EditActions(wantsMouse))
  BY <1>1 DEF MouseDown, MouseUp, MouseMove, MapInput, DebugActions,
           EditActions
<1>2. CASE (\E e \in Entities : StagePick(e)) \/ StagePass \/ SceneActions
        \/ BeginUpdate \/ InspectorRests \/ StageUpdate
  BY <1>2 DEF StagePick, StagePass, SceneActions, BeginUpdate, InspectorRests,
           StageUpdate
<1>3. CASE (\E e \in Entities \cup {NoEntity} : SceneUpdate(e)) \/ Submit
        \/ (UNCHANGED vars)
  BY <1>3 DEF SceneUpdate, Submit, vars
<1>4. CASE GizmoStart
  BY <1>4 DEF GizmoStart
<1>5. CASE GizmoPass
  BY <1>5 DEF GizmoPass
<1>6. CASE \E t \in Transforms : GizmoDrag(t)
  BY <1>6 DEF GizmoDrag
<1>7. CASE \E t \in Transforms : InspectorEdit(t)
  <2> SUFFICES ASSUME NEW t \in Transforms, InspectorEdit(t) PROVE EditTypes'
    BY <1>7
  <2>1. inspector' = [inspector EXCEPT !.transform = t] /\ inspector' \in Copies
    BY DEF InspectorEdit, Copies
  <2> QED
    BY <2>1 DEF InspectorEdit
<1>8. CASE ProcessCommands
  <2>1. Written(commands, transform) \in [Entities -> Transforms]
    BY WrittenIs
  <2> QED
    BY <1>8, <2>1 DEF ProcessCommands
<1>9. CASE ProcessEvents
  <2>1. CASE events = <<>>
    BY <1>9, <2>1 DEF ProcessEvents
  <2>2. CASE events # <<>>
    <3> DEFINE last == events[Len(events)]
    <3>1. last \in Copies
      BY <2>2
    <3>2. /\ inspector' = last /\ transform' = transform
          /\ gizmo' = [entity |-> last.entity, transform |-> last.transform, active |-> FALSE]
      BY <1>9, <2>2 DEF ProcessEvents
    <3> QED
      BY <3>1, <3>2 DEF Copies
  <2> QED
    BY <2>1, <2>2
<1> QED
  BY <1>1, <1>2, <1>3, <1>4, <1>5, <1>6, <1>7, <1>8, <1>9
     DEF Next, LayersAct, LayersUpdate

\* The types of the two queues.
LEMMA QueueTypesStep ==
  ASSUME LoopInv, [Next]_vars
  PROVE  QueueTypes'
<1> USE DEF LoopInv, Types, EditTypes, QueueTypes, Selected,
            inputVars, editVars, queueVars, screenVars, historyVars
<1>1. CASE MouseDown \/ MouseUp \/ MouseMove \/ MapInput
        \/ (\E consumed \in BOOLEAN : DebugActions(consumed))
        \/ (\E wantsMouse \in BOOLEAN : EditActions(wantsMouse))
  BY <1>1 DEF MouseDown, MouseUp, MouseMove, MapInput, DebugActions,
           EditActions
<1>2. CASE GizmoStart \/ GizmoPass \/ StagePass \/ SceneActions \/ BeginUpdate
        \/ InspectorRests
  BY <1>2 DEF GizmoStart, GizmoPass, StagePass, SceneActions, BeginUpdate,
           InspectorRests
<1>3. CASE StageUpdate \/ Submit \/ (UNCHANGED vars)
  BY <1>3 DEF StageUpdate, Submit, vars
<1>4. CASE \E t \in Transforms : GizmoDrag(t)
  <2> SUFFICES ASSUME NEW t \in Transforms, GizmoDrag(t) PROVE QueueTypes'
    BY <1>4
  <2>1. [by |-> "gizmo", entity |-> gizmo.entity, transform |-> t] \in Command
    BY DEF GizmoDrag, Command
  <2> QED
    BY <2>1 DEF GizmoDrag
<1>5. CASE \E e \in Entities : StagePick(e)
  BY <1>5, SelectionIsCopy DEF StagePick
<1>6. CASE \E t \in Transforms : InspectorEdit(t)
  <2> SUFFICES ASSUME NEW t \in Transforms, InspectorEdit(t) PROVE QueueTypes'
    BY <1>6
  <2>1. [by |-> "inspector", entity |-> inspector.entity, transform |-> t] \in Command
    BY DEF InspectorEdit, Command, Copies
  <2> QED
    BY <2>1 DEF InspectorEdit
<1>7. CASE \E e \in Entities \cup {NoEntity} : SceneUpdate(e)
  <2> SUFFICES ASSUME NEW e \in Entities \cup {NoEntity}, SceneUpdate(e)
               PROVE  QueueTypes'
    BY <1>7
  <2>1. SelectionChanged(e) \in Copies
    BY SelectionIsCopy
  <2> QED
    BY <2>1, SMTT(30) DEF SceneUpdate
<1>8. CASE ProcessCommands
  BY <1>8 DEF ProcessCommands
<1>9. CASE ProcessEvents
  BY <1>9 DEF ProcessEvents
<1> QED
  BY <1>1, <1>2, <1>3, <1>4, <1>5, <1>6, <1>7, <1>8, <1>9
     DEF Next, LayersAct, LayersUpdate

\* The types of the view, the BVH, the icons and the pick.
LEMMA ScreenTypesStep ==
  ASSUME LoopInv, [Next]_vars
  PROVE  ScreenTypes'
<1> USE DEF LoopInv, Types, ScreenTypes, Made,
            inputVars, editVars, queueVars, screenVars, historyVars
<1>1. CASE MouseDown \/ MouseUp \/ MouseMove
        \/ (\E consumed \in BOOLEAN : DebugActions(consumed))
        \/ (\E wantsMouse \in BOOLEAN : EditActions(wantsMouse)) \/ GizmoStart
  BY <1>1 DEF MouseDown, MouseUp, MouseMove, DebugActions, EditActions,
           GizmoStart
<1>2. CASE (\E t \in Transforms : GizmoDrag(t)) \/ (\E e \in Entities : StagePick(e))
        \/ StagePass \/ (\E t \in Transforms : InspectorEdit(t)) \/ InspectorRests
        \/ ProcessCommands
  BY <1>2 DEF GizmoDrag, StagePick, StagePass, InspectorEdit, InspectorRests,
           ProcessCommands
<1>3. CASE ProcessEvents \/ (UNCHANGED vars)
  BY <1>3 DEF ProcessEvents, vars
<1>4. CASE MapInput
  BY <1>4 DEF MapInput
<1>5. CASE GizmoPass
  BY <1>5 DEF GizmoPass
<1>6. CASE SceneActions
  BY <1>6 DEF SceneActions
<1>7. CASE BeginUpdate
  BY <1>7 DEF BeginUpdate
<1>8. CASE StageUpdate
  BY <1>8 DEF StageUpdate
<1>9. CASE \E e \in Entities \cup {NoEntity} : SceneUpdate(e)
  BY <1>9 DEF SceneUpdate
<1>10. CASE Submit
  BY <1>10 DEF Submit
<1> QED
  BY <1>1, <1>2, <1>3, <1>4, <1>5, <1>6, <1>7, <1>8, <1>9, <1>10
     DEF Next, LayersAct, LayersUpdate

\* The type of the history of writers.
LEMMA WritersTypesStep ==
  ASSUME LoopInv, [Next]_vars
  PROVE  WritersTypes'
<1> USE DEF LoopInv, Types, WritersTypes,
            inputVars, editVars, queueVars, screenVars, historyVars
<1>1. CASE MouseDown \/ MouseUp \/ MouseMove \/ MapInput
        \/ (\E consumed \in BOOLEAN : DebugActions(consumed))
        \/ (\E wantsMouse \in BOOLEAN : EditActions(wantsMouse))
  BY <1>1 DEF MouseDown, MouseUp, MouseMove, MapInput, DebugActions,
           EditActions
<1>2. CASE GizmoStart \/ GizmoPass \/ (\E t \in Transforms : GizmoDrag(t))
        \/ StagePass \/ SceneActions \/ BeginUpdate
  BY <1>2 DEF GizmoStart, GizmoPass, GizmoDrag, StagePass, SceneActions,
           BeginUpdate
<1>3. CASE (\E t \in Transforms : InspectorEdit(t)) \/ InspectorRests \/ StageUpdate
        \/ ProcessEvents \/ Submit \/ (UNCHANGED vars)
  BY <1>3 DEF InspectorEdit, InspectorRests, StageUpdate, ProcessEvents,
           Submit, vars
<1>4. CASE \E e \in Entities : StagePick(e)
  BY <1>4 DEF StagePick
<1>5. CASE \E e \in Entities \cup {NoEntity} : SceneUpdate(e)
  BY <1>5 DEF SceneUpdate
<1>6. CASE ProcessCommands
  <2>1. \A i \in 1 .. Len(commands) : commands[i].by \in {"gizmo", "inspector"}
    <3>1. \A i \in 1 .. Len(commands) : commands[i] \in Command
      BY DEF QueueTypes
    <3> QED
      BY <3>1 DEF Command
  <2>2. NewWriters \subseteq {"gizmo", "inspector", "unseen"}
    BY <2>1 DEF NewWriters
  <2> QED
    BY <1>6, <2>2 DEF ProcessCommands
<1> QED
  BY <1>1, <1>2, <1>3, <1>4, <1>5, <1>6
     DEF Next, LayersAct, LayersUpdate

\* The queue of commands, step by step of the frame.
LEMMA CommandsInvStep ==
  ASSUME LoopInv, [Next]_vars
  PROVE  CommandsInv'
<1> USE DEF LoopInv, Types, EditTypes, QueueTypes, CommandsInv, EventsInv, Selected, Early, Updating,
            inputVars, editVars, queueVars, screenVars, historyVars
<1>1. CASE UNCHANGED vars
  BY <1>1 DEF vars
<1>2. CASE MouseDown
  BY <1>2 DEF MouseDown
<1>3. CASE MouseUp
  BY <1>3 DEF MouseUp
<1>4. CASE MouseMove
  BY <1>4 DEF MouseMove
<1>5. CASE MapInput
  BY <1>5 DEF MapInput
<1>6. CASE \E consumed \in BOOLEAN : DebugActions(consumed)
  BY <1>6 DEF DebugActions
<1>7. CASE \E wantsMouse \in BOOLEAN : EditActions(wantsMouse)
  BY <1>7 DEF EditActions
<1>8. CASE GizmoStart
  BY <1>8 DEF GizmoStart
<1>9. CASE GizmoPass
  BY <1>9 DEF GizmoPass
<1>10. CASE \E t \in Transforms : GizmoDrag(t)
  BY <1>10 DEF GizmoDrag
<1>11. CASE \E e \in Entities : StagePick(e)
  BY <1>11 DEF StagePick
<1>12. CASE StagePass
  BY <1>12 DEF StagePass
<1>13. CASE SceneActions
  BY <1>13 DEF SceneActions
<1>14. CASE BeginUpdate
  BY <1>14 DEF BeginUpdate
<1>15. CASE \E t \in Transforms : InspectorEdit(t)
  BY <1>15 DEF InspectorEdit
<1>16. CASE InspectorRests
  BY <1>16 DEF InspectorRests
<1>17. CASE StageUpdate
  BY <1>17 DEF StageUpdate
<1>18. CASE \E e \in Entities \cup {NoEntity} : SceneUpdate(e)
  BY <1>18 DEF SceneUpdate
<1>19. CASE ProcessCommands
  <2>1. Len(commands') = 0
    BY <1>19 DEF ProcessCommands
  <2> QED
    BY <1>19, <2>1 DEF ProcessCommands
<1>20. CASE ProcessEvents
  BY <1>20 DEF ProcessEvents
<1>21. CASE Submit
  BY <1>21 DEF Submit
<1> QED
  BY <1>1, <1>2, <1>3, <1>4, <1>5, <1>6, <1>7, <1>8, <1>9, <1>10,
           <1>11, <1>12, <1>13, <1>14, <1>15, <1>16, <1>17, <1>18, <1>19,
           <1>20, <1>21
     DEF Next, LayersAct, LayersUpdate

\* The queue of events and the pick.
LEMMA EventsInvStep ==
  ASSUME LoopInv, [Next]_vars
  PROVE  EventsInv'
<1> USE DEF LoopInv, Types, QueueTypes, ScreenTypes, EventsInv, Early, Updating,
            inputVars, editVars, queueVars, screenVars, historyVars
<1>1. CASE UNCHANGED vars
  BY <1>1 DEF vars
<1>2. CASE MouseDown
  BY <1>2 DEF MouseDown
<1>3. CASE MouseUp
  BY <1>3 DEF MouseUp
<1>4. CASE MouseMove
  BY <1>4 DEF MouseMove
<1>5. CASE MapInput
  BY <1>5 DEF MapInput
<1>6. CASE \E consumed \in BOOLEAN : DebugActions(consumed)
  BY <1>6 DEF DebugActions
<1>7. CASE \E wantsMouse \in BOOLEAN : EditActions(wantsMouse)
  BY <1>7 DEF EditActions
<1>8. CASE GizmoStart
  BY <1>8 DEF GizmoStart
<1>9. CASE GizmoPass
  BY <1>9 DEF GizmoPass
<1>10. CASE \E t \in Transforms : GizmoDrag(t)
  BY <1>10 DEF GizmoDrag
<1>11. CASE \E e \in Entities : StagePick(e)
  BY <1>11 DEF StagePick
<1>12. CASE StagePass
  BY <1>12 DEF StagePass
<1>13. CASE SceneActions
  BY <1>13 DEF SceneActions
<1>14. CASE BeginUpdate
  BY <1>14 DEF BeginUpdate
<1>15. CASE \E t \in Transforms : InspectorEdit(t)
  BY <1>15 DEF InspectorEdit
<1>16. CASE InspectorRests
  BY <1>16 DEF InspectorRests
<1>17. CASE StageUpdate
  BY <1>17 DEF StageUpdate
<1>18. CASE \E e \in Entities \cup {NoEntity} : SceneUpdate(e)
  <2>1. CASE pick.pending
    <3>1. Len(events') = 1 /\ pc' = "commands"
      BY <1>18, <2>1 DEF SceneUpdate
    <3>2. ~pick'.pending
      BY <1>18, <2>1 DEF SceneUpdate
    <3> QED
      BY <3>1, <3>2
  <2>2. CASE ~pick.pending
    BY <1>18, <2>2 DEF SceneUpdate
  <2> QED
    BY <2>1, <2>2
<1>19. CASE ProcessCommands
  BY <1>19 DEF ProcessCommands
<1>20. CASE ProcessEvents
  BY <1>20 DEF ProcessEvents
<1>21. CASE Submit
  BY <1>21 DEF Submit
<1> QED
  BY <1>1, <1>2, <1>3, <1>4, <1>5, <1>6, <1>7, <1>8, <1>9, <1>10,
           <1>11, <1>12, <1>13, <1>14, <1>15, <1>16, <1>17, <1>18, <1>19,
           <1>20, <1>21
     DEF Next, LayersAct, LayersUpdate

\* The view, the BVH and the ray.
LEMMA ScreenInvStep ==
  ASSUME LoopInv, [Next]_vars
  PROVE  ScreenInv'
<1> USE DEF LoopInv, Types, ScreenTypes, EventsInv, ScreenInv, BeforeView, Early, Updating,
            inputVars, editVars, queueVars, screenVars, historyVars
<1>1. CASE UNCHANGED vars
  BY <1>1 DEF vars
<1>2. CASE MouseDown
  BY <1>2 DEF MouseDown
<1>3. CASE MouseUp
  BY <1>3 DEF MouseUp
<1>4. CASE MouseMove
  BY <1>4 DEF MouseMove
<1>5. CASE MapInput
  BY <1>5 DEF MapInput
<1>6. CASE \E consumed \in BOOLEAN : DebugActions(consumed)
  BY <1>6 DEF DebugActions
<1>7. CASE \E wantsMouse \in BOOLEAN : EditActions(wantsMouse)
  BY <1>7 DEF EditActions
<1>8. CASE GizmoStart
  BY <1>8 DEF GizmoStart
<1>9. CASE GizmoPass
  BY <1>9 DEF GizmoPass
<1>10. CASE \E t \in Transforms : GizmoDrag(t)
  BY <1>10 DEF GizmoDrag
<1>11. CASE \E e \in Entities : StagePick(e)
  BY <1>11 DEF StagePick
<1>12. CASE StagePass
  BY <1>12 DEF StagePass
<1>13. CASE SceneActions
  BY <1>13 DEF SceneActions
<1>14. CASE BeginUpdate
  BY <1>14 DEF BeginUpdate
<1>15. CASE \E t \in Transforms : InspectorEdit(t)
  BY <1>15 DEF InspectorEdit
<1>16. CASE InspectorRests
  BY <1>16 DEF InspectorRests
<1>17. CASE StageUpdate
  BY <1>17 DEF StageUpdate
<1>18. CASE \E e \in Entities \cup {NoEntity} : SceneUpdate(e)
  BY <1>18 DEF SceneUpdate
<1>19. CASE ProcessCommands
  BY <1>19 DEF ProcessCommands
<1>20. CASE ProcessEvents
  BY <1>20 DEF ProcessEvents
<1>21. CASE Submit
  BY <1>21 DEF Submit
<1> QED
  BY <1>1, <1>2, <1>3, <1>4, <1>5, <1>6, <1>7, <1>8, <1>9, <1>10,
           <1>11, <1>12, <1>13, <1>14, <1>15, <1>16, <1>17, <1>18, <1>19,
           <1>20, <1>21
     DEF Next, LayersAct, LayersUpdate

\* The drag and the edges of the button.
LEMMA DragInvStep ==
  ASSUME LoopInv, [Next]_vars
  PROVE  DragInv'
<1> USE DEF LoopInv, Types, InputTypes, EditTypes, DragInv, NoActions,
            inputVars, editVars, queueVars, screenVars, historyVars
<1>1. CASE UNCHANGED vars
  BY <1>1 DEF vars
<1>2. CASE MouseDown
  BY <1>2 DEF MouseDown
<1>3. CASE MouseUp
  BY <1>3 DEF MouseUp
<1>4. CASE MouseMove
  BY <1>4 DEF MouseMove
<1>5. CASE MapInput
  BY <1>5 DEF MapInput
<1>6. CASE \E consumed \in BOOLEAN : DebugActions(consumed)
  BY <1>6 DEF DebugActions
<1>7. CASE \E wantsMouse \in BOOLEAN : EditActions(wantsMouse)
  BY <1>7 DEF EditActions
<1>8. CASE GizmoStart
  BY <1>8 DEF GizmoStart
<1>9. CASE GizmoPass
  BY <1>9 DEF GizmoPass
<1>10. CASE \E t \in Transforms : GizmoDrag(t)
  BY <1>10 DEF GizmoDrag
<1>11. CASE \E e \in Entities : StagePick(e)
  BY <1>11 DEF StagePick
<1>12. CASE StagePass
  BY <1>12 DEF StagePass
<1>13. CASE SceneActions
  BY <1>13 DEF SceneActions
<1>14. CASE BeginUpdate
  BY <1>14 DEF BeginUpdate
<1>15. CASE \E t \in Transforms : InspectorEdit(t)
  BY <1>15 DEF InspectorEdit
<1>16. CASE InspectorRests
  BY <1>16 DEF InspectorRests
<1>17. CASE StageUpdate
  BY <1>17 DEF StageUpdate
<1>18. CASE \E e \in Entities \cup {NoEntity} : SceneUpdate(e)
  BY <1>18 DEF SceneUpdate
<1>19. CASE ProcessCommands
  BY <1>19 DEF ProcessCommands
<1>20. CASE ProcessEvents
  BY <1>20 DEF ProcessEvents
<1>21. CASE Submit
  BY <1>21 DEF Submit
<1> QED
  BY <1>1, <1>2, <1>3, <1>4, <1>5, <1>6, <1>7, <1>8, <1>9, <1>10,
           <1>11, <1>12, <1>13, <1>14, <1>15, <1>16, <1>17, <1>18, <1>19,
           <1>20, <1>21
     DEF Next, LayersAct, LayersUpdate
\* A step that touches neither queues nor copies nor transforms.
LEMMA CopiesUntouched ==
  ASSUME CopiesInv, gizmo'.transform = gizmo.transform, gizmo'.entity = gizmo.entity,
         inspector' = inspector, transform' = transform, commands' = commands,
         events' = events, writers' = writers, pc # "events", pc' # "events"
  PROVE  CopiesInv'
  BY DEF CopiesInv, Wrote

LEMMA GizmoDragCopies ==
  ASSUME LoopInv, NEW t \in Transforms, GizmoDrag(t)
  PROVE  CopiesInv'
<1> DEFINE c == [by |-> "gizmo", entity |-> gizmo.entity, transform |-> t]
<1>1. /\ commands' = Append(commands, c) /\ c \in Command
      /\ gizmo' = [gizmo EXCEPT !.transform = t]
      /\ transform' = transform /\ events' = events /\ writers' = writers
      /\ inspector' = inspector /\ pc = "gizmoActions" /\ pc' = "beginUpdate"
  BY DEF GizmoDrag, Selected, Command, LoopInv, Types, EditTypes, historyVars
<1>2. /\ gizmo'.transform = t /\ gizmo'.entity = gizmo.entity
      /\ Len(events) = 0 /\ Len(commands) = 0
  BY <1>1 DEF LoopInv, Types, EditTypes, CommandsInv, EventsInv, Early
<1>3. Written(commands', transform')[gizmo.entity] = t
  <2>1. \A i \in 1 .. Len(commands) : commands[i].entity = c.entity
    BY DEF LoopInv, CommandsInv
  <2> QED
    BY <1>1, <2>1, OneMoreWritten DEF LoopInv, Types, EditTypes, QueueTypes
<1>4. "gizmo" \in Wrote'
  <2>1. commands' \in Seq(Command) /\ Len(commands') = 1 /\ commands'[1] = c
    BY <1>1, <1>2 DEF LoopInv, Types, QueueTypes
  <2> QED
    BY <2>1 DEF Wrote
<1> QED
  BY <1>1, <1>2, <1>3, <1>4 DEF CopiesInv

LEMMA InspectorEditCopies ==
  ASSUME LoopInv, NEW t \in Transforms, InspectorEdit(t)
  PROVE  CopiesInv'
<1> DEFINE c == [by |-> "inspector", entity |-> inspector.entity, transform |-> t]
           n == Len(commands)
<1>1. /\ commands' = Append(commands, c) /\ c \in Command
      /\ inspector' = [inspector EXCEPT !.transform = t]
      /\ transform' = transform /\ events' = events /\ writers' = writers
      /\ gizmo' = gizmo /\ pc = "editUpdate" /\ pc' = "stageUpdate"
  BY DEF InspectorEdit, Command, LoopInv, Types, EditTypes, Copies, historyVars
<1>2. inspector'.transform = t /\ inspector.entity = gizmo.entity
  BY <1>1 DEF LoopInv, Types, EditTypes, CommandsInv, Copies
<1>3. Written(commands', transform')[gizmo.entity] = t
  <2>1. \A i \in 1 .. Len(commands) : commands[i].entity = c.entity
    BY <1>2 DEF LoopInv, CommandsInv
  <2> QED
    BY <1>1, <1>2, <2>1, OneMoreWritten DEF LoopInv, Types, EditTypes, QueueTypes
<1>4. "inspector" \in Wrote'
  <2>1. commands \in Seq(Command)
    BY DEF LoopInv, Types, QueueTypes
  <2>2. Len(commands') = n + 1 /\ commands'[n + 1] = c /\ n + 1 \in 1 .. Len(commands')
    BY <1>1, <2>1
  <2> QED
    BY <2>2 DEF Wrote
<1> QED
  BY <1>1, <1>2, <1>3, <1>4 DEF CopiesInv, LoopInv

\* The copy in an event is that of the entity now.
LEMMA StagePickCopies ==
  ASSUME LoopInv, NEW e \in Entities, StagePick(e)
  PROVE  CopiesInv'
<1>1. /\ events' = Append(events, SelectionChanged(e)) /\ writers' = {}
      /\ Len(events) = 0 /\ transform' = transform /\ pc' = "beginUpdate"
  BY DEF StagePick, LoopInv, EventsInv, Early
<1>2. /\ SelectionChanged(e) \in Copies /\ SelectionChanged(e).entity = e
      /\ SelectionChanged(e).transform = transform[e]
  BY SelectionIsCopy DEF LoopInv
<1>3. /\ events' \in Seq(Copies) /\ Len(events') = 1
      /\ events'[1] = SelectionChanged(e)
  BY <1>1, <1>2 DEF LoopInv, Types, QueueTypes
<1> QED
  BY <1>1, <1>2, <1>3 DEF CopiesInv

LEMMA SceneUpdateCopies ==
  ASSUME LoopInv, NEW e \in Entities \cup {NoEntity}, SceneUpdate(e)
  PROVE  CopiesInv'
<1>1. CASE ~pick.pending
  BY <1>1, CopiesUntouched DEF SceneUpdate, LoopInv, editVars
<1>2. CASE pick.pending
  <2>1. /\ events' = Append(events, SelectionChanged(e)) /\ writers' = {}
        /\ Len(events) = 0 /\ transform' = transform /\ pc' = "commands"
    BY <1>2 DEF SceneUpdate, LoopInv, EventsInv
  <2>2. /\ SelectionChanged(e) \in Copies /\ SelectionChanged(e).entity = e
        /\ e \in Entities => SelectionChanged(e).transform = transform[e]
    BY SelectionIsCopy DEF LoopInv
  <2>3. /\ events' \in Seq(Copies) /\ Len(events') = 1
        /\ events'[1] = SelectionChanged(e)
    BY <2>1, <2>2 DEF LoopInv, Types, QueueTypes
  <2> QED
    BY <2>1, <2>2, <2>3 DEF CopiesInv
<1> QED
  BY <1>1, <1>2

\* What was written before the copies were taken, and the commands that are
\* done now, are who wrote since; of a command that went past an event the
\* history says "unseen".
LEMMA ProcessCommandsCopies ==
  ASSUME LoopInv, ProcessCommands
  PROVE  CopiesInv'
<1> DEFINE after == Written(commands, transform)
<1>1. /\ commands' = <<>> /\ transform' = after
      /\ writers' = writers \cup NewWriters
      /\ events' = events /\ gizmo' = gizmo /\ inspector' = inspector
      /\ pc = "commands" /\ pc' = "events"
  BY DEF ProcessCommands, editVars
<1>2. /\ commands \in Seq(Command) /\ transform \in [Entities -> Transforms]
      /\ after \in [Entities -> Transforms]
      /\ \A i \in 1 .. Len(commands) : commands[i].entity = gizmo.entity
      /\ gizmo.entity \in Entities \cup {NoEntity}
  BY WrittenIs DEF LoopInv, Types, EditTypes, QueueTypes, CommandsInv
<1>3. CASE Len(events) = 0
  <2>1. NewWriters = {commands[i].by : i \in 1 .. Len(commands)}
    <3>1. events = <<>>
      BY <1>3 DEF LoopInv, Types, QueueTypes
    <3>2. {j \in 1 .. Len(commands) :
              \A k \in 1 .. Len(events) : events[k].entity = commands[j].entity}
            = 1 .. Len(commands)
      BY <1>3
    <3> QED
      BY <3>1, <3>2 DEF NewWriters
  <2>2. Wrote' = Wrote
    BY <1>1, <2>1 DEF Wrote
  <2>3. gizmo.entity # NoEntity =>
           Written(commands', transform')[gizmo.entity] = after[gizmo.entity]
    <3>1. commands' \in Seq(Command) /\ Len(commands') = 0
      BY <1>1
    <3> QED
      BY <1>1, <1>2, <3>1, NothingWritten
  <2> QED
    BY <1>1, <1>3, <2>2, <2>3 DEF CopiesInv, LoopInv
<1>4. CASE Len(events) # 0
  <2>1. Len(events) = 1 /\ events \in Seq(Copies) /\ events # <<>>
    <3>1. events \in Seq(Copies) /\ Len(events) <= 1
      BY DEF LoopInv, EventsInv, Types, QueueTypes
    <3>2. events # <<>>
      BY <1>4, <3>1
    <3>3. Len(events) \in Nat
      BY <3>1
    <3>4. Len(events) <= 1
      BY <3>1
    <3>5. \A k \in Nat : k <= 1 /\ k # 0 => k = 1
      OBVIOUS
    <3>6. Len(events) = 1
      BY <1>4, <3>3, <3>4, <3>5, Zenon
    <3> QED
      BY <3>1, <3>2, <3>6
  <2> DEFINE e == events[1].entity
  <2>2. ASSUME e \in Entities, NEW i \in 1 .. Len(commands), commands[i].entity = e
        PROVE  "unseen" \in writers'
    <3>2. i \in {j \in 1 .. Len(commands) :
                    \A k \in 1 .. Len(events) : events[k].entity = commands[j].entity}
      BY <2>1, <2>2
    <3>3. "unseen" \in NewWriters
      BY <2>1, <3>2 DEF NewWriters
    <3> QED
      BY <1>1, <3>3
  <2>3. ASSUME e \in Entities, \A i \in 1 .. Len(commands) : commands[i].entity # e
        PROVE  events[1].transform = transform'[e]
    <3>1. after[e] = transform[e]
      BY <1>2, <2>3, WrittenIs
    <3>2. events[1].transform = transform[e]
      BY <1>1, <2>1, <2>3 DEF LoopInv, CopiesInv
    <3> QED
      BY <1>1, <3>1, <3>2
  <2> QED
    BY <1>1, <2>1, <2>2, <2>3 DEF CopiesInv
<1> QED
  BY <1>3, <1>4

LEMMA ProcessEventsCopies ==
  ASSUME LoopInv, ProcessEvents
  PROVE  CopiesInv'
<1>1. /\ pc = "events" /\ pc' = "submit" /\ events' = <<>> /\ commands' = commands
      /\ transform' = transform /\ writers' = writers
  BY DEF ProcessEvents, historyVars
<1>2. /\ commands \in Seq(Command) /\ Len(commands) = 0 /\ events \in Seq(Copies)
      /\ transform \in [Entities -> Transforms]
  BY <1>1 DEF LoopInv, Types, EditTypes, QueueTypes, CommandsInv
<1>3. Wrote' = writers
  BY <1>1, <1>2 DEF Wrote
<1>4. CASE Len(events) = 0
  <2>0. events = <<>>
    BY <1>2, <1>4
  <2>1. gizmo' = gizmo /\ inspector' = inspector /\ Len(events) = 0
    BY <1>4, <2>0 DEF ProcessEvents, editVars
  <2>2. Wrote' = Wrote
    BY <1>1 DEF Wrote
  <2> QED
    BY <1>1, <2>1, <2>2 DEF LoopInv, CopiesInv
<1>5. CASE Len(events) # 0
  <2> DEFINE last == events[Len(events)]
  <2>0. events # <<>>
    BY <1>5
  <2>1. Len(events) = 1
    <3>1. Len(events) <= 1
      BY DEF LoopInv, EventsInv
    <3>2. Len(events) \in Nat
      BY <1>2
    <3>3. \A n \in Nat : n <= 1 /\ n # 0 => n = 1
      OBVIOUS
    <3> QED
      BY <1>5, <3>1, <3>2, <3>3
  <2>2. /\ inspector' = last /\ last \in Copies
        /\ gizmo' = [entity |-> last.entity, transform |-> last.transform, active |-> FALSE]
    BY <1>2, <2>0, <2>1 DEF ProcessEvents
  <2>3. last.entity \in Entities =>
           "unseen" \in writers \/ last.transform = transform[last.entity]
    BY <2>1 DEF LoopInv, CopiesInv
  <2>4. last.entity \in Entities =>
           Written(commands', transform')[last.entity] = transform[last.entity]
    BY <1>1, <1>2, NothingWritten
  <2>5. last.entity \in Entities \cup {NoEntity}
    BY <2>2 DEF Copies
  <2>6. gizmo'.entity = last.entity /\ gizmo'.transform = last.transform
        /\ Len(events') = 0
    BY <1>1, <2>2
  <2> HIDE DEF last
  <2> QED
    BY <1>1, <1>3, <2>2, <2>3, <2>4, <2>5, <2>6 DEF CopiesInv
<1> QED
  BY <1>4, <1>5

LEMMA CopiesInvStep ==
  ASSUME LoopInv, [Next]_vars
  PROVE  CopiesInv'
<1>1. CASE MouseDown \/ MouseUp \/ MouseMove \/ MapInput
        \/ (\E consumed \in BOOLEAN : DebugActions(consumed))
        \/ (\E wantsMouse \in BOOLEAN : EditActions(wantsMouse))
  BY <1>1, CopiesUntouched
     DEF LoopInv, MouseDown, MouseUp, MouseMove, MapInput, DebugActions, EditActions,
         inputVars, editVars, queueVars, screenVars, historyVars
<1>2. CASE GizmoStart \/ GizmoPass
  <2>1. gizmo'.transform = gizmo.transform /\ gizmo'.entity = gizmo.entity
    BY <1>2 DEF GizmoStart, GizmoPass, LoopInv, Types, EditTypes
  <2> QED
    BY <1>2, <2>1, CopiesUntouched
       DEF LoopInv, GizmoStart, GizmoPass, queueVars, historyVars
<1>3. CASE StagePass \/ SceneActions \/ BeginUpdate \/ InspectorRests
        \/ StageUpdate \/ Submit
  BY <1>3, CopiesUntouched
     DEF LoopInv, StagePass, SceneActions, BeginUpdate, InspectorRests, StageUpdate,
         Submit, editVars, queueVars, historyVars
<1>4. CASE UNCHANGED vars
  BY <1>4 DEF LoopInv, CopiesInv, Wrote, vars, editVars, queueVars, historyVars
<1> QED
  BY <1>1, <1>2, <1>3, <1>4, GizmoDragCopies, InspectorEditCopies, StagePickCopies,
     SceneUpdateCopies, ProcessCommandsCopies, ProcessEventsCopies
     DEF Next, LayersAct, LayersUpdate

-----------------------------------------------------------------------------
(***************************************************************************)
(* The theorems                                                            *)
(***************************************************************************)

\* The control of the frame.
LEMMA StepsStep ==
  ASSUME LoopInv, [Next]_vars
  PROVE  pc' \in Steps
  BY DEF LoopInv, Types, Steps, BeforeView, Early, Updating, Next, LayersAct,
         LayersUpdate, vars, MouseDown, MouseUp, MouseMove, MapInput, DebugActions,
         EditActions, GizmoStart, GizmoPass, GizmoDrag, StagePick, StagePass,
         SceneActions, BeginUpdate, InspectorEdit, InspectorRests, StageUpdate,
         SceneUpdate, ProcessCommands, ProcessEvents, Submit

\* At every step of every frame, queues, copies, pick and screen are in the
\* state that the steps before it leave them in.
THEOREM LoopInvariant == Spec => []LoopInv
<1>1. LoopInv /\ [Next]_vars => LoopInv'
  BY StepsStep, InputTypesStep, EditTypesStep, QueueTypesStep, ScreenTypesStep,
     WritersTypesStep, CommandsInvStep, EventsInvStep, ScreenInvStep, DragInvStep,
     CopiesInvStep DEF LoopInv, Types
<1> QED
  BY <1>1, InitLoopInv, PTL DEF Spec

\* Every queue holds what it has room for, and a frame leaves nothing in it.
THEOREM LoopEditInv == Spec => []EditInv
<1>1. LoopInv => EditInv
  <2> SUFFICES ASSUME LoopInv PROVE EditInv
    OBVIOUS
  <2> USE DEF LoopInv, Types
  <2>1. TypeOK
    <3>1. \A i \in 1 .. Len(commands) : commands[i].entity \in Entities
      <4>1. \A i \in 1 .. Len(commands) : commands[i] \in Command
        BY DEF QueueTypes
      <4> QED
        BY <4>1 DEF Command
    <3>2. [entity |-> gizmo.entity, transform |-> gizmo.transform] \in Copies
      BY DEF EditTypes, Copies
    <3>3. {view, tlas, icons, pick.ray, pick.on} \subseteq Made
      BY DEF ScreenTypes
    <3> QED
      BY <3>1, <3>2, <3>3
         DEF TypeOK, InputTypes, EditTypes, ScreenTypes, WritersTypes, CommandsInv,
             EventsInv
  <2>2. FrameDrains
    <3>1. pc = "idle" => Len(commands) = 0 /\ Len(events) = 0
      BY DEF CommandsInv, EventsInv, Early
    <3>2. pc = "idle" => ~pick.pending
      BY DEF EventsInv, Updating
    <3> QED
      BY <3>1, <3>2 DEF FrameDrains, QueueTypes
  <2> QED
    BY <2>1, <2>2 DEF EditInv
<1> QED
  BY <1>1, LoopInvariant, PTL

\* Gizmo and inspector always have the same entity.
THEOREM LoopSelectionAgrees == Spec => []SelectionAgrees
<1>1. LoopInv => SelectionAgrees
  BY DEF LoopInv, CommandsInv, SelectionAgrees
<1> QED
  BY <1>1, LoopInvariant, PTL

\* A copy that only its owner wrote is what the entity has.
THEOREM LoopCopiesCurrent == Spec => []CopiesCurrent
<1>1. LoopInv => CopiesCurrent
  <2> SUFFICES ASSUME LoopInv, pc = "idle", Selected
               PROVE  /\ writers \subseteq {"gizmo"} =>
                            gizmo.transform = transform[gizmo.entity]
                      /\ writers \subseteq {"inspector"} =>
                            inspector.transform = transform[gizmo.entity]
    BY DEF CopiesCurrent
  <2>1. /\ Len(commands) = 0 /\ Len(events) = 0 /\ commands \in Seq(Command)
        /\ gizmo.entity \in Entities /\ gizmo.entity # NoEntity
        /\ transform \in [Entities -> Transforms]
    BY DEF LoopInv, Types, EditTypes, QueueTypes, CommandsInv, EventsInv, Early, Selected
  <2>2. Wrote = writers
    BY <2>1 DEF Wrote
  <2>3. Written(commands, transform)[gizmo.entity] = transform[gizmo.entity]
    BY <2>1, NothingWritten
  <2> QED
    BY <2>1, <2>2, <2>3 DEF LoopInv, CopiesInv
<1> QED
  BY <1>1, LoopInvariant, PTL

\* A drag without a button is one whose end was swallowed.
THEOREM LoopDragEnds == Spec => []DragEndsUnlessSwallowed
<1>1. LoopInv => DragEndsUnlessSwallowed
  BY DEF LoopInv, DragInv, DragEndsUnlessSwallowed
<1> QED
  BY <1>1, LoopInvariant, PTL

\* A write reaches the entity that is selected, and no other.
THEOREM LoopEditsHitSelection == Spec => EditsHitSelection
<1>1. LoopInv /\ [Next]_vars =>
         [\A e \in Entities : transform'[e] # transform[e] =>
             e = gizmo.entity /\ e = inspector.entity]_vars
  <2> SUFFICES ASSUME LoopInv, Next, NEW e \in Entities, transform'[e] # transform[e]
               PROVE  e = gizmo.entity /\ e = inspector.entity
    OBVIOUS
  <2>1. CASE ProcessCommands
    <3>1. /\ commands \in Seq(Command) /\ transform \in [Entities -> Transforms]
          /\ \A i \in 1 .. Len(commands) : commands[i].entity = gizmo.entity
          /\ gizmo.entity = inspector.entity
      BY DEF LoopInv, Types, EditTypes, QueueTypes, CommandsInv
    <3>2. transform'[e] = Written(commands, transform)[e]
      BY <2>1 DEF ProcessCommands
    <3>3. e # gizmo.entity => Written(commands, transform)[e] = transform[e]
      BY <3>1, WrittenIs
    <3> QED
      BY <3>1, <3>2, <3>3
  <2>2. CASE ~ProcessCommands
    BY <2>2 DEF Next, LayersAct, LayersUpdate, MouseDown, MouseUp, MouseMove, MapInput,
         DebugActions, EditActions, GizmoStart, GizmoPass, GizmoDrag, StagePick,
         StagePass, SceneActions, BeginUpdate, InspectorEdit, InspectorRests,
         StageUpdate, SceneUpdate, ProcessEvents, Submit
  <2> QED
    BY <2>1, <2>2
<1> QED
  BY <1>1, LoopInvariant, PTL DEF Spec, EditsHitSelection

\* A ray is cast into the BVH of the picture it was taken from.
THEOREM LoopPickSeesWhatWasClicked == Spec => PickSeesWhatWasClicked
<1>1. LoopInv /\ [Next]_vars => [pick.pending /\ ~pick'.pending => pick'.on = pick.ray]_vars
  <2> SUFFICES ASSUME LoopInv, Next, pick.pending, ~pick'.pending
               PROVE  pick'.on = pick.ray
    OBVIOUS
  <2>1. pick.ray = tlas /\ pick \in [pending : BOOLEAN, ray : Made, on : Made]
    BY DEF LoopInv, ScreenInv, Types, ScreenTypes
  <2>2. CASE \E e \in Entities \cup {NoEntity} : SceneUpdate(e)
    BY <2>1, <2>2 DEF SceneUpdate
  <2>3. CASE SceneActions
    BY <2>1, <2>3 DEF SceneActions
  <2>4. CASE ~SceneActions /\ ~(\E e \in Entities \cup {NoEntity} : SceneUpdate(e))
    BY <2>4 DEF Next, LayersAct, LayersUpdate, MouseDown, MouseUp, MouseMove, MapInput,
         DebugActions, EditActions, GizmoStart, GizmoPass, GizmoDrag, StagePick,
         StagePass, BeginUpdate, InspectorEdit, InspectorRests, StageUpdate,
         ProcessCommands, ProcessEvents, Submit
  <2> QED
    BY <2>2, <2>3, <2>4
<1> QED
  BY <1>1, LoopInvariant, PTL DEF Spec, PickSeesWhatWasClicked
=============================================================================
