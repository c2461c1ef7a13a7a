-------------------------- MODULE FrontPanelProofs --------------------------
(***************************************************************************)
(* What holds of the front panel for every tree of menus that fits         *)
(* nav_stack and every queue length.                                       *)
(*                                                                         *)
(* IndInv says why: whoever is inside a critical section holds the mutex   *)
(* (MutexOK), only the input task moves nav_depth, so the references it    *)
(* took before locking stay good (InputOK), and the layer a submenu is     *)
(* pushed to exists because menus on the stack get deeper with the stack   *)
(* (LevelsOK).                                                             *)
(***************************************************************************)
EXTENDS FrontPanel, TLAPS, SequenceTheorems

USE DEF MayLock, Unlocked, MayIncrement, MayDecrement, NewLayer, LeftCleared, screenVars

\* Where a cursor may stand, and a press that moves it to a place if it may stand there.
MayStand(i) == i \in Slots /\ ItemAt(i) # "none"
Move(button, to) == MoveCursor(button, MayStand(to), to)

LEMMA OfferType ==
  ASSUME NEW q \in Seq(Buttons), Len(q) <= QUEUE_LENGTH, NEW b \in Buttons, NEW level
  PROVE  Offer(q, b, level) \in Seq(Buttons) /\ Len(Offer(q, b, level)) <= QUEUE_LENGTH
BY SizeAssumption, SMTT(30) DEF Offer

LEMMA LayerTypes ==
  ASSUME NEW m \in Menus \cup {NoMenu}, NEW i \in Slots
  PROVE  /\ Layer(m, i) \in LayerType
         /\ Layer(m, i).list = m
         /\ Layer(m, i).menu_index = i
BY DEF Layer, LayerType

LEMMA NoLayerType == NoLayer \in LayerType /\ NoLayer.list = NoMenu
BY SizeAssumption DEF NoLayer, Layer, LayerType, Slots

\* The panel starts in the invariant.
LEMMA InitIndInv == Init => IndInv
<1> SUFFICES ASSUME Init PROVE IndInv
  OBVIOUS
<1> USE SizeAssumption, MenuAssumption
<1>1. 0 \in Slots
  BY DEF Slots
<1>2. Layer(TopMenu, 0) \in LayerType /\ NoLayer \in LayerType
  BY <1>1, LayerTypes, NoLayerType
<1>3. nav_stack \in [0..(MENU_MAX_DEPTH - 1) -> LayerType]
  BY <1>2 DEF Init
<1>4. PanelTypeOK
  <2>1. current_button_state \in [Buttons -> BOOLEAN]
    BY DEF Init
  <2>2. shown \in [layer : LayerType, above : Drawable, here : Drawable, below : Drawable]
    BY NoLayerType DEF Init, LoadingScreen, Drawable
  <2>3. input_queue \in Seq(Buttons) /\ Len(input_queue) <= QUEUE_LENGTH
    BY DEF Init
  <2>4. nav_depth \in 0..(MENU_MAX_DEPTH - 1)
    BY DEF Init
  <2>5. input \in [pc : {"receive", "lock", "push", "pop"},
                    button : Buttons \cup {"none"}, layer : 0..(MENU_MAX_DEPTH - 1)]
    BY DEF Init
  <2>6. screen \in [pc : {"update", "wait", "draw"}, drawing : LayerType]
    BY <1>2 DEF Init
  <2> QED
    BY <1>3, <2>1, <2>2, <2>3, <2>4, <2>5, <2>6 DEF Init, PanelTypeOK
<1>5. Deepest = 0 /\ nav_stack[0] = Layer(TopMenu, 0)
  BY DEF Init, Deepest
<1>6. PathOK /\ LevelsOK
  BY <1>1, <1>5, LayerTypes DEF PathOK, LevelsOK
<1>7. LayersAboveEmpty
  BY <1>3, <1>5 DEF LayersAboveEmpty, Init
<1>8. NoCrash /\ NoTornDraw /\ MutexOK /\ InputOK
  BY DEF Init, NoCrash, NoTornDraw, MutexOK, InputOK
<1> QED
  BY <1>4, <1>6, <1>7, <1>8 DEF IndInv

-----------------------------------------------------------------------------
(* Steps that leave the stack, the mutex and both tasks alone *)

LEMMA PollInv == ASSUME IndInv, NEW level \in Levels, Poll(level) PROVE IndInv'
<1>1. PanelTypeOK'
  <2>1. "confirm" \in Buttons /\ "increment" \in Buttons /\ "decrement" \in Buttons
    BY DEF Buttons
  <2>2. input_queue' \in Seq(Buttons) /\ Len(input_queue') <= QUEUE_LENGTH
    <3> DEFINE q1 == Offer(input_queue, "confirm", level)
               q2 == Offer(q1, "increment", level)
               q3 == Offer(q2, "decrement", level)
    <3>1. q1 \in Seq(Buttons) /\ Len(q1) <= QUEUE_LENGTH
      BY <2>1, OfferType DEF IndInv, PanelTypeOK
    <3> HIDE DEF q1
    <3>2. q2 \in Seq(Buttons) /\ Len(q2) <= QUEUE_LENGTH
      BY <2>1, <3>1, OfferType
    <3> HIDE DEF q2
    <3>3. q3 \in Seq(Buttons) /\ Len(q3) <= QUEUE_LENGTH
      BY <2>1, <3>2, OfferType
    <3>4. input_queue' = q3
      BY DEF Poll, PollOrder, q1, q2, q3
    <3> QED
      BY <3>3, <3>4
  <2> QED
    BY <2>2 DEF IndInv, PanelTypeOK, Poll, screenVars, Levels
<1>2. Deepest' = Deepest
  BY DEF Poll, Deepest
<1> QED
  BY <1>1, <1>2 DEF IndInv, Poll, NoCrash, PathOK, LayersAboveEmpty, NoTornDraw, MutexOK,
                    InputOK, LevelsOK, Current, Cursor

LEMMA StutterInv == ASSUME IndInv, UNCHANGED vars PROVE IndInv'
<1>1. Deepest' = Deepest
  BY DEF vars, Deepest
<1> QED
  BY <1>1 DEF IndInv, PanelTypeOK, vars, NoCrash, PathOK, LayersAboveEmpty, NoTornDraw,
              MutexOK, InputOK, LevelsOK, Current, Cursor

LEMMA StartDrawInv == ASSUME IndInv, StartDraw PROVE IndInv'
<1>1. Current \in LayerType /\ Current' = Current /\ Deepest' = Deepest
  BY DEF IndInv, PanelTypeOK, StartDraw, Current, Deepest
<1>2. PanelTypeOK'
  BY <1>1 DEF IndInv, PanelTypeOK, StartDraw, pollVars, screenVars
<1>3. Deepest = nav_depth
  BY DEF IndInv, MutexOK, StartDraw, Deepest
<1>4. NoTornDraw'
  BY <1>1, <1>3 DEF IndInv, PanelTypeOK, PathOK, StartDraw, NoTornDraw, Current
<1> QED
  BY <1>1, <1>2, <1>4 DEF IndInv, StartDraw, NoCrash, PathOK, LayersAboveEmpty, MutexOK,
                          InputOK, LevelsOK, Cursor

LEMMA UpdateInv == ASSUME IndInv, UpdateDisplayState PROVE IndInv'
<1>1. Deepest' = Deepest
  BY DEF UpdateDisplayState, Deepest
<1>2. PanelTypeOK'
  BY DEF IndInv, PanelTypeOK, UpdateDisplayState, pollVars
<1> QED
  BY <1>1, <1>2 DEF IndInv, PanelTypeOK, UpdateDisplayState, NoCrash, NoTornDraw, PathOK,
                    LayersAboveEmpty, MutexOK, InputOK, LevelsOK, Cursor

LEMMA FrameType ==
  ASSUME NEW l \in LayerType, l.list \in Menus
  PROVE  Frame(l) \in [layer : LayerType, above : Drawable, here : Drawable,
                       below : Drawable]
<1>1. \A i \in Slots : Drawn(Item[l.list][i]) \in Drawable
  BY MenuAssumption DEF Drawn, Drawable
<1>2. l.menu_index \in Slots
  BY DEF LayerType
<1>3. Above(l) \in Drawable /\ Below(l) \in Drawable
  BY <1>1, <1>2, SizeAssumption DEF Above, Below, Slots, Drawable
<1> QED
  BY <1>1, <1>2, <1>3 DEF Frame

LEMMA FinishDrawInv == ASSUME IndInv, FinishDraw PROVE IndInv'
<1>1. Deepest' = Deepest
  BY DEF FinishDraw, Deepest
<1>2. screen.drawing \in LayerType /\ screen.drawing.list \in Menus
  BY DEF IndInv, PanelTypeOK, NoTornDraw, FinishDraw
<1>3. PanelTypeOK' /\ NoCrash'
  BY <1>2, NoLayerType, FrameType
     DEF IndInv, PanelTypeOK, FinishDraw, pollVars, NoCrash, LayerType
<1> QED
  BY <1>1, <1>3 DEF IndInv, FinishDraw, NoTornDraw, PathOK, LayersAboveEmpty, MutexOK,
                    InputOK, LevelsOK, Cursor

-----------------------------------------------------------------------------
(* Steps of the input task *)

LEMMA ReceiveInputInv == ASSUME IndInv, ReceiveInput PROVE IndInv'
<1>1. Deepest' = Deepest
  BY DEF ReceiveInput, Deepest
<1>2. Head(input_queue) \in Buttons /\ Tail(input_queue) \in Seq(Buttons)
      /\ Len(Tail(input_queue)) <= QUEUE_LENGTH
  BY SizeAssumption DEF IndInv, PanelTypeOK, ReceiveInput
<1>3. PanelTypeOK'
  BY <1>2 DEF IndInv, PanelTypeOK, ReceiveInput, pollVars, screenVars
<1>4. InputOK' /\ MutexOK'
  BY <1>2 DEF IndInv, InputOK, MutexOK, ReceiveInput
<1> QED
  BY <1>1, <1>3, <1>4 DEF IndInv, ReceiveInput, NoCrash, PathOK, LayersAboveEmpty,
                          NoTornDraw, LevelsOK, Current

\* What a press finds once it has the mutex.
LEMMA CursorFacts ==
  ASSUME IndInv, NEW b, Ready(b)
  PROVE  /\ input.pc = "lock"
         /\ input.layer = nav_depth
         /\ Deepest = nav_depth
         /\ nav_depth \in DOMAIN nav_stack
         /\ Cursor = nav_stack[nav_depth]
         /\ Cursor \in LayerType
         /\ Cursor.list \in Menus
         /\ Cursor.menu_index \in Slots
         /\ Item[Cursor.list][Cursor.menu_index] # "none"
         /\ \A i : ItemAt(i) = Item[Cursor.list][i]
         /\ screen.pc # "draw"
<1>1. input.pc = "lock" /\ input.layer = nav_depth /\ Deepest = nav_depth
  BY DEF Ready, IndInv, InputOK, Deepest
<1>2. nav_depth \in 0..Deepest /\ nav_depth \in DOMAIN nav_stack
  BY <1>1 DEF IndInv, PanelTypeOK
<1>3. Cursor = nav_stack[nav_depth] /\ Cursor \in LayerType
  BY <1>1, <1>2 DEF Cursor, IndInv, PanelTypeOK
<1>4. Cursor.list \in Menus /\ Item[Cursor.list][Cursor.menu_index] # "none"
  BY <1>2, <1>3 DEF IndInv, PathOK
<1>5. \A i : ItemAt(i) = Item[Cursor.list][i]
  BY <1>4, MenuAssumption DEF ItemAt
<1>6. screen.pc # "draw"
  BY DEF Ready, IndInv, MutexOK
<1> QED
  BY <1>1, <1>2, <1>3, <1>4, <1>5, <1>6 DEF LayerType

\* The code's tests for the two directions are those for where the cursor would stand:
\* nothing wraps around at the ends of the array.
LEMMA MoveTests ==
  ASSUME IndInv
  PROVE  /\ Increment => Move("increment", Cursor.menu_index + 1)
         /\ Decrement => Move("decrement", Cursor.menu_index - 1)
<1>1. ASSUME NEW b, Ready(b)
      PROVE  /\ MayIncrement <=> MayStand(Cursor.menu_index + 1)
             /\ MayDecrement <=> MayStand(Cursor.menu_index - 1)
  BY <1>1, CursorFacts, SizeAssumption DEF MayStand, Slots
<1>2. Increment => Move("increment", Cursor.menu_index + 1)
  <2> SUFFICES ASSUME Increment PROVE Move("increment", Cursor.menu_index + 1)
    OBVIOUS
  <2>1. MayIncrement <=> MayStand(Cursor.menu_index + 1)
    BY <1>1 DEF Increment, MoveCursor
  <2> HIDE DEF MayIncrement
  <2> QED
    BY <2>1 DEF Increment, Move, MoveCursor
<1>3. Decrement => Move("decrement", Cursor.menu_index - 1)
  <2> SUFFICES ASSUME Decrement PROVE Move("decrement", Cursor.menu_index - 1)
    OBVIOUS
  <2>1. MayDecrement <=> MayStand(Cursor.menu_index - 1)
    BY <1>1 DEF Decrement, MoveCursor
  <2> HIDE DEF MayDecrement
  <2> QED
    BY <2>1 DEF Decrement, Move, MoveCursor
<1> QED
  BY <1>2, <1>3

LEMMA MoveCursorInv ==
  ASSUME IndInv, NEW b, NEW to, Move(b, to)
  PROVE  IndInv'
<1> USE DEF Move, MayStand
<1>1. Ready(b)
  BY DEF MoveCursor
<1> USE CursorFacts, <1>1
<1>2. /\ \A k \in DOMAIN nav_stack : nav_stack'[k].list = nav_stack[k].list
      /\ \A k \in DOMAIN nav_stack \ {nav_depth} : nav_stack'[k] = nav_stack[k]
      /\ nav_stack' \in [0..(MENU_MAX_DEPTH - 1) -> LayerType]
      /\ nav_stack'[nav_depth].menu_index \in Slots
      /\ Item[nav_stack[nav_depth].list][nav_stack'[nav_depth].menu_index] # "none"
  <2>1. CASE to \in Slots /\ ItemAt(to) # "none" /\ CursorTo(to)
    <3>1. nav_stack' = [nav_stack EXCEPT ![nav_depth] = [Cursor EXCEPT !.menu_index = to]]
      BY <2>1 DEF CursorTo
    <3>2. [Cursor EXCEPT !.menu_index = to] \in LayerType
          /\ [Cursor EXCEPT !.menu_index = to].list = Cursor.list
          /\ [Cursor EXCEPT !.menu_index = to].menu_index = to
      BY <2>1 DEF LayerType
    <3> QED
      BY <2>1, <3>1, <3>2 DEF IndInv, PanelTypeOK
  <2>2. CASE UNCHANGED nav_stack
    BY <2>2 DEF IndInv, PanelTypeOK
  <2> QED
    BY <2>1, <2>2 DEF MoveCursor
<1>3. nav_depth' = nav_depth /\ Deepest' = nav_depth /\ input' = InputIdle
  BY DEF MoveCursor, Deepest, InputIdle
<1>4. PanelTypeOK'
  BY <1>2, SizeAssumption DEF IndInv, PanelTypeOK, MoveCursor, InputIdle, pollVars, screenVars
<1>5. /\ DOMAIN nav_stack = 0..(MENU_MAX_DEPTH - 1)
      /\ nav_depth \in 0..(MENU_MAX_DEPTH - 1)
      /\ Deepest = nav_depth
      /\ MENU_MAX_DEPTH \in Nat
  BY <1>1, CursorFacts, SizeAssumption DEF IndInv, PanelTypeOK
<1>6. PathOK'
  <2>1. nav_stack'[0].list = TopMenu
    BY <1>2, <1>5 DEF IndInv, PathOK
  <2>2. ASSUME NEW k \in 0..nav_depth
        PROVE  /\ nav_stack'[k].list \in Menus
               /\ Item[nav_stack'[k].list][nav_stack'[k].menu_index] # "none"
    <3>1. k \in DOMAIN nav_stack /\ k \in 0..Deepest
      BY <1>5
    <3>2. CASE k = nav_depth
      BY <1>2, <3>1, <3>2 DEF IndInv, PathOK
    <3>3. CASE k # nav_depth
      <4>1. nav_stack'[k] = nav_stack[k]
        BY <1>2, <3>1, <3>3
      <4> QED
        BY <3>1, <4>1 DEF IndInv, PathOK
    <3> QED
      BY <3>2, <3>3
  <2>3. ASSUME NEW k \in 1..nav_depth
        PROVE  nav_stack'[k].list =
                 Item[nav_stack'[k - 1].list][nav_stack'[k - 1].menu_index]
    <3>1. k \in DOMAIN nav_stack /\ k - 1 \in DOMAIN nav_stack \ {nav_depth}
      BY <1>5
    <3> QED
      BY <1>2, <3>1 DEF IndInv, PathOK
  <2> QED
    BY <1>3, <2>1, <2>2, <2>3 DEF PathOK
<1>7. LayersAboveEmpty'
  BY <1>2, <1>3, <1>5 DEF IndInv, PanelTypeOK, LayersAboveEmpty
<1>8. LevelsOK'
  BY <1>2, <1>3, <1>5 DEF IndInv, LevelsOK
<1> QED
  BY <1>3, <1>4, <1>6, <1>7, <1>8
     DEF IndInv, MoveCursor, NoCrash, NoTornDraw, MutexOK, InputOK, InputIdle

LEMMA ConfirmValueInv == ASSUME IndInv, ConfirmValue PROVE IndInv'
<1>1. Ready("confirm")
  BY DEF ConfirmValue
<1> USE CursorFacts, <1>1
<1>2. NoCrash'
  BY DEF ConfirmValue, NoCrash
<1>3. nav_depth' = nav_depth /\ nav_stack' = nav_stack /\ Deepest' = Deepest
      /\ input' = InputIdle
  BY DEF ConfirmValue, Deepest, InputIdle
<1>4. PanelTypeOK'
  BY <1>2, <1>3, SizeAssumption
     DEF IndInv, PanelTypeOK, ConfirmValue, InputIdle, pollVars, screenVars, NoCrash
<1> QED
  BY <1>2, <1>3, <1>4 DEF IndInv, ConfirmValue, PathOK, LayersAboveEmpty, NoTornDraw,
                          MutexOK, InputOK, LevelsOK, InputIdle

LEMMA ConfirmEnterInv == ASSUME IndInv, ConfirmEnter PROVE IndInv'
<1> DEFINE sub == Item[Cursor.list][Cursor.menu_index]
<1>1. /\ Deepest = nav_depth
      /\ Cursor = nav_stack[nav_depth]
      /\ Cursor.list \in Menus
      /\ Cursor.menu_index \in Slots
      /\ input.pc = "lock"
      /\ input.layer = nav_depth
      /\ screen.pc # "draw"
      /\ sub \in Menus
  BY CursorFacts DEF ConfirmEnter
<1>2. nav_depth \in Nat /\ MENU_MAX_DEPTH \in Nat
  BY SizeAssumption DEF IndInv, PanelTypeOK
<1>3. nav_depth <= Level[Cursor.list]
  BY <1>1, <1>2 DEF IndInv, LevelsOK
<1>4. Level[sub] > Level[Cursor.list] /\ Level[sub] \in 0..(MENU_MAX_DEPTH - 1)
      /\ Level[Cursor.list] \in 0..(MENU_MAX_DEPTH - 1)
  BY <1>1, MenuAssumption
<1>5. nav_depth + 1 \in 0..(MENU_MAX_DEPTH - 1) /\ Level[sub] >= nav_depth + 1
  BY <1>2, <1>3, <1>4
<1>6. /\ nav_depth' = nav_depth + 1
      /\ nav_stack' = nav_stack
      /\ input' = [input EXCEPT !.pc = "push"]
      /\ input'.pc = "push" /\ input'.layer = nav_depth /\ input'.button = input.button
  <2>1. input \in [pc : {"receive", "lock", "push", "pop"},
                    button : Buttons \cup {"none"}, layer : 0..(MENU_MAX_DEPTH - 1)]
    BY DEF IndInv, PanelTypeOK
  <2> QED
    BY <1>1, <2>1 DEF ConfirmEnter
<1>7. Deepest' = Deepest /\ Cursor' = Cursor
  BY <1>1, <1>2, <1>6 DEF Deepest, Cursor
<1>8. PanelTypeOK'
  BY <1>5, <1>6 DEF IndInv, PanelTypeOK, ConfirmEnter, pollVars, screenVars
<1>9. InputOK'
  BY <1>1, <1>2, <1>5, <1>6, <1>7 DEF IndInv, InputOK
<1> QED
  BY <1>1, <1>6, <1>7, <1>8, <1>9
     DEF IndInv, ConfirmEnter, NoCrash, PathOK, LayersAboveEmpty, NoTornDraw, MutexOK, LevelsOK

LEMMA PushLayerInv == ASSUME IndInv, PushLayer PROVE IndInv'
<1> DEFINE sub == Item[Cursor.list][Cursor.menu_index]
<1>1. /\ Deepest = nav_depth - 1
      /\ input.layer = nav_depth - 1
      /\ sub \in Menus
      /\ Level[sub] >= nav_depth
      /\ screen.pc # "draw"
      /\ nav_depth > 0
  BY DEF IndInv, InputOK, MutexOK, PushLayer, Deepest
<1>2. /\ nav_depth \in 0..(MENU_MAX_DEPTH - 1)
      /\ DOMAIN nav_stack = 0..(MENU_MAX_DEPTH - 1)
      /\ MENU_MAX_DEPTH \in Nat
  BY SizeAssumption DEF IndInv, PanelTypeOK
<1>3. Cursor = nav_stack[nav_depth - 1] /\ nav_depth - 1 \in 0..Deepest
  BY <1>1, <1>2 DEF Cursor
<1>4. Cursor.list \in Menus
  BY <1>3 DEF IndInv, PathOK
<1>5. ItemAt(Cursor.menu_index) = sub
  BY <1>4, MenuAssumption DEF ItemAt
<1>6. /\ Layer(sub, 0) \in LayerType
      /\ Layer(sub, 0).list = sub
      /\ Layer(sub, 0).menu_index = 0
      /\ Item[sub][0] # "none"
  BY <1>1, LayerTypes, MenuAssumption, SizeAssumption DEF Slots
<1>7. nav_stack' = [nav_stack EXCEPT ![nav_depth] = Layer(sub, 0)]
  BY <1>5 DEF PushLayer
<1>8. /\ nav_stack' \in [0..(MENU_MAX_DEPTH - 1) -> LayerType]
      /\ nav_stack'[nav_depth] = Layer(sub, 0)
      /\ \A k \in DOMAIN nav_stack \ {nav_depth} : nav_stack'[k] = nav_stack[k]
  BY <1>2, <1>6, <1>7 DEF IndInv, PanelTypeOK
<1>9. nav_depth' = nav_depth /\ input' = InputIdle /\ Deepest' = nav_depth
  BY DEF PushLayer, InputIdle, Deepest
<1>10. PanelTypeOK' /\ NoCrash'
  BY <1>2, <1>8, SizeAssumption
     DEF IndInv, PanelTypeOK, NoCrash, PushLayer, InputIdle, pollVars, screenVars
<1>11. PathOK'
  <2>1. nav_stack'[0].list = TopMenu
    BY <1>1, <1>2, <1>8 DEF IndInv, PathOK
  <2>2. ASSUME NEW k \in 0..nav_depth
        PROVE  /\ nav_stack'[k].list \in Menus
               /\ Item[nav_stack'[k].list][nav_stack'[k].menu_index] # "none"
    <3>1. CASE k = nav_depth
      BY <1>1, <1>6, <1>8, <3>1
    <3>2. CASE k # nav_depth
      <4>1. k \in 0..Deepest /\ nav_stack'[k] = nav_stack[k]
        BY <1>1, <1>2, <1>8, <3>2
      <4> QED
        BY <4>1 DEF IndInv, PathOK
    <3> QED
      BY <3>1, <3>2
  <2>3. ASSUME NEW k \in 1..nav_depth
        PROVE  nav_stack'[k].list =
                 Item[nav_stack'[k - 1].list][nav_stack'[k - 1].menu_index]
    <3>1. nav_stack'[k - 1] = nav_stack[k - 1]
      BY <1>1, <1>2, <1>8
    <3>2. CASE k = nav_depth
      BY <1>3, <1>6, <1>8, <3>1, <3>2
    <3>3. CASE k # nav_depth
      <4>1. k \in 1..Deepest /\ nav_stack'[k] = nav_stack[k]
        BY <1>1, <1>2, <1>8, <3>3
      <4> QED
        BY <3>1, <4>1 DEF IndInv, PathOK
    <3> QED
      BY <3>2, <3>3
  <2> QED
    BY <1>9, <2>1, <2>2, <2>3 DEF PathOK
<1>12. LayersAboveEmpty'
  BY <1>1, <1>2, <1>8, <1>9 DEF IndInv, LayersAboveEmpty
<1>13. LevelsOK'
  BY <1>1, <1>2, <1>6, <1>8, <1>9 DEF IndInv, LevelsOK
<1> QED
  BY <1>1, <1>9, <1>10, <1>11, <1>12, <1>13
     DEF IndInv, PushLayer, NoTornDraw, MutexOK, InputOK, InputIdle

LEMMA ConfirmBackInv == ASSUME IndInv, ConfirmBack PROVE IndInv'
<1>1. /\ Deepest = nav_depth
      /\ input.pc = "lock"
      /\ input.layer = nav_depth
      /\ input.button = "confirm"
      /\ screen.pc # "draw"
  BY CursorFacts DEF ConfirmBack, Ready
<1>2. /\ nav_depth \in 0..(MENU_MAX_DEPTH - 1)
      /\ DOMAIN nav_stack = 0..(MENU_MAX_DEPTH - 1)
      /\ MENU_MAX_DEPTH \in Nat
  BY SizeAssumption DEF IndInv, PanelTypeOK
<1>3. CASE /\ nav_depth > 0
           /\ nav_stack' = [nav_stack EXCEPT ![nav_depth] = NoLayer]
           /\ display_mutex' = "input"
           /\ input' = [input EXCEPT !.pc = "pop"]
  <2>1. /\ nav_stack' \in [0..(MENU_MAX_DEPTH - 1) -> LayerType]
        /\ nav_stack'[nav_depth] = NoLayer
        /\ \A k \in DOMAIN nav_stack \ {nav_depth} : nav_stack'[k] = nav_stack[k]
    BY <1>2, <1>3, NoLayerType DEF IndInv, PanelTypeOK
  <2>2. /\ input'.pc = "pop" /\ input'.layer = nav_depth /\ input'.button = input.button
        /\ input' \in [pc : {"receive", "lock", "push", "pop"},
                       button : Buttons \cup {"none"}, layer : 0..(MENU_MAX_DEPTH - 1)]
    BY <1>1, <1>3 DEF IndInv, PanelTypeOK
  <2>3. nav_depth' = nav_depth /\ Deepest' = nav_depth - 1
    BY <2>2 DEF ConfirmBack, Deepest
  <2>4. PanelTypeOK'
    BY <1>3, <2>1, <2>2 DEF IndInv, PanelTypeOK, ConfirmBack, pollVars, screenVars
  <2>5. PathOK' /\ LevelsOK'
    <3>1. \A k \in 0..Deepest' : k \in 0..Deepest /\ nav_stack'[k] = nav_stack[k]
      BY <1>1, <1>2, <2>1, <2>3
    <3>2. \A k \in 1..Deepest' : k \in 1..Deepest /\ k - 1 \in 0..Deepest' /\ k \in 0..Deepest'
      BY <1>1, <1>2, <2>3
    <3>3. 0 \in 0..Deepest'
      BY <1>2, <1>3, <2>3
    <3> QED
      BY <3>1, <3>2, <3>3 DEF IndInv, PathOK, LevelsOK
  <2>6. LayersAboveEmpty'
    BY <1>1, <1>2, <2>1, <2>3 DEF IndInv, LayersAboveEmpty
  <2> QED
    BY <1>1, <1>3, <2>2, <2>3, <2>4, <2>5, <2>6
       DEF IndInv, ConfirmBack, NoCrash, NoTornDraw, MutexOK, InputOK
<1>4. CASE nav_depth = 0 /\ input' = InputIdle /\ UNCHANGED <<nav_stack, display_mutex>>
  <2>1. nav_depth' = nav_depth /\ Deepest' = Deepest
    BY <1>1, <1>4 DEF ConfirmBack, InputIdle, Deepest
  <2>2. PanelTypeOK'
    BY <1>4, SizeAssumption DEF IndInv, PanelTypeOK, ConfirmBack, InputIdle,
                                  pollVars, screenVars
  <2> QED
    BY <1>1, <1>4, <2>1, <2>2
       DEF IndInv, ConfirmBack, NoCrash, PathOK, LayersAboveEmpty, NoTornDraw, MutexOK,
           InputOK, LevelsOK, InputIdle
<1> QED
  BY <1>3, <1>4 DEF ConfirmBack

LEMMA PopLayerInv == ASSUME IndInv, PopLayer PROVE IndInv'
<1>1. /\ nav_depth > 0
      /\ screen.pc # "draw"
      /\ nav_depth \in 0..(MENU_MAX_DEPTH - 1)
      /\ Deepest = nav_depth - 1
  BY DEF IndInv, PanelTypeOK, InputOK, MutexOK, PopLayer, Deepest
<1>2. nav_depth' = nav_depth - 1 /\ Deepest' = Deepest
  BY <1>1 DEF PopLayer, InputIdle, Deepest
<1>3. PanelTypeOK'
  BY <1>1, <1>2, SizeAssumption DEF IndInv, PanelTypeOK, PopLayer, InputIdle,
                                          pollVars, screenVars
<1> QED
  BY <1>1, <1>2, <1>3
     DEF IndInv, PopLayer, NoCrash, PathOK, LayersAboveEmpty, NoTornDraw, MutexOK, InputOK,
         LevelsOK, InputIdle

-----------------------------------------------------------------------------
(* The theorems *)

LEMMA NextIndInv == IndInv /\ [Next]_vars => IndInv'
<1> SUFFICES ASSUME IndInv, [Next]_vars PROVE IndInv'
  OBVIOUS
<1>1. CASE \E level \in Levels : Poll(level)
  BY <1>1, PollInv
<1>2. CASE Increment \/ Decrement
  BY <1>2, MoveCursorInv, MoveTests
<1> QED
  BY <1>1, <1>2, ReceiveInputInv, ConfirmValueInv, ConfirmEnterInv, PushLayerInv,
     ConfirmBackInv, PopLayerInv, UpdateInv, StartDrawInv,
     FinishDrawInv, StutterInv
     DEF Next, HandleInput, FinishInput

THEOREM Inductive == Spec => []IndInv
BY InitIndInv, NextIndInv, PTL DEF Spec

\* Every variable keeps its type, for every menu tree and queue length.
THEOREM PanelTypes == Spec => []PanelTypeOK
BY Inductive, PTL DEF IndInv

\* No press of any button, in any order and at any moment of a drawing, makes a
\* range check of nav_stack or of a menu's array fail or follows a null item.
THEOREM NeverCrashes == Spec => []NoCrash
BY Inductive, PTL DEF IndInv

\* The stack is always a path down the tree of menus, cursors on items.
THEOREM PathsReal == Spec => []PathOK
BY Inductive, PTL DEF IndInv

\* A menu that was left is released.
THEOREM LeftMenusReleased == Spec => []LayersAboveEmpty
BY Inductive, PTL DEF IndInv

\* The display never draws on incomplete data.
THEOREM DrawsWhole == Spec => []NoTornDraw
BY Inductive, PTL DEF IndInv

-----------------------------------------------------------------------------
(* What the display announces *)

\* The display shows a loading screen or a whole frame of some layer.
ShownWhole == shown.layer = NoLayer \/ shown = Frame(shown.layer)

LEMMA ShownWholeStep == ShownWhole /\ [Next]_vars => ShownWhole'
<1>1. FinishDraw => shown' = Frame(screen.drawing)
  BY DEF FinishDraw
<1>2. \A l : Frame(l).layer = l
  BY DEF Frame
<1>3. [Next]_vars /\ ~FinishDraw => UNCHANGED shown
  BY DEF Next, vars, Poll, ReceiveInput, HandleInput, Increment, Decrement, MoveCursor,
         ConfirmValue, ConfirmEnter, ConfirmBack, FinishInput, PushLayer, PopLayer,
         UpdateDisplayState, StartDraw
<1> QED
  BY <1>1, <1>2, <1>3 DEF ShownWhole

LEMMA ShownHere ==
  ASSUME IndInv, ShownWhole, shown.layer = Current, NEW b, Ready(b)
  PROVE  /\ shown = Frame(Cursor)
         /\ shown.above = Above(Cursor)
         /\ shown.here = Drawn(Item[Cursor.list][Cursor.menu_index])
         /\ shown.below = Below(Cursor)
<1>1. Current = Cursor /\ Cursor.list \in Menus
  BY CursorFacts DEF Current
<1>2. shown = Frame(Cursor)
  BY <1>1, NoLayerType, MenuAssumption DEF ShownWhole
<1> QED
  BY <1>2 DEF Frame

\* A neighbour is drawn where a cursor may stand, although the two are tested differently.
LEMMA RowStands ==
  ASSUME IndInv, NEW b, Ready(b)
  PROVE  /\ MayStand(Cursor.menu_index - 1) <=> Above(Cursor) # "none"
         /\ MayStand(Cursor.menu_index + 1) <=> Below(Cursor) # "none"
<1>1. \A i \in Slots : Drawn(Item[Cursor.list][i]) = "none" <=> ItemAt(i) = "none"
  BY CursorFacts, MenuAssumption DEF Drawn
<1>2. Cursor.menu_index \in Slots
  BY CursorFacts
<1>3. /\ Cursor.menu_index > 0 <=> Cursor.menu_index - 1 \in Slots
      /\ Cursor.menu_index + 1 < SLOTS <=> Cursor.menu_index + 1 \in Slots
  BY <1>2, SizeAssumption DEF Slots
<1> QED
  BY <1>1, <1>3 DEF MayStand, Above, Below

\* The cursor moves if it may stand where it is to go.
LEMMA MoveShown ==
  ASSUME IndInv, NEW b, NEW to, Move(b, to), to # Cursor.menu_index
  PROVE  nav_stack' # nav_stack <=> MayStand(to)
<1> USE DEF Move
<1>1. nav_depth \in DOMAIN nav_stack /\ input.layer = nav_depth
      /\ Cursor = nav_stack[nav_depth] /\ Cursor \in LayerType
  BY CursorFacts DEF MoveCursor
<1>2. CASE CursorTo(to) /\ MayStand(to)
  <2>1. nav_stack' = [nav_stack EXCEPT ![nav_depth] = [Cursor EXCEPT !.menu_index = to]]
    BY <1>1, <1>2 DEF CursorTo
  <2>2. nav_stack'[nav_depth] = [Cursor EXCEPT !.menu_index = to]
    BY <1>1, <2>1 DEF IndInv, PanelTypeOK
  <2>3. [Cursor EXCEPT !.menu_index = to].menu_index = to
    BY <1>1 DEF LayerType
  <2> QED
    BY <1>1, <1>2, <2>2, <2>3
<1> QED
  BY <1>2 DEF MoveCursor

\* Whatever the menu, a press does what the display announces.
THEOREM ShowsWhatItDoes == Spec => DoesAsShown
<1>1. Init => ShownWhole
  BY DEF Init, LoadingScreen, ShownWhole
<1>2. IndInv /\ ShownWhole /\ [Next]_vars
      => [shown.layer = Current =>
            /\ Increment => (nav_stack' # nav_stack <=> shown.below # "none")
            /\ Decrement => (nav_stack' # nav_stack <=> shown.above # "none")
            /\ ConfirmEnter => shown.here = "forward"
            /\ ConfirmBack => shown.here = "back"
            /\ ConfirmValue => shown.here = "value"]_vars
  <2> SUFFICES ASSUME IndInv, ShownWhole, shown.layer = Current
               PROVE  /\ Increment => (nav_stack' # nav_stack <=> shown.below # "none")
                      /\ Decrement => (nav_stack' # nav_stack <=> shown.above # "none")
                      /\ ConfirmEnter => shown.here = "forward"
                      /\ ConfirmBack => shown.here = "back"
                      /\ ConfirmValue => shown.here = "value"
    OBVIOUS
  <2>1. ASSUME Increment PROVE nav_stack' # nav_stack <=> shown.below # "none"
    <3>1. Ready("increment") /\ Cursor.menu_index + 1 # Cursor.menu_index
      BY <2>1, CursorFacts DEF Increment, MoveCursor, Slots
    <3> QED
      BY <2>1, <3>1, MoveShown, MoveTests, RowStands, ShownHere
  <2>2. ASSUME Decrement PROVE nav_stack' # nav_stack <=> shown.above # "none"
    <3>1. Ready("decrement") /\ Cursor.menu_index - 1 # Cursor.menu_index
      BY <2>2, CursorFacts DEF Decrement, MoveCursor, Slots
    <3> QED
      BY <2>2, <3>1, MoveShown, MoveTests, RowStands, ShownHere
  <2>3. ASSUME Ready("confirm")
        PROVE  /\ Cursor.menu_index \in Slots
               /\ ItemAt(Cursor.menu_index) # "none"
               /\ shown.here = Drawn(ItemAt(Cursor.menu_index))
    BY <2>3, CursorFacts, ShownHere
  <2>4. ConfirmEnter => shown.here = "forward"
    BY <2>3 DEF ConfirmEnter, Drawn
  <2>5. ConfirmBack => shown.here = "back"
    BY <2>3, MenuAssumption DEF ConfirmBack, Drawn
  <2>6. ConfirmValue => shown.here = "value"
    BY <2>3, MenuAssumption DEF ConfirmValue, Drawn
  <2> QED
    BY <2>1, <2>2, <2>4, <2>5, <2>6
<1> QED
  BY <1>1, <1>2, ShownWholeStep, Inductive, PTL DEF Spec, DoesAsShown

-----------------------------------------------------------------------------
(* The panel that nobody touches *)

\* The queue has room for the three phantom presses, and confirm does nothing on the
\* first item of the top menu. Both hold of the shipped queue and menu.
PhantomsCancel == QUEUE_LENGTH >= 3 /\ Item[TopMenu][0] = "value"

AtHome(i) == nav_depth = 0 /\ nav_stack[0] = Layer(TopMenu, i)

\* The phantom presses, from the first poll until they are handled. The increment may
\* find no second item, and then neither it nor the decrement moves the cursor.
BeforePoll ==
  /\ current_button_state = [b \in Buttons |-> FALSE]
  /\ input_queue = <<>> /\ input.pc = "receive" /\ AtHome(0)

Waiting ==
  /\ input.pc = "receive"
  /\ \/ input_queue = <<"confirm", "increment", "decrement">> /\ AtHome(0)
     \/ input_queue = <<"increment", "decrement">> /\ AtHome(0)
     \/ input_queue = <<"decrement">> /\ (AtHome(0) \/ AtHome(1))
     \/ input_queue = <<>> /\ AtHome(0)

Handling ==
  /\ input.pc = "lock" /\ input.layer = 0
  /\ \/ input.button = "confirm" /\ input_queue = <<"increment", "decrement">> /\ AtHome(0)
     \/ input.button = "increment" /\ input_queue = <<"decrement">> /\ AtHome(0)
     \/ input.button = "decrement" /\ input_queue = <<>> /\ (AtHome(0) \/ AtHome(1))

PhantomsOK ==
  ~touched => BeforePoll \/ (current_button_state = Released /\ (Waiting \/ Handling))

\* What appending to a queue of one and of two presses makes.
LEMMA SecondPress ==
  ASSUME NEW x \in Buttons, NEW y \in Buttons
  PROVE  Append(<<x>>, y) = <<x, y>>
<1>1. <<x>> \in Seq(Buttons) /\ Len(<<x>>) = 1 /\ <<x, y>> \in Seq(Buttons)
  OBVIOUS
<1>2. Append(<<x>>, y) \in Seq(Buttons) /\ Len(Append(<<x>>, y)) = 2 /\ Len(<<x, y>>) = 2
  BY <1>1
<1>3. \A i \in 1..2 : Append(<<x>>, y)[i] = <<x, y>>[i]
  BY <1>1, AppendProperties
<1> QED
  BY <1>1, <1>2, <1>3, SeqEqual, Zenon

LEMMA ThirdPress ==
  ASSUME NEW x \in Buttons, NEW y \in Buttons, NEW z \in Buttons
  PROVE  Append(<<x, y>>, z) = <<x, y, z>>
<1>1. <<x, y>> \in Seq(Buttons) /\ Len(<<x, y>>) = 2 /\ <<x, y, z>> \in Seq(Buttons)
  OBVIOUS
<1>2. /\ Append(<<x, y>>, z) \in Seq(Buttons)
      /\ Len(Append(<<x, y>>, z)) = 3 /\ Len(<<x, y, z>>) = 3
  BY <1>1
<1>3. \A i \in 1..3 : Append(<<x, y>>, z)[i] = <<x, y, z>>[i]
  BY <1>1, AppendProperties
<1> QED
  BY <1>1, <1>2, <1>3, SeqEqual, Zenon

\* The first poll queues the three presses, every other one none.
LEMMA PhantomPoll ==
  ASSUME PhantomsCancel, IndInv, PhantomsOK, Poll(Released), ~touched
  PROVE  PhantomsOK'
<1>1. current_button_state' = Released /\ UNCHANGED <<nav_stack, nav_depth, input>>
  BY DEF Poll
<1>2. "confirm" \in Buttons /\ "increment" \in Buttons /\ "decrement" \in Buttons
  BY DEF Buttons
<1>3. CASE BeforePoll
  <2>1. \A b \in Buttons : Rising(b, Released)
    BY <1>3 DEF BeforePoll, Rising, Released
  <2>2. Offer(<<>>, "confirm", Released) = <<"confirm">>
    BY <1>2, <2>1, SizeAssumption DEF Offer, PhantomsCancel
  <2>3. Offer(<<"confirm">>, "increment", Released) = <<"confirm", "increment">>
    <3>1. Len(<<"confirm">>) < QUEUE_LENGTH
      BY SizeAssumption DEF PhantomsCancel
    <3>2. Append(<<"confirm">>, "increment") = <<"confirm", "increment">>
      BY <1>2, SecondPress
    <3> QED
      BY <1>2, <2>1, <3>1, <3>2, Zenon DEF Offer
  <2>4. Offer(<<"confirm", "increment">>, "decrement", Released)
          = <<"confirm", "increment", "decrement">>
    <3>1. Len(<<"confirm", "increment">>) < QUEUE_LENGTH
      BY SizeAssumption DEF PhantomsCancel
    <3>2. Append(<<"confirm", "increment">>, "decrement")
            = <<"confirm", "increment", "decrement">>
      BY <1>2, ThirdPress
    <3> QED
      BY <1>2, <2>1, <3>1, <3>2, Zenon DEF Offer
  <2>5. input_queue' = <<"confirm", "increment", "decrement">>
    BY <1>3, <2>2, <2>3, <2>4 DEF BeforePoll, Poll, PollOrder
  <2> QED
    BY <1>1, <1>3, <2>5 DEF PhantomsOK, BeforePoll, Waiting, AtHome
<1>4. CASE current_button_state = Released /\ (Waiting \/ Handling)
  <2>1. \A b \in Buttons : ~Rising(b, Released)
    BY <1>4 DEF Rising, Released
  <2>2. input_queue' = input_queue
    BY <1>2, <2>1 DEF Poll, PollOrder, Offer
  <2> QED
    BY <1>1, <1>4, <2>2 DEF PhantomsOK, Waiting, Handling, AtHome
<1> QED
  BY <1>3, <1>4 DEF PhantomsOK

LEMMA PhantomReceive ==
  ASSUME IndInv, PhantomsOK, ReceiveInput, ~touched
  PROVE  PhantomsOK'
<1>1. current_button_state = Released /\ Waiting /\ input_queue # <<>>
  BY DEF PhantomsOK, BeforePoll, Handling, ReceiveInput
<1>2. /\ UNCHANGED <<current_button_state, nav_stack, nav_depth>>
      /\ input' = [pc |-> "lock", button |-> Head(input_queue), layer |-> nav_depth]
      /\ input_queue' = Tail(input_queue)
  BY DEF ReceiveInput, pollVars
<1>3. /\ Head(<<"confirm", "increment", "decrement">>) = "confirm"
      /\ Tail(<<"confirm", "increment", "decrement">>) = <<"increment", "decrement">>
      /\ Head(<<"increment", "decrement">>) = "increment"
      /\ Tail(<<"increment", "decrement">>) = <<"decrement">>
      /\ Head(<<"decrement">>) = "decrement"
      /\ Tail(<<"decrement">>) = <<>>
  OBVIOUS
<1>4. Handling'
  BY <1>1, <1>2, <1>3 DEF Waiting, Handling, AtHome
<1> QED
  BY <1>1, <1>2, <1>4 DEF PhantomsOK

\* Confirm stays, the increment goes to the second item if there is one, and the
\* decrement comes back.
LEMMA PhantomHandled ==
  ASSUME PhantomsCancel, IndInv, PhantomsOK, HandleInput, ~touched
  PROVE  PhantomsOK'
<1> USE MenuAssumption, SizeAssumption
<1>1. current_button_state = Released /\ Handling
  BY DEF PhantomsOK, BeforePoll, Waiting, HandleInput, Increment, Decrement, MoveCursor,
         ConfirmValue, ConfirmEnter, ConfirmBack, Ready
<1>2. /\ UNCHANGED <<current_button_state, input_queue>>
  BY DEF HandleInput, Increment, Decrement, MoveCursor, ConfirmValue, ConfirmEnter,
         ConfirmBack, pollVars
<1>3. /\ Cursor = nav_stack[0] /\ Cursor.list = TopMenu /\ TopMenu # NoMenu
      /\ nav_depth = 0 /\ 0 \in DOMAIN nav_stack
      /\ Cursor.menu_index \in {0, 1}
      /\ nav_stack[0] = Layer(TopMenu, Cursor.menu_index)
  BY <1>1 DEF Handling, AtHome, Cursor, Layer, IndInv, PanelTypeOK
<1>4. ItemAt(0) = "value"
  BY <1>3 DEF ItemAt, PhantomsCancel
<1>5. CASE Increment
  <2>1. Cursor.menu_index = 0 /\ input_queue = <<"decrement">>
    BY <1>1, <1>3, <1>5 DEF Handling, AtHome, Layer, Increment, MoveCursor, Ready
  <2>2. nav_stack' = nav_stack \/ nav_stack' = [nav_stack EXCEPT ![0].menu_index = 1]
    BY <1>1, <1>5, <2>1 DEF Increment, MoveCursor, CursorTo, Handling
  <2>3. AtHome(0)' \/ AtHome(1)'
    BY <1>3, <1>5, <2>1, <2>2 DEF AtHome, Layer, Increment, MoveCursor
  <2> QED
    BY <1>1, <1>2, <1>5, <2>1, <2>3 DEF Increment, MoveCursor, InputIdle, Waiting, PhantomsOK
<1>6. CASE Decrement
  <2>1. input_queue = <<>>
    BY <1>1, <1>6 DEF Handling, Decrement, MoveCursor, Ready
  <2>2. CASE Cursor.menu_index = 0
    <3>1. nav_stack' = nav_stack
      BY <1>6, <2>2 DEF Decrement, MoveCursor, Slots
    <3> QED
      BY <1>1, <1>2, <1>3, <1>6, <2>1, <2>2, <3>1
         DEF Decrement, MoveCursor, InputIdle, Waiting, PhantomsOK, AtHome
  <2>3. CASE Cursor.menu_index = 1
    <3>1. MayDecrement
      BY <1>4, <2>3
    <3>2. nav_stack' = [nav_stack EXCEPT ![0].menu_index = 0]
      BY <1>1, <1>6, <2>3, <3>1 DEF Decrement, MoveCursor, CursorTo, Handling
    <3>3. AtHome(0)'
      BY <1>3, <1>6, <2>3, <3>2 DEF AtHome, Layer, Decrement, MoveCursor
    <3> QED
      BY <1>1, <1>2, <1>6, <2>1, <3>3 DEF Decrement, MoveCursor, InputIdle, Waiting, PhantomsOK
  <2> QED
    BY <1>3, <2>2, <2>3
<1>7. CASE ConfirmValue \/ ConfirmEnter \/ ConfirmBack
  <2>1. /\ input_queue = <<"increment", "decrement">>
        /\ AtHome(0) /\ Cursor.menu_index = 0
    BY <1>1, <1>3, <1>7 DEF Handling, AtHome, Layer, ConfirmValue, ConfirmEnter,
                            ConfirmBack, Ready
  <2>2. ConfirmValue
    BY <1>4, <1>7, <2>1 DEF ConfirmEnter, ConfirmBack
  <2> QED
    BY <1>1, <1>2, <2>1, <2>2 DEF ConfirmValue, InputIdle, Waiting, PhantomsOK, AtHome
<1> QED
  BY <1>5, <1>6, <1>7 DEF HandleInput

LEMMA PhantomStep ==
  ASSUME PhantomsCancel, IndInv, PhantomsOK, [Next]_vars
  PROVE  PhantomsOK'
<1> SUFFICES ASSUME ~touched' PROVE PhantomsOK'
  BY DEF PhantomsOK
<1>1. CASE \E level \in Levels : Poll(level)
  <2>1. PICK level \in Levels : Poll(level)
    BY <1>1
  <2>2. level = Released /\ ~touched
    BY <2>1 DEF Poll, IndInv, PanelTypeOK
  <2> QED
    BY <2>1, <2>2, PhantomPoll
<1>2. ~(\E level \in Levels : Poll(level)) => touched' = touched
  BY DEF Next, ReceiveInput, HandleInput, Increment, Decrement, MoveCursor, ConfirmValue,
         ConfirmEnter, ConfirmBack, FinishInput, PushLayer, PopLayer, UpdateDisplayState,
         StartDraw, FinishDraw, pollVars, vars
<1>3. CASE ReceiveInput
  BY <1>1, <1>2, <1>3, PhantomReceive
<1>4. CASE HandleInput
  BY <1>1, <1>2, <1>4, PhantomHandled
<1>5. CASE FinishInput
  BY <1>1, <1>2, <1>5 DEF PhantomsOK, BeforePoll, Waiting, Handling, FinishInput, PushLayer,
                          PopLayer
<1>6. CASE UpdateDisplayState \/ StartDraw \/ FinishDraw \/ UNCHANGED vars
  <2>1. UNCHANGED <<current_button_state, touched, input_queue, input, nav_stack, nav_depth>>
    BY <1>6 DEF UpdateDisplayState, StartDraw, FinishDraw, pollVars, vars
  <2> QED
    BY <2>1 DEF PhantomsOK, BeforePoll, Waiting, Handling, AtHome
<1> QED
  BY <1>1, <1>3, <1>4, <1>5, <1>6 DEF Next

\* A panel nobody touches is at home once the phantom presses of the first poll are
\* handled, in every menu whose first item is a value and whatever comes after it.
THEOREM StaysHome == PhantomsCancel /\ Spec => []UntouchedStaysHome
<1> SUFFICES ASSUME PhantomsCancel PROVE Spec => []UntouchedStaysHome
  OBVIOUS
<1>1. Init => PhantomsOK
  BY SizeAssumption DEF Init, PhantomsOK, BeforePoll, AtHome
<1>2. IndInv /\ PhantomsOK /\ [Next]_vars => PhantomsOK'
  BY PhantomStep
<1>3. PhantomsOK => UntouchedStaysHome
  BY DEF PhantomsOK, UntouchedStaysHome, BeforePoll, Waiting, Handling, AtHome, Current
<1> QED
  BY <1>1, <1>2, <1>3, Inductive, PTL DEF Spec

-----------------------------------------------------------------------------
(* The refinement *)

LEMMA NavPathFacts ==
  ASSUME IndInv
  PROVE  /\ NavPath \in Seq(LayerType)
         /\ Len(NavPath) = Deepest + 1
         /\ Deepest \in 0..(MENU_MAX_DEPTH - 1)
         /\ DOMAIN NavPath = 1..(Deepest + 1)
         /\ \A k \in 1..(Deepest + 1) : NavPath[k] = nav_stack[k - 1]
         /\ NavPath[Len(NavPath)] = nav_stack[Deepest]
<1>1. nav_depth \in 0..(MENU_MAX_DEPTH - 1) /\ MENU_MAX_DEPTH \in Nat
  BY SizeAssumption DEF IndInv, PanelTypeOK
<1>2. Deepest \in 0..(MENU_MAX_DEPTH - 1)
  BY <1>1 DEF IndInv, InputOK, Deepest
<1>3. \A k \in 1..(Deepest + 1) : nav_stack[k - 1] \in LayerType
  BY <1>1, <1>2 DEF IndInv, PanelTypeOK
<1> DEFINE n == Deepest + 1
<1>4. n \in Nat
  BY <1>2
<1>5. NavPath = [k \in 1..n |-> nav_stack[k - 1]]
  BY DEF NavPath
<1> HIDE DEF n
<1>6. NavPath \in [1..n -> LayerType]
  BY <1>3, <1>5 DEF n
<1>7. NavPath \in Seq(LayerType) /\ Len(NavPath) = n
  BY <1>4, <1>6
<1> QED
  BY <1>2, <1>4, <1>5, <1>7 DEF n

\* A step that keeps the layers up to Deepest is invisible.
LEMMA NavStutter ==
  ASSUME Deepest' = Deepest,
         \A k \in 1..(Deepest + 1) : nav_stack'[k - 1] = nav_stack[k - 1]
  PROVE  NavPath' = NavPath
BY DEF NavPath

LEMMA NavMoveCursor ==
  ASSUME IndInv, IndInv', NEW b, NEW to, Move(b, to)
  PROVE  \/ UNCHANGED NavPath
         \/ /\ to \in Slots
            /\ Item[NavPath[Len(NavPath)].list][to] # "none"
            /\ NavPath' = [NavPath EXCEPT ![Len(NavPath)].menu_index = to]
<1> USE DEF Move, MayStand
<1>1. /\ Deepest' = nav_depth /\ Deepest = nav_depth
      /\ Cursor = nav_stack[nav_depth]
      /\ input.layer = nav_depth
      /\ ItemAt(to) = Item[Cursor.list][to]
  BY CursorFacts DEF MoveCursor, Deepest, InputIdle
<1>2. CASE UNCHANGED nav_stack
  BY <1>1, <1>2, NavStutter
<1>3. CASE to \in Slots /\ ItemAt(to) # "none" /\ CursorTo(to)
  <2>1. NavPath[Len(NavPath)] = Cursor
    BY <1>1, NavPathFacts
  <2>2. nav_stack' = [nav_stack EXCEPT ![nav_depth] = [Cursor EXCEPT !.menu_index = to]]
    BY <1>1, <1>3 DEF CursorTo
  <2> DEFINE new == [Cursor EXCEPT !.menu_index = to]
             moved == [NavPath EXCEPT ![nav_depth + 1] = new]
  <2>3. [NavPath EXCEPT ![Len(NavPath)].menu_index = to] = moved
    BY <1>1, <2>1, NavPathFacts
  <2>4. nav_stack' = [nav_stack EXCEPT ![nav_depth] = new]
    BY <2>2
  <2> HIDE DEF new
  <2>5. /\ nav_depth \in 0..(MENU_MAX_DEPTH - 1)
        /\ DOMAIN nav_stack = 0..(MENU_MAX_DEPTH - 1)
        /\ MENU_MAX_DEPTH \in Nat
    BY SizeAssumption DEF IndInv, PanelTypeOK
  <2>6. NavPath' = [k \in 1..(nav_depth + 1) |-> nav_stack'[k - 1]]
    BY <1>1 DEF NavPath
  <2>7. NavPath = [k \in 1..(nav_depth + 1) |-> nav_stack[k - 1]]
    BY <1>1 DEF NavPath
  <2>8. \A k \in 1..(nav_depth + 1) :
          nav_stack'[k - 1] = IF k = nav_depth + 1 THEN new ELSE nav_stack[k - 1]
    BY <2>4, <2>5
  <2>9. moved = [k \in 1..(nav_depth + 1) |->
                   IF k = nav_depth + 1 THEN new ELSE nav_stack[k - 1]]
    BY <2>5, <2>7
  <2>10. NavPath' = moved
    BY <2>6, <2>8, <2>9
  <2> QED
    BY <1>1, <1>3, <2>1, <2>3, <2>10
<1> QED
  BY <1>2, <1>3 DEF MoveCursor

LEMMA NavPush == ASSUME IndInv, IndInv', PushLayer PROVE Nav!Enter
<1> DEFINE sub == Item[Cursor.list][Cursor.menu_index]
<1>1. /\ Deepest = nav_depth - 1 /\ Deepest' = nav_depth
      /\ input.layer = nav_depth - 1
      /\ sub \in Menus
      /\ nav_depth > 0
  BY DEF IndInv, InputOK, PushLayer, Deepest, InputIdle
<1>2. /\ nav_depth \in 0..(MENU_MAX_DEPTH - 1)
      /\ DOMAIN nav_stack = 0..(MENU_MAX_DEPTH - 1)
      /\ MENU_MAX_DEPTH \in Nat
  BY SizeAssumption DEF IndInv, PanelTypeOK
<1>3. NavPath[Len(NavPath)] = Cursor /\ Len(NavPath) = nav_depth
  BY <1>1, <1>2, NavPathFacts DEF Cursor
<1>4. Cursor.list \in Menus
  BY <1>1, <1>2 DEF IndInv, PathOK, Cursor
<1>5. ItemAt(Cursor.menu_index) = sub
  BY <1>4, MenuAssumption DEF ItemAt
<1>6. nav_stack' = [nav_stack EXCEPT ![nav_depth] = Layer(sub, 0)]
  BY <1>5 DEF PushLayer
<1>7. NavPath' = Append(NavPath, Layer(sub, 0))
  <2> DEFINE new == Layer(sub, 0)
  <2>1. NavPath' = [k \in 1..(nav_depth + 1) |-> nav_stack'[k - 1]]
    BY <1>1 DEF NavPath
  <2>2. NavPath = [k \in 1..nav_depth |-> nav_stack[k - 1]]
    BY <1>1, <1>2 DEF NavPath
  <2> HIDE DEF new
  <2>3. \A k \in 1..(nav_depth + 1) :
          nav_stack'[k - 1] = IF k = nav_depth + 1 THEN new ELSE nav_stack[k - 1]
    BY <1>2, <1>6 DEF new
  <2>4. NavPath \in Seq(LayerType) /\ Len(NavPath) = nav_depth /\ new \in LayerType
    BY <1>1, <1>3, NavPathFacts, LayerTypes, SizeAssumption DEF new, Slots
  <2>5. Append(NavPath, new) \in Seq(LayerType)
        /\ Len(Append(NavPath, new)) = nav_depth + 1
        /\ \A k \in 1..(nav_depth + 1) :
             Append(NavPath, new)[k] = IF k = nav_depth + 1 THEN new ELSE NavPath[k]
    BY <1>2, <2>4, AppendProperties
  <2>6. NavPath' = [k \in 1..(nav_depth + 1) |-> Append(NavPath, new)[k]]
    BY <1>2, <2>1, <2>2, <2>3, <2>5
  <2>7. NavPath' = Append(NavPath, new)
    BY <1>2, <2>5, <2>6
  <2> QED
    BY <2>7 DEF new
<1> QED
  BY <1>1, <1>3, <1>7 DEF Nav!Enter, Nav!Here, Nav!At, Layer

LEMMA NavBack ==
  ASSUME IndInv, IndInv', ConfirmBack
  PROVE  Nav!Leave \/ UNCHANGED NavPath
<1>1. /\ Deepest = nav_depth
      /\ Cursor = nav_stack[nav_depth]
      /\ Item[Cursor.list][Cursor.menu_index] = "back"
      /\ NavPath[Len(NavPath)] = Cursor
      /\ Len(NavPath) = nav_depth + 1
  BY CursorFacts, NavPathFacts DEF ConfirmBack
<1>2. /\ nav_depth \in 0..(MENU_MAX_DEPTH - 1)
      /\ DOMAIN nav_stack = 0..(MENU_MAX_DEPTH - 1)
      /\ MENU_MAX_DEPTH \in Nat
  BY SizeAssumption DEF IndInv, PanelTypeOK
<1>3. CASE /\ nav_depth > 0
           /\ nav_stack' = [nav_stack EXCEPT ![nav_depth] = NoLayer]
           /\ input' = [input EXCEPT !.pc = "pop"]
  <2>1. Deepest' = nav_depth - 1
    BY <1>3 DEF ConfirmBack, IndInv, PanelTypeOK, Deepest
  <2>2. NavPath' = [k \in 1..nav_depth |-> nav_stack'[k - 1]]
    BY <1>2, <2>1 DEF NavPath
  <2>3. \A k \in 1..nav_depth : nav_stack'[k - 1] = NavPath[k]
    BY <1>1, <1>2, <1>3, NavPathFacts
  <2>4. SubSeq(NavPath, 1, nav_depth) = [k \in 1..nav_depth |-> NavPath[k]]
    BY <1>1, <1>2, NavPathFacts
  <2>5. NavPath' = SubSeq(NavPath, 1, nav_depth)
    BY <2>2, <2>3, <2>4
  <2> QED
    BY <1>1, <1>2, <1>3, <2>5 DEF Nav!Leave, Nav!Here, Nav!At
<1>4. CASE nav_depth = 0 /\ input' = InputIdle /\ UNCHANGED nav_stack
  <2>1. Deepest' = Deepest
    BY <1>1, <1>4 DEF ConfirmBack, Deepest, InputIdle
  <2> QED
    BY <1>4, <2>1, NavStutter
<1> QED
  BY <1>3, <1>4 DEF ConfirmBack

LEMMA NavStep ==
  ASSUME IndInv, IndInv', [Next]_vars
  PROVE  [Nav!Next]_NavPath
<1>1. CASE Increment
  <2>1. Cursor = NavPath[Len(NavPath)]
    BY <1>1, CursorFacts, NavPathFacts DEF Increment, MoveCursor
  <2> QED
    BY <1>1, <2>1, NavMoveCursor, MoveTests
       DEF Nav!Next, Nav!Forward, Nav!Here, Nav!At, Nav!MoveTo, Slots
<1>2. CASE Decrement
  <2>1. Cursor = NavPath[Len(NavPath)]
    BY <1>2, CursorFacts, NavPathFacts DEF Decrement, MoveCursor
  <2> QED
    BY <1>2, <2>1, NavMoveCursor, MoveTests
       DEF Nav!Next, Nav!Backward, Nav!Here, Nav!At, Nav!MoveTo, Slots
<1>3. CASE PushLayer
  BY <1>3, NavPush DEF Nav!Next
<1>4. CASE ConfirmBack
  BY <1>4, NavBack DEF Nav!Next
<1>5. CASE ConfirmEnter
  <2>1. Deepest = nav_depth /\ nav_depth \in Nat
    BY <1>5, CursorFacts DEF ConfirmEnter, IndInv, PanelTypeOK
  <2>2. nav_depth' = nav_depth + 1 /\ nav_stack' = nav_stack /\ input'.pc = "push"
    BY <1>5 DEF ConfirmEnter, IndInv, PanelTypeOK
  <2> QED
    BY <2>1, <2>2, NavStutter DEF Deepest
<1>6. CASE PopLayer
  <2>1. Deepest = nav_depth - 1 /\ Deepest' = nav_depth - 1
    BY <1>6 DEF PopLayer, InputIdle, Deepest
  <2> QED
    BY <1>6, <2>1, NavStutter DEF PopLayer
<1>7. CASE ConfirmValue \/ ReceiveInput
  <2>1. Deepest' = Deepest /\ nav_stack' = nav_stack
    BY <1>7, CursorFacts DEF ConfirmValue, ReceiveInput, Deepest, InputIdle
  <2> QED
    BY <2>1, NavStutter
<1>8. CASE \/ \E level \in Levels : Poll(level)
           \/ UpdateDisplayState \/ StartDraw \/ FinishDraw \/ UNCHANGED vars
  <2>1. Deepest' = Deepest /\ nav_stack' = nav_stack
    BY <1>8 DEF Poll, UpdateDisplayState, StartDraw, FinishDraw, vars, Deepest
  <2> QED
    BY <2>1, NavStutter
<1> QED
  BY <1>1, <1>2, <1>3, <1>4, <1>5, <1>6, <1>7, <1>8 DEF Next, HandleInput, FinishInput

\* Handled presses are atomic moves of a cursor in the tree of menus, and leaving a
\* submenu leads back to the item it was entered from: the front panel implements
\* Navigator for every tree of menus that fits nav_stack.
THEOREM Navigates == Spec => NavSpec
<1>1. Init => Nav!Init
  <2> SUFFICES ASSUME Init PROVE NavPath = <<Layer(TopMenu, 0)>>
    BY DEF Nav!Init, Layer
  <2>1. Deepest = 0 /\ nav_stack[0] = Layer(TopMenu, 0)
    BY SizeAssumption DEF Init, Deepest
  <2>2. NavPath = [k \in 1..1 |-> Layer(TopMenu, 0)]
    BY <2>1 DEF NavPath
  <2> QED
    BY <2>2
<1>2. IndInv /\ IndInv' /\ [Next]_vars => [Nav!Next]_NavPath
  BY NavStep
<1> QED
  BY <1>1, <1>2, Inductive, PTL DEF Spec, NavSpec, Nav!Spec

-----------------------------------------------------------------------------
(* Every press finds its case, and every drawing its menu *)

\* When a press has been taken, the case of processIncomingInput that will handle it is
\* decided but for the mutex: its button is one of the three, the item under the cursor
\* is a value, "back" or a submenu, and a submenu's layer still fits nav_stack. So as
\* soon as the mutex is free exactly one action is possible. With HolderCanRelease this is the
\* safety part of InputHandled.
THEOREM PressHasItsCase ==
  Spec => [](input.pc = "lock" =>
               /\ input.button \in Buttons
               /\ ItemAt(Cursor.menu_index) \in {"value", "back"} \cup Menus
               /\ ItemAt(Cursor.menu_index) \in Menus => nav_depth + 1 \in DOMAIN nav_stack)
<1> DEFINE HasCase == input.pc = "lock" =>
                        /\ input.button \in Buttons
                        /\ ItemAt(Cursor.menu_index) \in {"value", "back"} \cup Menus
                        /\ ItemAt(Cursor.menu_index) \in Menus =>
                             nav_depth + 1 \in DOMAIN nav_stack
<1>1. IndInv => HasCase
  <2> SUFFICES ASSUME IndInv, input.pc = "lock" PROVE HasCase
    OBVIOUS
  <2>1. /\ nav_depth \in 0..(MENU_MAX_DEPTH - 1) /\ input.layer = nav_depth
        /\ DOMAIN nav_stack = 0..(MENU_MAX_DEPTH - 1)
        /\ Cursor = nav_stack[nav_depth] /\ Deepest = nav_depth
        /\ nav_stack[nav_depth] \in LayerType
    BY DEF IndInv, PanelTypeOK, InputOK, Cursor, Deepest
  <2>2. /\ Cursor.list \in Menus /\ Cursor.menu_index \in Slots
        /\ Item[Cursor.list][Cursor.menu_index] # "none"
        /\ Level[Cursor.list] >= nav_depth
    BY <2>1, SizeAssumption DEF IndInv, PathOK, LevelsOK, LayerType
  <2>3. ItemAt(Cursor.menu_index) = Item[Cursor.list][Cursor.menu_index]
    BY <2>2, MenuAssumption DEF ItemAt
  <2>4. ItemAt(Cursor.menu_index) \in {"value", "back"} \cup Menus
    BY <2>2, <2>3, MenuAssumption
  <2>5. ASSUME ItemAt(Cursor.menu_index) \in Menus
        PROVE  nav_depth + 1 \in DOMAIN nav_stack
    <3>1. /\ Level[ItemAt(Cursor.menu_index)] > Level[Cursor.list]
          /\ Level[ItemAt(Cursor.menu_index)] \in 0..(MENU_MAX_DEPTH - 1)
          /\ Level[Cursor.list] \in 0..(MENU_MAX_DEPTH - 1)
      BY <2>2, <2>3, <2>5, MenuAssumption
    <3> QED
      BY <2>1, <2>2, <3>1, SizeAssumption
  <2> QED
    BY <2>4, <2>5 DEF IndInv, InputOK
<1> QED
  BY <1>1, Inductive, PTL

\* Whoever gets the mutex finds a menu in the current layer: drawScreen's early return,
\* which would leave the frame out, and processIncomingInput's cases for a layer without
\* one are never taken. The safety part of DisplayCatchesUp.
THEOREM DrawsWhenFree == Spec => [](MayLock => Current.list \in Menus)
<1>1. IndInv => (MayLock => Current.list \in Menus)
  <2> SUFFICES ASSUME IndInv, display_mutex = "free" PROVE Current.list \in Menus
    OBVIOUS
  <2>1. Deepest = nav_depth /\ nav_depth \in 0..(MENU_MAX_DEPTH - 1)
    BY DEF IndInv, PanelTypeOK, MutexOK, Deepest
  <2> QED
    BY <2>1, SizeAssumption DEF IndInv, PathOK, Current
<1> QED
  BY <1>1, Inductive, PTL

\* Whoever holds the mutex can go on without it: the input task is at the second half of
\* entering or leaving a submenu, or the screen task at the end of a drawing; neither
\* waits for the other there. So the two tasks never block each other for good.
THEOREM HolderCanRelease ==
  Spec => [](~crashed /\ (MayLock \/ input.pc \in {"push", "pop"} \/ screen.pc = "draw"))
<1>1. IndInv => ~crashed /\ (MayLock \/ input.pc \in {"push", "pop"} \/ screen.pc = "draw")
  BY DEF IndInv, PanelTypeOK, NoCrash, MutexOK
<1> QED
  BY <1>1, Inductive, PTL
=============================================================================
