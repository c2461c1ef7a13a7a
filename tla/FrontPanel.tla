------------------------------ MODULE FrontPanel ------------------------------
(***************************************************************************)
(* The buttons, the menu and the display. Three activities share them: the *)
(* timer callback that polls the button pins every 10 ms and queues        *)
(* presses, the task that takes presses from the queue and moves the       *)
(* cursor, and the task that redraws the screen. The last two exclude each *)
(* other with display_mutex.                                               *)
(*                                                                         *)
(* The menu is a parameter: Item gives for each menu and slot "none" (a    *)
(* null pointer), "value" (a string, number or bool, on which confirm does *)
(* nothing), "back", or the submenu behind the item.                       *)
(***************************************************************************)
EXTENDS Integers, Sequences

CONSTANTS
  Menus, TopMenu, NoMenu,
  Item,             \* [Menus -> [0..SLOTS-1 -> ...]], see above
  Level,            \* a number for each menu that grows from a menu to its submenus
  SLOTS,            \* items of a menu's array: 10
  MENU_MAX_DEPTH,   \* screen_handler.h: layers of nav_stack
  QUEUE_LENGTH      \* presses input_queue holds: 10

Buttons == {"confirm", "increment", "decrement"}
Slots   == 0..(SLOTS - 1)

ASSUME SizeAssumption ==
  /\ SLOTS \in Nat \ {0}
  /\ MENU_MAX_DEPTH \in Nat \ {0}
  /\ QUEUE_LENGTH \in Nat

\* A menu has an item in its first slot, and no menu is so deep that its layer
\* would fall off nav_stack.
ASSUME MenuAssumption ==
  /\ TopMenu \in Menus
  /\ NoMenu \notin Menus
  /\ \A k \in {"none", "value", "back"} : k \notin Menus
  /\ Item \in [Menus -> [Slots -> Menus \cup {"none", "value", "back"}]]
  /\ \A m \in Menus : Item[m][0] # "none"
  /\ Level \in [Menus -> 0..(MENU_MAX_DEPTH - 1)]
  /\ \A m \in Menus, i \in Slots : Item[m][i] \in Menus => Level[Item[m][i]] > Level[m]

VARIABLES
  current_button_state,  \* the levels the last poll saw
  input_queue,           \* presses not yet taken
  nav_stack, nav_depth,  \* display_state
  display_mutex,         \* who holds it
  input,                 \* processInputsTask: program counter, button, layer
  screen,                \* screenRefreshTask: program counter, layer being drawn
  shown,                 \* what the display shows, and the layer it was drawn from
  crashed,               \* a range check or a null pointer stopped the program
  touched                \* history: somebody touched a button

vars == <<current_button_state, input_queue, nav_stack, nav_depth,
          display_mutex, input, screen, shown, crashed, touched>>
pollVars   == <<current_button_state, touched>>
screenVars == <<screen, shown>>

Layer(m, i) == [list |-> m, menu_index |-> i]
NoLayer     == Layer(NoMenu, 0)
Current     == nav_stack[nav_depth]

\* A frame without menu items, such as those of drawLoadingScreen.
LoadingScreen == [layer |-> NoLayer, above |-> "none", here |-> "none", below |-> "none"]

\* Static initialisers and initializeU8G2. The pins have pull-ups, the stored
\* button states start as false.
Init ==
  /\ current_button_state = [b \in Buttons |-> FALSE]
  /\ input_queue = <<>>
  /\ nav_stack = [k \in 0..(MENU_MAX_DEPTH - 1) |->
                    IF k = 0 THEN Layer(TopMenu, 0) ELSE NoLayer]
  /\ nav_depth = 0
  /\ display_mutex = "free"
  /\ input = [pc |-> "receive", button |-> "none", layer |-> 0]
  /\ screen = [pc |-> "update", drawing |-> NoLayer]
  /\ shown = LoadingScreen
  /\ crashed = FALSE
  /\ touched = FALSE

-----------------------------------------------------------------------------
(* The buttons *)

\* The levels of the pins when they are polled; a released button reads TRUE.
Levels   == [Buttons -> BOOLEAN]
Released == [b \in Buttons |-> TRUE]

Rising(b, level) == level[b] /\ ~current_button_state[b]

\* Variants: the length of the queue is not checked; another order.
OfferUnbounded(q, b, level) == IF Rising(b, level) THEN Append(q, b) ELSE q
PollOrderReversed == <<"decrement", "increment", "confirm">>

\* xQueueSendToBackFromISR: a press that finds the queue full is lost.
Offer(q, b, level) ==
  IF Rising(b, level) /\ Len(q) < QUEUE_LENGTH THEN Append(q, b) ELSE q
PollOrder == <<"confirm", "increment", "decrement">>

\* buttonPollingISR
Poll(level) ==
  /\ ~crashed
  /\ current_button_state' = level
  /\ input_queue' = Offer(Offer(Offer(input_queue, PollOrder[1], level),
                               PollOrder[2], level), PollOrder[3], level)
  /\ touched' = (touched \/ level # Released)
  /\ UNCHANGED <<nav_stack, nav_depth, display_mutex, input, screenVars, crashed>>

-----------------------------------------------------------------------------
(* processInputsTask and processIncomingInput *)

InputIdle == [pc |-> "receive", button |-> "none", layer |-> 0]

\* xQueueReceive, and the references to the current layer that are taken before
\* the mutex is.
ReceiveInput ==
  /\ ~crashed
  /\ input.pc = "receive"
  /\ input_queue # <<>>
  /\ input' = [pc |-> "lock", button |-> Head(input_queue), layer |-> nav_depth]
  /\ input_queue' = Tail(input_queue)
  /\ UNCHANGED <<pollVars, nav_stack, nav_depth, display_mutex, screenVars, crashed>>

\* The mutex, and variants that do not take it, or keep it.
MayLockAlways == TRUE
KeptLocked    == display_mutex
MayLock  == display_mutex = "free"
Unlocked == "free"

Ready(button) ==
  /\ ~crashed
  /\ input.pc = "lock"
  /\ input.button = button
  /\ MayLock

Cursor     == nav_stack[input.layer]
ItemAt(i)  == IF Cursor.list = NoMenu THEN "none" ELSE Item[Cursor.list][i]
CursorTo(i) == nav_stack' = [nav_stack EXCEPT ![input.layer].menu_index = i]

\* The tests before a move, as the code has them. Variant: none for a null item.
IncrementInArray == Cursor.menu_index < SLOTS - 1
MayIncrement == Cursor.menu_index < SLOTS - 1 /\ ItemAt(Cursor.menu_index + 1) # "none"
MayDecrement == Cursor.menu_index > 0 /\ ItemAt(Cursor.menu_index - 1) # "none"

\* A press that moves the cursor, or does not because there is no item there.
MoveCursor(button, may, to) ==
  /\ Ready(button)
  /\ \/ may /\ CursorTo(to)
     \/ ~may /\ UNCHANGED nav_stack
  /\ input' = InputIdle
  /\ UNCHANGED <<pollVars, input_queue, nav_depth, display_mutex, screenVars, crashed>>

Increment == MoveCursor("increment", MayIncrement, Cursor.menu_index + 1)
Decrement == MoveCursor("decrement", MayDecrement, Cursor.menu_index - 1)

\* Confirm on a value does nothing; so does every press on a layer without a
\* menu; on a null item confirm would follow the pointer.
ConfirmValue ==
  /\ Ready("confirm")
  /\ ItemAt(Cursor.menu_index) \in {"value", "none"}
  /\ crashed' = (Cursor.list # NoMenu /\ ItemAt(Cursor.menu_index) = "none")
  /\ input' = InputIdle
  /\ UNCHANGED <<pollVars, input_queue, nav_stack, nav_depth, display_mutex, screenVars>>

\* Confirm on a submenu: nav_depth++ under the mutex, then the new layer. at()
\* stops the program when the layer is off the array, which the guard on
\* nav_depth, compared with the array's size before the increment, permits. (The
\* guard itself cannot fail: at() would have stopped the press before it.)
ConfirmEnter ==
  /\ Ready("confirm")
  /\ ItemAt(Cursor.menu_index) \in Menus
  /\ nav_depth < MENU_MAX_DEPTH
  /\ nav_depth' = nav_depth + 1
  /\ display_mutex' = "input"
  /\ input' = [input EXCEPT !.pc = "push"]
  /\ UNCHANGED <<pollVars, input_queue, nav_stack, screenVars, crashed>>

\* The layer of a submenu. Variant: it keeps the cursor of the old one.
SameIndexLayer(m) == Layer(m, Cursor.menu_index)
NewLayer(m)       == Layer(m, 0)

PushLayer ==
  /\ ~crashed
  /\ input.pc = "push"
  /\ crashed' = (nav_depth \notin DOMAIN nav_stack)
  /\ nav_stack' = [nav_stack EXCEPT ![nav_depth] = NewLayer(ItemAt(Cursor.menu_index))]
  /\ display_mutex' = Unlocked
  /\ input' = InputIdle
  /\ UNCHANGED <<pollVars, input_queue, nav_depth, screenVars>>

\* The layer that is left is cleared. Variant: its parent is.
ParentCleared == [nav_stack EXCEPT ![nav_depth - 1] = NoLayer]
LeftCleared == [nav_stack EXCEPT ![nav_depth] = NoLayer]

\* Confirm on "back": the layer is cleared, then nav_depth--.
ConfirmBack ==
  /\ Ready("confirm")
  /\ ItemAt(Cursor.menu_index) = "back"
  /\ \/ /\ nav_depth > 0
        /\ nav_stack' = LeftCleared
        /\ display_mutex' = "input"
        /\ input' = [input EXCEPT !.pc = "pop"]
     \/ /\ nav_depth = 0
        /\ input' = InputIdle
        /\ UNCHANGED <<nav_stack, display_mutex>>
  /\ UNCHANGED <<pollVars, input_queue, nav_depth, screenVars, crashed>>

PopLayer ==
  /\ ~crashed
  /\ input.pc = "pop"
  /\ nav_depth' = nav_depth - 1
  /\ display_mutex' = Unlocked
  /\ input' = InputIdle
  /\ UNCHANGED <<pollVars, input_queue, nav_stack, screenVars, crashed>>

HandleInput == Increment \/ Decrement \/ ConfirmValue \/ ConfirmEnter \/ ConfirmBack
FinishInput == PushLayer \/ PopLayer

-----------------------------------------------------------------------------
(* screenRefreshTask *)

\* updateDisplayState has the mutex while it reads the clock.
UpdateDisplayState ==
  /\ ~crashed
  /\ screen.pc = "update"
  /\ MayLock
  /\ screen' = [screen EXCEPT !.pc = "wait"]
  /\ UNCHANGED <<pollVars, input_queue, nav_stack, nav_depth,
                 display_mutex, input, shown, crashed>>

\* drawScreen takes the mutex and follows nav_depth to the layer it draws. The
\* items come one after the other, with the mutex held. A layer without a menu is
\* not drawn: the mutex is released at once and the task sleeps.
StartDraw ==
  /\ ~crashed
  /\ screen.pc = "wait"
  /\ MayLock
  /\ display_mutex' = IF Current.list = NoMenu THEN display_mutex ELSE "screen"
  /\ screen' = IF Current.list = NoMenu THEN [screen EXCEPT !.pc = "update"]
                                        ELSE [pc |-> "draw", drawing |-> Current]
  /\ UNCHANGED <<pollVars, input_queue, nav_stack, nav_depth, input, shown, crashed>>

\* MenuItem::draw: what tells the kinds of values apart.
Drawn(item) == IF item \in Menus THEN "forward" ELSE item

\* The neighbours of the current item, where the array has one: the tests as the code
\* has them. Variant: off by one.
BelowShort(l) == IF l.menu_index + 2 < SLOTS THEN Drawn(Item[l.list][l.menu_index + 1])
                                             ELSE "none"
Above(l) == IF l.menu_index > 0 THEN Drawn(Item[l.list][l.menu_index - 1]) ELSE "none"
Below(l) == IF l.menu_index + 1 < SLOTS THEN Drawn(Item[l.list][l.menu_index + 1])
                                        ELSE "none"

Frame(l) == [layer |-> l, above |-> Above(l), here |-> Drawn(Item[l.list][l.menu_index]),
             below |-> Below(l)]

\* The items are drawn and the frame is sent.
FinishDraw ==
  /\ ~crashed
  /\ screen.pc = "draw"
  /\ crashed' = (screen.drawing.menu_index \notin Slots)
  /\ shown' = Frame(screen.drawing)
  /\ screen' = [pc |-> "update", drawing |-> NoLayer]
  /\ display_mutex' = Unlocked
  /\ UNCHANGED <<pollVars, input_queue, nav_stack, nav_depth, input>>

Next ==
  \/ \E level \in Levels : Poll(level)
  \/ ReceiveInput
  \/ HandleInput
  \/ FinishInput
  \/ UpdateDisplayState
  \/ StartDraw
  \/ FinishDraw

Spec == Init /\ [][Next]_vars

(***************************************************************************)
(* The timer fires and both tasks run. A task that waits for display_mutex *)
(* gets it when the other one releases it: the screen task sleeps between  *)
(* two drawings and the input task's steps are short, so each finds the    *)
(* mutex free again and again.                                             *)
(***************************************************************************)
Fairness ==
  /\ WF_vars(\E level \in Levels : Poll(level))
  /\ WF_vars(ReceiveInput)
  /\ SF_vars(HandleInput)
  /\ WF_vars(FinishInput)
  /\ SF_vars(UpdateDisplayState)
  /\ SF_vars(StartDraw)
  /\ WF_vars(FinishDraw)

FairSpec == Spec /\ Fairness

-----------------------------------------------------------------------------
(* Properties *)

LayerType == [list : Menus \cup {NoMenu}, menu_index : Slots]
Drawable  == {"none", "value", "back", "forward"}

\* Every variable has its type. Code: input_queue's capacity, nav_stack's size.
PanelTypeOK ==
  /\ current_button_state \in [Buttons -> BOOLEAN]
  /\ input_queue \in Seq(Buttons) /\ Len(input_queue) <= QUEUE_LENGTH
  /\ nav_stack \in [0..(MENU_MAX_DEPTH - 1) -> LayerType]
  /\ nav_depth \in 0..(MENU_MAX_DEPTH - 1)
  /\ display_mutex \in {"free", "input", "screen"}
  /\ input \in [pc : {"receive", "lock", "push", "pop"},
                button : Buttons \cup {"none"}, layer : 0..(MENU_MAX_DEPTH - 1)]
  /\ screen \in [pc : {"update", "wait", "draw"}, drawing : LayerType]
  /\ shown \in [layer : LayerType, above : Drawable, here : Drawable, below : Drawable]
  /\ crashed \in BOOLEAN
  /\ touched \in BOOLEAN

\* The layers that hold a menu. While a press enters or leaves a submenu,
\* nav_depth is one more than the last of them.
Deepest == IF input.pc \in {"push", "pop"} THEN nav_depth - 1 ELSE nav_depth

\* No sequence of presses makes a range check fail or follows a null item: the
\* .at() calls and active_menu_item->getValue() of processIncomingInput and
\* drawScreen.
NoCrash == ~crashed

\* Going back from every layer leads to the item it was entered from: each menu on
\* the stack is the submenu its parent's cursor stands on, from the top menu down,
\* and every cursor stands on an item. Code: the cases of processIncomingInput,
\* which move one cursor, push and pop without looking at the layers below.
PathOK ==
  /\ nav_stack[0].list = TopMenu
  /\ \A k \in 0..Deepest : /\ nav_stack[k].list \in Menus
                           /\ Item[nav_stack[k].list][nav_stack[k].menu_index] # "none"
  /\ \A k \in 1..Deepest :
       nav_stack[k].list = Item[nav_stack[k - 1].list][nav_stack[k - 1].menu_index]

\* "Make sure display won't draw on incomplete data": what is being drawn stays
\* the current layer, with a menu and an item under its cursor, until it is drawn.
NoTornDraw ==
  screen.pc = "draw" =>
    /\ display_mutex = "screen"
    /\ screen.drawing = Current
    /\ screen.drawing.list \in Menus
    /\ Item[screen.drawing.list][screen.drawing.menu_index] # "none"

\* The first poll takes the released buttons for three presses, because the stored
\* states start as false. With the shipped menu they cancel out: a panel nobody
\* touched shows the first item of the top menu once they are handled. Code: the
\* order in which buttonPollingISR polls, the initial button states, the menu.
UntouchedStaysHome ==
  ~touched /\ input_queue = <<>> /\ input.pc = "receive" =>
    nav_depth = 0 /\ Current = Layer(TopMenu, 0)

\* Every press taken from the queue is handled and the task asks for the next one:
\* the screen task never keeps display_mutex, whatever drawScreen finds.
InputHandled == input.pc # "receive" ~> input.pc = "receive"

\* The display catches up again and again with the cursor, however fast the buttons
\* are pressed: processIncomingInput never keeps display_mutex.
DisplayCatchesUp == []<>(screen.pc = "draw" /\ screen.drawing = Current)

\* A press does what the display announces while it shows the current layer: the
\* cursor moves exactly if there is an item on that side, and only an arrow leads to
\* another menu. Code: drawScreen's tests of the neighbours and processIncomingInput's,
\* which are written differently, and MenuItem::draw.
DoesAsShown ==
  [][shown.layer = Current =>
       /\ Increment => (nav_stack' # nav_stack <=> shown.below # "none")
       /\ Decrement => (nav_stack' # nav_stack <=> shown.above # "none")
       /\ ConfirmEnter => shown.here = "forward"
       /\ ConfirmBack => shown.here = "back"
       /\ ConfirmValue => shown.here = "value"]_vars

\* Every handled press is one atomic move of a cursor in the tree of menus; polling,
\* drawing and the two halves of entering and leaving are invisible.
NavPath == [k \in 1..(Deepest + 1) |-> nav_stack[k - 1]]

Nav == INSTANCE Navigator WITH path <- NavPath

NavSpec == Nav!Spec

-----------------------------------------------------------------------------
(* What makes NoCrash, PathOK and NoTornDraw inductive *)

\* A submenu that was left is released, "Clear current stack item (decrement
\* shared_ptr)": no layer above the current one keeps a menu alive.
LayersAboveEmpty ==
  \A k \in DOMAIN nav_stack : k > Deepest => nav_stack[k] = NoLayer

\* display_mutex is held by whoever is inside its critical section, and nobody else.
MutexOK ==
  /\ display_mutex = "input" <=> input.pc \in {"push", "pop"}
  /\ display_mutex = "screen" <=> screen.pc = "draw"

\* The references processIncomingInput takes before it takes the mutex still refer
\* to the current layer once it has it.
InputOK ==
  /\ input.pc # "receive" => input.button \in Buttons
  /\ input.pc \in {"lock", "pop"} => input.layer = nav_depth
  /\ input.pc = "push" =>
       /\ nav_depth > 0
       /\ input.layer = nav_depth - 1
       /\ Item[Cursor.list][Cursor.menu_index] \in Menus
       /\ Level[Item[Cursor.list][Cursor.menu_index]] >= nav_depth
  /\ input.pc = "pop" => nav_depth > 0

\* A layer's menu is at least as deep in the tree as the layer on the stack.
LevelsOK == \A k \in 0..Deepest : Level[nav_stack[k].list] >= k

IndInv ==
  /\ PanelTypeOK
  /\ NoCrash
  /\ PathOK
  /\ LayersAboveEmpty
  /\ NoTornDraw
  /\ MutexOK
  /\ InputOK
  /\ LevelsOK
=============================================================================
