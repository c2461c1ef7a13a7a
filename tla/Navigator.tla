------------------------------ MODULE Navigator ------------------------------
(***************************************************************************)
(* What the front panel promises its user: a cursor in a tree of menus.    *)
(* Every handled button is one atomic move; leaving a submenu returns to   *)
(* the very item it was entered from.                                      *)
(***************************************************************************)
EXTENDS Integers, Sequences

CONSTANTS Menus, TopMenu, SLOTS, Item

VARIABLE path   \* the menus entered, each with the position of its cursor

Here == path[Len(path)]
At(i) == Item[Here.list][i]
MoveTo(i) == path' = [path EXCEPT ![Len(path)].menu_index = i]

Init == path = <<[list |-> TopMenu, menu_index |-> 0]>>

Forward ==
  /\ Here.menu_index + 1 \in 0..(SLOTS - 1)
  /\ At(Here.menu_index + 1) # "none"
  /\ MoveTo(Here.menu_index + 1)

Backward ==
  /\ Here.menu_index - 1 \in 0..(SLOTS - 1)
  /\ At(Here.menu_index - 1) # "none"
  /\ MoveTo(Here.menu_index - 1)

Enter ==
  /\ At(Here.menu_index) \in Menus
  /\ path' = Append(path, [list |-> At(Here.menu_index), menu_index |-> 0])

Leave ==
  /\ At(Here.menu_index) = "back"
  /\ Len(path) > 1
  /\ path' = SubSeq(path, 1, Len(path) - 1)

Next == Forward \/ Backward \/ Enter \/ Leave

Spec == Init /\ [][Next]_path
=============================================================================
