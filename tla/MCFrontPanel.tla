---------------------------- MODULE MCFrontPanel ----------------------------
(***************************************************************************)
(* An instance of FrontPanel: the menu initializeU8G2 builds, with a       *)
(* submenu in the place of the second menu's values, so that a layer has   *)
(* one above and one below; arrays have room for three items, not for ten, *)
(* so that the first one is full; nav_stack is full too.                   *)
(***************************************************************************)
EXTENDS FrontPanel

Array(m) == [i \in Slots |-> IF i + 1 \in DOMAIN m THEN m[i + 1] ELSE "none"]

PanelItem ==
  [top_level_menu  |-> Array(<<"value", "value", "debug_stat_menu">>),
   debug_stat_menu |-> Array(<<"back", "third">>),
   third           |-> Array(<<"value", "back">>)]
PanelLevel == [top_level_menu |-> 0, debug_stat_menu |-> 1, third |-> 2]
PanelMenus == DOMAIN PanelItem
=============================================================================
