SPECIFICATION FairSpec
CONSTANTS
  NoMenu = "no menu"
  MENU_MAX_DEPTH = 3
  Menus <- PanelMenus
  TopMenu = "top_level_menu"
  Item <- PanelItem
  Level <- PanelLevel
  SLOTS = 3
  QUEUE_LENGTH = 3
INVARIANTS
  PanelTypeOK
  UntouchedStaysHome
  NoCrash
  PathOK
  NoTornDraw
PROPERTIES
  DoesAsShown
  NavSpec
  InputHandled
  DisplayCatchesUp
