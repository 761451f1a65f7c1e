SPECIFICATION KeyboardSpec
CONSTANTS
  Keys = {"Super", "Ctrl", "Escape", "Print"}
  MaxDown = 2
  MaxVerdicts = 2
 
PROPERTY ChordWhole
PROPERTY LockedTellsNothing
