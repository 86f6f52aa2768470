CONSTANTS
  UintSize = 64
  NUM_IMAGE_SLOTS = 2
  MaxCommands = 4
  Files <- MCFiles
  Picture <- MCPicture
  Commands <- MCCommands
SPECIFICATION Spec
INVARIANTS
  LoadsThePicture
  StaysInside
  ExitTellsTheFile
PROPERTIES
  LibraryFrees
  DrawsExactly
CHECK_DEADLOCK FALSE
