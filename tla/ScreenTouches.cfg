SPECIFICATION Spec
CONSTANT
  Scenes <- ThreeScenes
INVARIANTS
  ScreenTypeOK
  CursorReadsSample
  TextsTell
PROPERTIES
  ReleaseIsIdle
  OneEffect
