SPECIFICATION Spec
CONSTANT
  Scenes <- EndScene
PROPERTY
  MathIsLimited
