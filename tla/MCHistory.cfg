SPECIFICATION Spec
CONSTANTS
  Shells = {s1, s2, s3}
  Texts <- MCTexts
  Exit <- MCExit
  HIST_SZ = 2
  Newline = "n"
  Nul = "0"
  BufferSize = 2
  MaxEntered = 4
  MaxCursor = 2
SYMMETRY MCShells
CONSTRAINT MCNoOverlapBefore
INVARIANTS
  TypeOK
  RecallsLast
  FileFromOneShell
  CursorInside
