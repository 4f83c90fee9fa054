SPECIFICATION Spec
CONSTANTS
  Token = {t1, t2, t3}
  Servers = {"gopls"}
  MaxNesting = 3
  Folder = {d1, d2, d3}
  LoudFolder = {d1}
  ProjectUri = {p1, p2}
  File <- WorkspaceFiles
  Stray <- StrayFiles
INVARIANT OkIsObserved
