\* The handshake and what is promised in it.
CONSTANTS
  Scenarios <- MCScenarios
  Contents <- MCContents
  MaxChanges = 3
  MaxTries = 2
  Tested <- MCTested
  BuildInfo <- MCBuildInfo
  FirstWord <- MCFirstWord
  FolderOf <- MCFolderOf
  Stem <- MCStem
  Fits <- MCFits
  Hidden = {".storybook"}
  Minified = {"c.min.js", "*.min.js"}
  Starred <- MCStarred
  Dotted <- MCDotted
  Typescript = {"a.ts", "b.ts"}
  Javascript = {"c.js", "c.min.js"}
SPECIFICATION Spec
INVARIANT HandshakeOnlyAdds
INVARIANT GuaranteesAreTested
INVARIANT CoverageHolds
CHECK_DEADLOCK FALSE
