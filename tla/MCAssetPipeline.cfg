CONSTANTS
  wood = wood
  gear = gear
  level = level
  None = None
  Materials = {wood}
  Meshes = {gear}
  Files = {level}
  Contents <- OneObject
  Broken = {gear}
  MaxLoads = 3
SPECIFICATION FairSpec
INVARIANTS ScenesApart
PROPERTIES StartupSeesEverything LoadingGoesOn
