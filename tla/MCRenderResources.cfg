CONSTANTS
    None = None
    Expired = Expired
    stone = stone
    glass = glass
    gear = gear
    gray = gray
    bumpy = bumpy
    odd = odd
    MaterialPaths = {stone, glass}
    MeshPaths = {gear}
    Images = {gray, bumpy, odd}
    BaseOf <- MCBaseOf
    NormalOf <- MCNormalOf
    Refused = {odd}
    MaxAssets = 3
    MaxEntries = 7
    MaxHandles = 6
SPECIFICATION Spec
INVARIANTS NothingTwice TexturesOutliveMaterials
PROPERTIES Reclaimed
