CONSTANTS
    None = None
    gears = gears
    twins = twins
    twice = twice
    round = round
    square = square
    car = car
    red = red
    blue = blue
    Files = {gears, twins, twice}
    Content <- MCContent
    Ids = {1, 2, 3}
    Shapes = {round, square}
    Materials = {red, blue}
    Paths = {car}
SPECIFICATION FairSpec
INVARIANTS IdsAgree ShownIsCurrent
PROPERTIES MeshesAreShown
