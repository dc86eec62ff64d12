CONSTANTS
    m1 = m1  m2 = m2  m3 = m3  L1 = L1  L2 = L2  x1 = x1  x2 = x2  x3 = x3
    MonId = {m1, m2, m3}
    NoMon = NoMon
    Level = {L1, L2}
    Square = {x1, x2, x3}
    Nowhere = Nowhere
    Form <- Forms
    Lights = {"vortex"}
    Steeds = {"pony"}
    Engulfers = {"vortex"}
    Animals = {}
    Stickers = {"demon"}
    Speed <- Speeds
    HeroSpeeds = {1}
    NORMAL_SPEED = 1
    Cast <- Zoo
    MaxMonsters = 2
    MaxMovement = 2
    Oversights = {}
SPECIFICATION Spec
INVARIANTS TypeOK OnOneList MapAgrees HeroAgrees LightIffGlowing LeashedIsNear NoImpossible
PROPERTIES OnlyTheMoverLeaves
