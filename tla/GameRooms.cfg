SPECIFICATION FairSpec
CONSTANTS
    s1 = s1
    s2 = s2
    Sessions = {s1, s2}
    World = World
    Dungeon = Dungeon
    Nowhere = Nowhere
    Keys = {World, Dungeon, Nowhere}
    ValidKey <- MCValidKey
    w1 = w1
    i1 = i1
    i2 = i2
    Rooms = {w1, i1, i2}
    KeyOf <- MCKeyOf
    NoRoom = NoRoom
    Hall = Hall
    Plans <- MCPlans
INVARIANTS
    SessionFollowsRoom
    StrandedOnlyByRace
    EndCarriesToken
PROPERTIES
    MapChangeSettles
    DisconnectRemoves
    ImplementsPresence

\* Every client may go.
CHECK_DEADLOCK FALSE
