SPECIFICATION Spec
CONSTANTS
    Sessions <- MCSessions
    Crowds <- MCCrowds
    NoPlayer = NoPlayer
    MaxLogins = 2
    MaxRooms = 2
INVARIANTS NoAbandonedRoom MembershipMutual NoMissedMember

\* Clients may fall silent and every session may close.
CHECK_DEADLOCK FALSE
