\* Every handle is below 2^63.
CONSTANTS
    Handles = {h1, h2, h3}
    Entry = {object}
    Unissued = Unissued
    Spent = Spent
    Commands = {c1, c2}
    Representable = {h1, h2, h3}
SPECIFICATION FairSpec
INVARIANTS TypeOK LeasesExact InputsLive ReleaseNeverFails OwnershipExact
PROPERTIES ClosedIsReleased
