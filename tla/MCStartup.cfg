SPECIFICATION Spec
CONSTANTS
    Setups <- MCSetups
    Rewrites <- MCRewrites
    Users <- MCUsers
    MaxChanges = 2
INVARIANTS
    CombinationsAsDocumented
    BuildRefusesOnlyTheIdentity
    ReadyIsEarned
    ClientsUseCheckedMaterial
PROPERTY
    StartupEnds
CHECK_DEADLOCK FALSE
