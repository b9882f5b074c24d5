CONSTANT Worlds <- MCWorlds
SPECIFICATION FairSpec
INVARIANTS AlertTypeOK AllClearIsEarned
PROPERTIES DeployFailureStands AlertReaches
