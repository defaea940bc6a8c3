SPECIFICATION RightsSpec
CONSTANTS
    None = None
    Roles = {"SUPER_MANAGER", "MANAGER"}
    FirstRole = "MANAGER"
    Keys = {k1, k2}
INVARIANT RightsAgree
CHECK_DEADLOCK FALSE
