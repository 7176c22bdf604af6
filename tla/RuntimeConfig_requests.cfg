SPECIFICATION Spec
CONSTANTS
    Requests = {1, 2, 3}
    Catalog <- ThreeModels
    Default <- Mini
    Profiles = {"default", "custom"}
INVARIANTS ActiveSettingsResolve
PROPERTIES BoundProfilesStay
CHECK_DEADLOCK FALSE
