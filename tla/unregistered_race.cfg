SPECIFICATION Spec
CONSTANTS
    state = state
    other = other
    plain = plain
    profile = profile
    Txns = {t1, t2}
    Registered = {state, other}
    Unregistered = {plain}
    Profiles = {profile}
    Requests <- Replacements
    None = None
PROPERTY
    LastWriteWinsUnregistered
