\* Two calls of deposit_req beside update_cached_fee.
SPECIFICATION Spec
CONSTANTS
    Requests = {r1, r2}
    PerByte <- MCPerByte
INVARIANTS
    MinimumIsFiveFees
