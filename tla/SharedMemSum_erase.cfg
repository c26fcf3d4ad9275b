CONSTANTS
    Processes = {p1, p2, p3}
    MaxAdds = 2
    FailureSets = {{}}
SPECIFICATION ShmSpec
INVARIANT AddsArePermanent
CHECK_DEADLOCK FALSE
