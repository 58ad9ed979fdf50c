INIT Init
NEXT Next
INVARIANT HeadsAreOwn
CHECK_DEADLOCK FALSE
