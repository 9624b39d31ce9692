SPECIFICATION FairSpec
CONSTANTS
  Addr = {ok, bad}
  Mapped = {ok}
  Data = {zero, one}
  Zero = zero
  CooldownCycles = 2
  NoAddr = none
INVARIANTS NoPhantom ResponseAnswersRequest
PROPERTIES WritesAreRequested ClientsServed
