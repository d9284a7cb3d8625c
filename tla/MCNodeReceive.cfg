SPECIFICATION Spec
CONSTANTS
  Profiles <- MCProfiles
  Banks <- MCBanks
  Priority <- Nearing
  StepPeriod = 4
  MaxDelay = 1
  MaxFrames = 3
  MaxSigned = 2
  MaxOutages = 1
  Horizon = 7
CHECK_DEADLOCK FALSE
INVARIANTS
    FramesSound
    WokenForAll
    InArrivalOrder
    VerifierSound
