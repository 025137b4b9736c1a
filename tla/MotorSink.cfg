\* One coasting and one braking wheel, every output below full.
SPECIFICATION Spec
CONSTANTS
    WheelCount = 2
    Full = 3
    Outputs <- PartialOutputs
    Decay <- MixedDecay
    Invert <- MixedInvert
INVARIANTS
    NoCoastConflict
    StopIsOff
    FrameApplied
    LeftoverIsStuck
PROPERTY
    BreakBeforeMake
