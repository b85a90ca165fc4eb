CONSTANTS
    console = console
    hmi = hmi
    Setters <- MCSetters
    Cyclers <- MCCyclers
    Targets <- NamedTargets
SPECIFICATION FairSpec
INVARIANT ModesDoNotMix
PROPERTIES UninstallIsSafe SwitchEnds
