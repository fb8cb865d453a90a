SPECIFICATION BenchSpec
CONSTANTS
    RoundChoices = {0, 1, 2, 3}
    MaxSlotsChoices = {0, 3}
    PoolChoices = {0, 8192}
    MinSlots = 2
    SampleChoices = {1, 2}
    MaxRefusals = 1
INVARIANTS SoundRunPasses RunSurvives GatesCatchRefusals NullDrifts
