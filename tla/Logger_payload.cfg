SPECIFICATION Spec
CONSTANTS
    Thread = {t1, t2}
    None = None
    Configs <- MCConfigs
    Toggles = {0, 2, 5}
    Records <- MCRecords
    FieldCap = 3
    Release = TRUE
INVARIANT PayloadSummaryIsCapped
