CONSTANTS
    Routers = {r}
    Endpoints = {e}
    Runners = {w}
    v1 = v1
    v2 = v2
    g1 = g1
    g2 = g2
    Guardrails = {g1, g2}
    Versions = {v1, v2}
    GuardrailOf <- MCGuardrailOf
    Drafts <- MCDrafts
    None = None
    SoftDeleted = SoftDeleted
    MaxRevision = 3
    MaxGeneration = 4
SPECIFICATION RCSpec
INVARIANTS RoutedVersionsReady RollbackKept RolloutIsTruthful
PROPERTIES ServedVersionsKept
CHECK_DEADLOCK FALSE
