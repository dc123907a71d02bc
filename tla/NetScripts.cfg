SPECIFICATION Spec
CONSTANTS
    Ifaces <- MCIfaces
    CardLists <- MCCardLists
    Configs <- MCConfigs
INVARIANTS TypeOK RolesKept PlanApplied DefaultRoute LiveAfterApply RestoreExact
PROPERTIES RetryIdempotent
