SPECIFICATION Spec
CONSTANTS
    Deployments <- MCDeployments
    LockSettings <- MCLockSettings
    Requests <- MCRequests
    Assets <- MCAssets
    Payments <- MCPayments
INVARIANTS TypeOK DecisionSound AnswerExplained RecordedAsAnswered
PROPERTY RiskOnlyRises
