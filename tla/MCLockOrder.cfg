SPECIFICATION Spec
CONSTANTS
  Process = {p1, p2, p3}
  Kinds <- AllKinds
INVARIANTS TypeOK RingsStartFromCampaign
PROPERTY TransactionsEnd
