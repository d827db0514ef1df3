SPECIFICATION Spec
CONSTANTS
  Requests = {r1, r2}
  DeliverableIds = {d1}
  VersionIds = {v1, v2, v3}
  NoDeliverable = NoDeliverable
  MaxSignoffs = 1
SYMMETRY Symmetry
INVARIANTS
  TypeOK
  OnlyNewestOpen
  NumbersGapFree
  DecisionsAgree
  AuditTrailAgrees
  SnapshotTruthful
PROPERTIES
  ImplementsContract
