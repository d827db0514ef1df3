SPECIFICATION Spec
CONSTANTS
  Requests = {r1, r2}
  DeliverableIds = {d1, d2}
  VersionIds = {v1}
  NoDeliverable = NoDeliverable
  MaxSignoffs = 1
PROPERTIES
  SignoffOnlyWhenReady
