CONSTANTS
  select = select
  delete = delete
  insert = insert
  Query <- MCQuery
  Class <- MCClass
  Plan = plan
  Table = {t1}
  Interim = interim
  Mode <- MCMode
  OptionValue = {v1}
  Unset = Unset
SPECIFICATION Spec
INVARIANTS BookkeepingAgrees WritesAreEager NeverPoisoned GeoUpdateIsRerouted
