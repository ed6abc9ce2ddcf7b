CONSTANTS
  apps = apps
  infra = infra
  Namespaces = {apps, infra}
  Names = {1, 2, 3, 4}
  Readable <- MCReadable
  PageSize = 2
  MaxRetries = 1
  MaxChanges = 2
SPECIFICATION Spec
INVARIANTS TypeOK QuietListingIsExact MissedOnlyAfterRemoval RepeatedOnlyAfterInsertion OverrunsOnlyAfterRemoval
PROPERTIES ListingEnds
CHECK_DEADLOCK FALSE
