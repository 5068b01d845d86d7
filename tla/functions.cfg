SPECIFICATION Spec
CONSTANT MaxLoop = 2
INVARIANTS CallIsDirectSql SelectIsOrdered JoinIsRelational GroupsAreClasses GroupsPartition
           NearestFirst SnapshotRoundTrips PayloadExact
