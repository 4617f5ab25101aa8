\* Two tabs edit, delete and approve while the run goes on; one row was added by
\* hand next to the synthesised one.
CONSTANTS
  Synthesised = {s1}
  Added = {s2}
  Contents <- MCContents
  Probes = {p1, p2}
  Requests = {r1, r2}
SPECIFICATION FairSpec
CHECK_DEADLOCK FALSE
INVARIANTS
  TypeOK
  ReadingsSound
PROPERTIES
  NoLostEdit
  ReviewEnds
