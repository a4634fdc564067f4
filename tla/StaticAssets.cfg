SPECIFICATION Spec
CONSTANTS
  Instances = {i1, i2}
  Releases = {1, 2, 3, 4, 5}
  SameSecond = {3}
  Lacking = {4}
  Packed = {1, 3, 5}
INVARIANTS
  TagAloneIsExact
  NeverOlder
