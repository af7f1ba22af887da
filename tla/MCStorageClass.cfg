SPECIFICATION LayoutSpec
CONSTANTS
  Resource <- MCResource
  Specs <- ClassSpecs
INVARIANTS
  StorageIsFollowed
