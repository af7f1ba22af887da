SPECIFICATION LayoutSpec
CONSTANTS
  Resource <- MCResource
  Specs <- CountSpecs
INVARIANTS
  ClaimsAreMounted
  HostsArePods
  UsedIsWritten
