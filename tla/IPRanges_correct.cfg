SPECIFICATION Spec
CONSTANTS
  Octets = 3
  Bits = 2
  MaxInterfaces = 3
  MaxAddresses = 2
CHECK_DEADLOCK FALSE
INVARIANT ClusterIsSmallestCommon
INVARIANT DnsInServiceRange
INVARIANT BindsPrivately
