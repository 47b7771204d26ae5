SPECIFICATION Spec
CONSTANTS
  Boxes = {b1, b2, b3}
  NoBox = NoBox
  MaxAddresses = 2
  TargetCount = 2
SYMMETRY BoxSymmetry
INVARIANTS TypeOK AddressesDistinct Complete SavedOneAddressEach OnlineTrue
PROPERTIES IdentityKept
