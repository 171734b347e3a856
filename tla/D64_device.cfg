\* The handle as a disk drive, with tracks on both sides of the zone borders.
CONSTANTS
  a = a
  Zero = Zero
  Content = {Zero, a}
  NoPath = NoPath
  Paths = {p}
  p = p
  HostFiles <- MCHostFiles
  Types = {"CBMDOS", "SPEEDDOS"}
  TrackArgs = {17, 18, 36}
  SectorArgs = {0, 20}
SPECIFICATION Spec
INVARIANT AccessInBounds
PROPERTIES
  OnlyAllocOverlabels
  ImplementsDevice
