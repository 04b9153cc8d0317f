SPECIFICATION FairSpec
CONSTANTS
  Slots = {p1, p2}
  MaxChange = 2
  MaxInbox = 2
  MaxWire = 2
  MaxFault = 2
INVARIANTS
  TypeOK
  NoAnnouncementIsLost
PROPERTY ViewCatchesUp
