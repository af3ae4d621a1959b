CONSTANTS Size = 3
          Word <- WordOfFourBits
          MaxTask = 8
SPECIFICATION LiveSpec
INVARIANTS TypeOK InOrder Conserved RoomHonest
PROPERTIES Delivered IsQueue
