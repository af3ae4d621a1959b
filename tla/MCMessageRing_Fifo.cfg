CONSTANTS Size = 3
          Word <- WordOfFourBits
          MaxTask = 8
SPECIFICATION Spec
INVARIANT Fifo
