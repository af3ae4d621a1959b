CONSTANTS Workers = 1
          Cap = 2
          Threshold = 1
          Rounds = 2
          Sink = "err"
          Pinned <- Only
          Failing <- Only
          Errors = TRUE
          Tasks = {1, 2, 3}
SPECIFICATION Spec
PROPERTIES Progress StopEnds
