CONSTANTS Workers = 2
          Cap = 1
          Threshold = 1
          Rounds = 2
          Sink = "err"
          Pinned <- Second
          Failing <- Second
          Errors = TRUE
          Tasks = {1, 2, 3}
SPECIFICATION Spec
INVARIANTS TypeOK OnePlace WipHonest Backpressure StopClean StopTrue
