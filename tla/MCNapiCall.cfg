SPECIFICATION Spec
CONSTANTS
  Half32 = 2
  Half64 = 4
  box = box
  bytes = bytes
  Nothing = Nothing
  Wild = Wild
  Object = {box, bytes}
  Call = {1, 2}
  Pool = 1
  Failing = {"export", "callback", "name", "reference", "work", "queue", "get", "helper", "result"}
  ClassOf <- MCClassOf
  Fn <- MCFn
  Plain <- MCPlain
INVARIANTS TypeOK ArgsAlive Settled AnsweredOnce
CHECK_DEADLOCK FALSE
