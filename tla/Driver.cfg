SPECIFICATION DriverSpec
CONSTANTS
  a = a
  MaxHeld = 3
  r = r
  Messages <- DriverMessages
  Prompts <- DriverPrompts
  Replies = {r}
  Failures = {"mismatch", "splice"}
INVARIANTS NeverRewinds DriverInv
