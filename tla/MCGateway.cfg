CONSTANTS
  anna = anna
  ben = ben
  x1 = x1
  None = None
  Gateways = {"g1"}
  Sockets = {1, 2, 3}
  Riders = {anna}
  Drivers = {ben}
  Messages = {x1}
  MayFail = {"client", "register", "consume", "unregister", "gateway", "driver-service"}
SPECIFICATION FairSpec
INVARIANTS TypeOK EntriesHaveHandlers ServedIsFound RegistrationHasHandler ServedIsReached
PROPERTY EventuallyForgotten
CHECK_DEADLOCK FALSE
