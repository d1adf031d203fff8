SPECIFICATION MCSpec
CONSTANTS
  alice = alice
  bob = bob
  coffee = coffee
  Senders = {alice}
  Payload <- Alone
  Expiry = 2
  BlockTtl = 2
  MaxClock = 6
  MaxSends = 3
  LostAs <- MCLostAs
  RefusedAs <- MCRefusedAs
  MayRebroadcast = TRUE
INVARIANTS NodeErrorMeansNotTaken
CHECK_DEADLOCK FALSE
