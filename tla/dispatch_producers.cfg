SPECIFICATION FairSpec
CONSTANTS
  Producers = {"http", "dryrun"}
  tiktok = tiktok
  facebook = facebook
  manual = manual
  trial = trial
  other = other
  None = None
  Queues <- MCQueues
  Publishers = {manual, trial, other}
  ProducerOf <- MCProducerOf
  Channels = {c1, c2, c3, c4, c5, c6, c7}
  MaxFaults = 1
  MaxOutages = 1
  Forgets = TRUE
INVARIANTS
  ChannelsAreOwned
  DeadLettersHaveAPlace
  HealthyBrokerServes
PROPERTIES
  ImplementsPublishing
  PublishesReturn
CHECK_DEADLOCK FALSE
