SPECIFICATION LinkFair
CONSTANTS
  Packets <- SomePackets
  TxSize = 11
  Burst = 6
  RxSize = 4
  Noise <- SomeNoise
  MaxSent = 2
  MaxDamage = 1
  MaxFails = 1
  MaxCuts = 1
INVARIANTS
  LinkTypeOK
  NothingInvented
  AtMostOneLost
  ArrivesAsSent
PROPERTY
  AllArrive
