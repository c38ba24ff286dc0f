SPECIFICATION KeeperSpec
CONSTANTS
  Tickets = {APF1}
  Every = 2
  Idle = 1
  MaxLives = 1
PROPERTY KeeperWaits
