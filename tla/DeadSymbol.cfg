SPECIFICATION Spec
CONSTANTS
  Symbols = {btc, eth, sol, bnb}
  Channels = {tick, depth}
  MaxPositions = 3
  MaxCorrelated = 2
  MaxFaulty = 2
  MaxForgotten = 1
  MaxStreak = 3
  Environments <- RejectOnly
SYMMETRY Symmetry
INVARIANT NoDeadSymbol
