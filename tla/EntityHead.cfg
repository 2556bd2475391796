CONSTANTS
  Holder = {h1, h2, h3}
  Key = {k}
  MaxMemos = 4
SPECIFICATION Spec
INVARIANT HeadIsFrontier
INVARIANT AppliedMeansChanged
INVARIANT ContainmentIsSound
INVARIANT HeadValueWins
INVARIANT StreamIsComplete
PROPERTY NeverForgets
