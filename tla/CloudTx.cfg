SPECIFICATION UplinkSpec
CONSTANTS
  FifoLen = 2
  SessLen = 2
  Deferrable = 1
  BufMax = 2
  MaxEvents = 2
  MaxTwins = 1
  MaxFaults = 2
  Kinds = {"wifi", "ap", "drop", "renew", "refused", "failed", "ack", "nvs", "decom", "restart"}
  WifiKinds = {"SUBMIT", "JOIN"}
  MaxRadioFaults = 1
INVARIANTS
  SettledTold
  NeverBesideStop
  CausesFirst
  NoSilentLoss
  EndedStaysEnded
  BlindBounded
  ConnectAsked
  ClaimDelayedOnce
PROPERTIES
  StartsStopped
  TwinNewestWins
