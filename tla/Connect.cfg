CONSTANTS
  ModeArgs <- MCModeArgs
  ProtoArgs <- MCProtoArgs
  Servers <- MCServers
SPECIFICATION Spec
INVARIANT TypeOK
INVARIANT ConfigRestored
INVARIANT SocketsAccounted
INVARIANT DisabledNeverUsed
PROPERTY GivesUpOnlyIfHopeless
PROPERTY BestCommonProtocol
