CONSTANTS
  ModeArgs <- MCModeArgs
  ProtoArgs <- MCProtoArgs
  Servers <- MCServers
SPECIFICATION Spec
INVARIANT H2OnlyIfServerChose
