SPECIFICATION Spec
CONSTANTS
  b1 = b1
  b2 = b2
  c1 = c1
  c2 = c2
  Messages <- MCMessages
  Background <- MCBackground
  Configs <- MCConfigs
  Prompting <- MCPrompting
  First = c1
  Garbled = Garbled
  BuiltIn = BuiltIn
  MaxIterations = 2
  TTL = 1
  Throttle = 1
INVARIANTS
  TypeOK
  FilesInOwnPlace
  RunsInOwnRole
  EndIsLearnt
PROPERTIES
  RemoteTaskSpec
