CONSTANTS
  RootType <- MCRootType
  ParamType <- MCParamType
  Param <- MCParam
  MaxSize = 0
  Offered <- MCOffered
  MaxStatements = 2
  StoredRows <- MCStoredRows
  ArgValues <- MCArgValues
  ReceiverKeys <- MCReceiverKeys
  KeyField <- MCKeyField
  Computed <- MCComputed
  RefersTo <- MCRefersTo
  ParamNames <- MCParamNames
  HostOps <- MCHostOps
  Library <- MCLibrary
  Exports <- MCExports
  Incarnations = {"c", "d"}
  Escaping = {"../x"}
  Markers = {"resources/"}
  Replacements <- MCReplacements
  Edits <- MCEdits
  Renamings <- MCRenamings
  MaxModuleDepth = 1
  MaxDamage = 2
SPECIFICATION LanguageSpec
CHECK_DEADLOCK FALSE
INVARIANT NullsSurviveCapture
