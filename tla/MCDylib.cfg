SPECIFICATION Spec
CONSTANTS
  Fn <- MCFn
  ModuleOf <- MCModuleOf
  PrefixOf <- MCPrefixOf
  Foreign = {"foreign"}
  Library = {"v1", "v2"}
  Exports <- MCExports
  Null = "null"
  NoLibrary = "none"
CHECK_DEADLOCK FALSE
INVARIANTS
  TypeOK
  NeverDangling
  ReloadComplete
PROPERTIES
  HasFnTellsSettable
