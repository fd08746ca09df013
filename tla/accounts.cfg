SPECIFICATION Spec
CONSTANTS
  c1 = c1
  c2 = c2
  Clients = {c1, c2}
  Names = {"root", "alice"}
  NoName = NoName
  Table <- CommandTable
  Sorted <- ByName
  Permissions = {"modify_users", "kick"}
  Words <- Typed
  Spelled <- Small
  RoleFiles <- RoleInis
  ExtensionFiles <- ExtensionInis
  OldDatabases <- Databases
SYMMETRY Symmetric
INVARIANTS
  AdvancedHasRoot
  LoginSurvivesChange
  AliasNamesOne
  ListedIsAllowed
PROPERTIES
  StoreSpec
