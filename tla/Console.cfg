CONSTANTS
  ann = ann
  vic = vic
  nell = nell
  NoOne = NoOne
  Accounts <- MCAccounts
  Role <- MCRole
  Settings <- MCSettings
  MaxWrites = 2
SPECIFICATION Spec
VIEW MCView
INVARIANTS
  TypeOK
  ReadYourWrites
  LogoutForgets
  NeverBlank
  RefusalSettles
PROPERTIES
  EntersServed
  SavesEnd
