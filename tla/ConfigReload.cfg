CONSTANTS
  Services = {"client", "agent"}
  Shapes <- EveryShape
  MaxVersion = 3
SPECIFICATION FairSpec
INVARIANTS
  TypeOK
  SettingsAgree
PROPERTIES
  ClientNeverGoesBack
  ReportedChangeIsUsed
\* When the file is not written any more there is nothing left to do.
CHECK_DEADLOCK FALSE
