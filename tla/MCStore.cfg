\* Two events, of one device, with a listed and an unlisted code and two zones;
\* two storage errors or restarts.
\* The system may rest once everything is stored.
CONSTANTS
  Devices = {1}
  Catalogue <- MCCatalogue
  Unlisted = {"E999"}
  Zones = {"z1", "z2"}
  NoZone = "none"
  Attempts = 2
  BatchSize = 1
  Archiving = {TRUE, FALSE}
  MaxEvents = 2
  MaxFaults = 2
  MaxDeletes = 1
SPECIFICATION Spec
CHECK_DEADLOCK FALSE
INVARIANT
  FiledUnderItsNames
PROPERTIES
  MovedOnce
  ExpiredIsRemoved
