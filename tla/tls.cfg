SPECIFICATION TlsSpec
CONSTANTS
  Certs = {"old", "new", "other"}
  Addresses = 2
  UserPins = TRUE
  DiskFails = TRUE
INVARIANT UpMeansStored
PROPERTIES OneServer OnlyTheUserTrusts
