CONSTANTS
  r1 = r1
  r2 = r2
  r3 = r3
  b1 = b1
  b2 = b2
  m1 = m1
  m2 = m2
  n1 = n1
  n2 = n2
  n3 = n3
  None = None
  Client = Client
  Raws = {r1, r3}
  Runs = {b1, b2}
  MimeTypes = {m1, m2}
  Normalizers = {n1, n2}
  boefje_meta <- BoefjeMeta
  mime_types <- MimeTypesOf
  has_error <- NoError
  normalizers_for <- NormalizersFor
  enabled <- Enabled
  Recorded = {b1}
  MaxSize = 3
  ClientsPush = FALSE
  ServicesFail = FALSE
  MaxCrashes = 0
SPECIFICATION FairSpec
PROPERTIES
  RawDataAreNormalized
