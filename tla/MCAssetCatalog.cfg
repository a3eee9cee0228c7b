\* Five manifests over four blobs; the limits on manifests and on bytes bind alone.
SPECIFICATION CatalogSpec
CONSTANTS
  brick = brick
  tile = tile
  sky = sky
  tree = tree
  b1 = b1
  b2 = b2
  b3 = b3
  b4 = b4
  rock = rock
  Assets <- MCAssets
  Blobs = {b1, b2, b3, b4}
  Content <- MCContent
  Size <- MCSize
  Names = {n1, n2}
  ManifestLimit = 3
  BlobLimit = 3
  HistoryLimit = 1
  RootsLimit = 2
  ByteLimit = 3
  LastRevision = 5
SYMMETRY Symmetry
INVARIANTS
  RootsResolve
  ExportImports
PROPERTIES
  ReportForetells
