CONSTANTS
  None = None
  bins = bins
  charms = charms
  productsA = productsA
  productsB = productsB
  bin = bin
  binOpen = binOpen
  image = image
  imageOther = imageOther
  archive = archive
  wheelGood = wheelGood
  wheelExtra = wheelExtra
  wheelTwice = wheelTwice
  wheelOpen = wheelOpen
  sdistGood = sdistGood
  meta = meta
  crate = crate
  toml = toml
  jar = jar
  pom = pom
  chisel = chisel
  chiselTwo = chiselTwo
  index = index
  json = json
  sizes = sizes
  transforms = transforms
  resolve = resolve
  png = png
  html = html
  Files <- MCFiles
  Content <- MCContent
  Urls <- MCUrls
  Asks <- MCAsks
  Serves <- MCServes
  AptKeys = {"key"}
  Policies = {TRUE, FALSE}
  Downloads = {"list", "other", "main"}
SPECIFICATION Spec
INVARIANTS BinVouched ImageListed WheelRecorded
CHECK_DEADLOCK FALSE
