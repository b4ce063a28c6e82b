SPECIFICATION Spec
CONSTANTS
  n1 = n1
  n2 = n2
  a = a
  b = b
  c = c
  Media = {n1, n2}
  Titles = {a, b, c}
  NFeeds = 3
  MediaOf <- SharedMedia
  Editions <- SharedEditions
  ShortTitles <- BShortensToA
  BadFeedSets = {{}}
  MaxNetFaults = 1
  MaxDbFaults = 1
  MaxCrashes = 1
PROPERTIES
  NewItemsAreDownloaded
