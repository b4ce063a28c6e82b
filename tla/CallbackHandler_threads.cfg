SPECIFICATION FairSpec
CONSTANTS
  catcher = catcher  extractor = extractor
  Handlers = {catcher, extractor}
  NoHandler = NoHandler
  Hanging = {extractor}
  MaxArticles = 2
INVARIANT TypeOK SizeIsWaitingThreads ReadOnceUnlessRaced
PROPERTY ThreadsEnd WatcherIsNotHeldUp
