SPECIFICATION Spec
CONSTANTS
  catcher = catcher  extractor = extractor
  Handlers = {catcher}
  NoHandler = NoHandler
  Hanging = {}
  MaxArticles = 3
INVARIANT EveryArticleIsCaught
