SPECIFICATION Spec
CONSTANTS
  p1 = p1
  p2 = p2
  c1 = c1
  b1 = b1
  b2 = b2
  b3 = b3
  NoBrowser = nobrowser
  NoOne = noone
  Pages <- TwoPages
  Closers <- OneCloser
  Browsers <- ThreeBrowsers
  MaxContexts = 2
  RecycleAfter = 2
  MaxAbandoned = 1
PROPERTIES DisconnectIsLocal
