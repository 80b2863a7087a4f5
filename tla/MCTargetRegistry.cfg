SPECIFICATION Spec
CONSTANTS
  Names = {"cf", "home", "Home"}
  trim <- trimmed
  lower <- lowered
  Ranges = {r1}
  NoRanges = none
  Feed = feed
  Urls = {feed}
  NoUrl = nourl
  FirstManifest <- oneBuiltin
  Upcoming = {"home"}
  Reloaders = {p1}
  Scanned = {"cf"}
INVARIANTS TypeOK NamesUnique BuiltinsAccounted FilesCurrent
PROPERTIES RangesSurviveRestart

CHECK_DEADLOCK FALSE
