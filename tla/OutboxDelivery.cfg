\* One chapter and as many undeliverable operator rows as a call claims, two
\* calls, one mishap.
SPECIFICATION FairSpec
CONSTANTS
  w1 = w1  w2 = w2
  Workers = {w1, w2}
  Limits = {2}
  MaxChapters = 1
  MaxAppends = 2
  MaxMishaps = 1
PROPERTIES ChapterEffectsSettle
