SPECIFICATION Spec
CONSTANTS
  Conns = {c1, c2}
  Queues = {q1}
  Scrapers = {s1}
  Tags = {t1}
  Prefetch = 1
  MaxMsgs = 1
  None = None
INVARIANT ScrapeAnswers
