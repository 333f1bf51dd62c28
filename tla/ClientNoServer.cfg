\* One caller, no proxies needed: the domain's suffix has one label, or two.
CONSTANTS
  c1 = c1
  c2 = c2
  d1 = d1
  p1 = p1
  p2 = p2
  s1 = s1
  s2 = s2
  Callers = {c1}
  Domains = {d1}
  Proxies = {p1, p2}
  Servers = {s1, s2}
  ServerOf <- ToS1
  Answers <- AnswersBothWays
  Files <- FilesTwoOrNone
  MaxProxies = 2
  MaxRetries = 1
  MaxLoads = 0
SPECIFICATION Spec
INVARIANTS
  ServerKnown
