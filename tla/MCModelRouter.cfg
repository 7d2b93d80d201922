SPECIFICATION Spec
CONSTANTS
  a = a
  b = b
  m1 = m1
  m3 = m3
  p = p
  q = q
  Agent = {a, b}
  Model = {m1, m3}
  Provider = {p, q}
  ProviderOf <- MCProviderOf
  Pinnable = {}
  ChainLimit = 2
  MaxRetries = 1
  AttemptTimeout = 1
  TotalTimeout = 1
  MaxBackoff = 1
  Reply = {"ok", "ignored", "rate_limit", "quota", "unavailable", "permission", "timeout", "transient", "unknown"}
  Hints = {0}
  MaxTokens = 0
  MaxUse = 1
  BaseCooldown = 1
  MaxCooldown = 2
  NoToolCooldown = 2
  FailureLimit = 2
  HitLimit = 2
SYMMETRY Symmetry
INVARIANTS
  AnswersInTime
  SpendIsBounded
PROPERTIES
  CooldownIsRespected
