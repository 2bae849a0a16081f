SPECIFICATION FairSpec
CONSTANTS
  Gateways = {g1}
  Fetchers = {poll, reload}
  Poller = poll
  NumParts = 2
  McpParts = {2}
  Unrenderable <- MCUnrenderable
  Drift = {0}
  MaxEvents = 2
INVARIANTS IInv VersionNamesContent
PROPERTIES FreshAfterReload EventuallyCurrent
