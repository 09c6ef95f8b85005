CONSTANTS
  Emails = {e1}
  Passwords = {p1, p2}
  NoEmail = noemail
  NoPassword = nopassword
  MaxTokens = 2
  Slots = {s1, s2}
  Lifetime = 2
  MaxTime = 2
  MaxFaults = 1
SPECIFICATION AccessFairSpec
INVARIANTS AccessTypeOK SignedOutStaysOut SessionsNeedThePassword CookiesWithinSession
PROPERTIES WritesComeBack
