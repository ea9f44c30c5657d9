SPECIFICATION FairSpec
CONSTANTS
  stationeers = stationeers
  coi = coi
  v4 = v4
  v6 = v6
  NoGame = NoGame
  Games = {stationeers, coi}
  Rules = {v4, v6}
  RulesOf <- MCRulesOf
  Guards <- MCGuards
  MaxFaults = 2
INVARIANTS TypeOK RulesMatchSessions SessionsFollowDetector StoppedHasGame DownIsHeld
PROPERTIES BlinkIsNoStop EscalationEarned QuietBeforeFire StaysDown ServiceReturns
