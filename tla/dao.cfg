\* Two clients that interleave, two voters, one refused open and one killed call.
SPECIFICATION Spec
CONSTANTS
  c1 = c1
  c2 = c2
  v1 = v1
  v2 = v2
  Clients <- MCClients
  Proposals = {"P"}
  Voters <- MCVoters
  Weight <- MCWeight
  Garbage = 2
  Quorum = 2
  MaxCollisions = 1
  MaxCrashes = 1
SYMMETRY MCSymmetry
INVARIANTS TypeOK NoVoterCountedTwice TallyMatchesVotes
PROPERTY DecisionFinal
