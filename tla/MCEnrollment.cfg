SPECIFICATION Spec
CONSTANTS
  Tokens = {"t1", "t2", "t3"}
  Organizations = {"orgA", "orgB"}
  TokenOrg <- MCTokenOrg
  MaxKeys = 3
  MaxRuns = 4
INVARIANTS EnrollmentResumable IdentityAsEnrolled OneOrganizationPerKey
PROPERTY IdentityPreserved
CHECK_DEADLOCK FALSE
