SPECIFICATION FairSpec
CONSTANTS
  ChallengeId = {c1, c2}
  Key = {k1, k2}
  Code = {right, wrong}
  RightCode = right
  NoCode = NoCode
  max_incorrect_guesses = 2
  recipientGuessLimit15m = 3
  Window = 2
  QuotaRetention = 2
  Lifetime = 2
  MaxClock = 4
INVARIANTS LifecyclesAgree GuessBudget RollingGuessLimit OneAnswerPerKey VerifiedOnce
PROPERTIES DeadlineIsStrict EveryChallengeEnds
