CONSTANTS
  Algorithms = {1, 2}
  Deployed = {1}
  Names = {"repo", "other"}
  Repo = "repo"
  Commits = 2
  Broken = {2}
SPECIFICATION MCSpec
INVARIANTS MCTypeOK ScrapersAreRight  BarsAndTicksArrive 
INVARIANTS  ResearchIsSound DataIsAccountedFor LifeIsOrderly
CHECK_DEADLOCK FALSE
