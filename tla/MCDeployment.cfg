SPECIFICATION Spec
CONSTANTS
  w1 = w1  w2 = w2  a1 = a1  m1 = m1
  here = here  there = there  Anywhere = Anywhere
  appPg = appPg  LocalApp = LocalApp  LocalErp = LocalErp
  strong = strong  weak = weak  Unset = Unset  Blank = Blank
  Workers = {w1, w2}
  AdminScripts = {a1}
  Migrators = {m1}
  Dirs = {here, there}
  StartedIn <- Starts
  Relative = {LocalApp, LocalErp}
  Urls = {appPg, LocalApp, LocalErp}
  Postgres = {appPg}
  Secrets = {strong, weak}
  Weak = {weak}
  Environments <- MCEnvironments
INVARIANTS TypeOK OneDeployment HeadMatchesModels TablesWhenServing
SYMMETRY MCSymmetry
