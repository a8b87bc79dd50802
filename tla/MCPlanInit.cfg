\* No plan yet, two processes that init it without --force.
CONSTANTS
  Writers = {p1, p2}
  link = link
  Names = {plan, link}
  Real = plan
  f1 = f1
  Findings = {f1}
  e1 = e1
  Evidence = {e1}
  c1 = c1
  Commands = {c1, c2}
  Starts <- NoPlanYet
  Jobs <- InitOnlyJobs
  Missing = Missing
  LinkTo = LinkTo
  Torn = Torn
  Unjudged = Unjudged
  NoRow = NoRow
  Blank = Blank
  Free = Free
SPECIFICATION Spec
PROPERTY ExistingPlanKept
