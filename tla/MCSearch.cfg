SPECIFICATION SearchSpec
CONSTANTS
  None = None
  Ids = {u1, p1, j1}
  Docs <- MCDocs
  MaxSent = 4
  Users = {u1}
  Endorsers = {e1, e2}
  Handlers = {h1, h2}
  Fields = {headline, avatarUrl}
  Values = {v1}
  Registration = Registration
  plain = plain
  Posts = {p1}
  Texts = {plain, tagged}
  Editors = {h1, h2, h3}
  Hashtags = {a}
  TagsOf <- MCTags
  boss = boss
  company1 = company1
  page1 = page1
  open = open
  reworded1 = reworded1
  acme = acme
  acme2 = acme2
  Jobs = {j1}
  Companies = {company1, company2}
  Pages = {page1, page2}
  People = {boss, ann}
  Clerks = {h1, h2}
  Adverts = {open, reworded1}
  Names = {acme}
  Suffixed <- MCSuffixed
  Role <- MCRole
  Bodies <- MCBodies
  Verdicts = {"SUBMITTED", "HIRED"}
CONSTRAINTS IndexAtStake SkillsAfterProfiles JobsInTurn
SYMMETRY Symmetry
INVARIANTS SearchTypes IndexFollowsProfile EndorsementsCounted HashtagsFollowText IndexFollowsPost ApplicantsCounted IndexFollowsJob
PROPERTIES OnlyAskedFieldsChange JobsChangeAsAsked
CHECK_DEADLOCK FALSE
