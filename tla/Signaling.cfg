\* Two sessions of one agent, two pages for either.
SPECIFICATION FairSpec
CONSTANTS
  Sessions = {s1, s2}
  Pages = {p1, p2}
  NoSession = NoSession
  NoPage = NoPage
  Wire = 2
INVARIANTS
  TypeOK
  LastViewerRouted
  OneWebRTCSession
  AnsweredForItself
  ControlIsShown
  EndedIsNotResumed
PROPERTIES
  CutEndsControl
