SPECIFICATION Spec
CONSTANTS
  u1 = u1
  u2 = u2
  r1 = r1
  r2 = r2
  s1 = s1
  s2 = s2
  t1 = t1
  t2 = t2
  p = p
  q = q
  Users <- TwoUsers
  Revisions <- TwoRevisions
  Sessions <- TwoSessions
  Tasks <- TwoTasks
  Paths <- TwoPaths
  PathsOf <- SharedPath
  NoRevision = NoRevision
  NoSession = NoSession
  NoUser = NoUser
SYMMETRY Symmetry
INVARIANT ApprovedPointer
INVARIANT TasksFollowRevision
INVARIANT ConvergedIsCovered
INVARIANT PathOwnedOnce
CHECK_DEADLOCK FALSE
