SPECIFICATION Spec
CONSTANTS
  Handlers = {h1, h2}
  Users = {u1, u2}
  Orgs = {o1, o2}
  Emails = {e1, e2}
  None = None
SYMMETRY Symmetry
INVARIANTS
  OrganizationsHaveMembers
PROPERTIES
  RemovalEndsSessions
  TokensFallBehindByEdit
  LogoutHolds
