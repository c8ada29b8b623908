SPECIFICATION Spec
CONSTANTS
  Procs = {p1, p2, p3}
  Identities <- MCIdentities
  Credentials <- MCCredentials
  ClientOf <- MCClientOf
  PrincipalOf <- MCPrincipalOf
  Trusts <- MCTrusts
  Edits <- MCEdits
  Jobs <- MCJobs
  Clients = {"c1", ""}
  Lifetime = 0
  MaxTime = 1
  Segments <- MCSegments
  Ids <- MCIds
  Bodies <- MCBodies
  NoResource = NoResource
  Callers = {d1, d2}
  EndpointIds = {"e"}
  Endpoints = {"old", "new"}
  NoEndpoint = NoEndpoint
  Projects = {"project"}
  MaxRuns = 1
  MaxSecond = 5
CONSTRAINTS
  OneService
  TwoBusy
  LateQuiet
VIEW WithoutAnswers
SYMMETRY Alike
INVARIANT TypeOK
PROPERTIES
  TokensWereGranted
  RefusalsWereRight
  EndpointsStayDeleted
  BuildsProgress
