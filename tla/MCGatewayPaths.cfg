CONSTANTS
  Untrimmed = {" "}
  StreamName <- MCStreamName
  Features = {"ecpds"}
  Deployments <- MCDeployments
  EventTypes <- MCEventTypes
  Users <- MCUsers
  Requests = {r1}
SPECIFICATION Spec
CHECK_DEADLOCK FALSE
INVARIANT AdministratorsErase
