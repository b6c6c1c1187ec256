CONSTANTS
  Untrimmed = {" "}
  StreamName <- MCStreamName
  Features = {"ecpds"}
  Numbers <- MCNumbers
  Places <- MCPlaces
  Scenarios <- MCScenarios
  FieldOrder <- MCFieldOrder
  Granted <- MCGranted
  MaxInputs = 2
  MaxSubscriptions = 1
SPECIFICATION RoutingSpec
CHECK_DEADLOCK FALSE
INVARIANTS
  DeliveredIffRequested
  IdentifiersSurviveRouting
  SameTopicIffSameMeaning
  OnlyGrantedDestinations
