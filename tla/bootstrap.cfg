\* A receiver and another component, every plan, two contents of the server.
CONSTANTS
  Components <- MCComponents
  Plans <- MCPlans
  Servers <- MCServers
  MaxFaults = 1
SPECIFICATION Spec
INVARIANT NoConnectionLeft
INVARIANT RunsAsConfigured
PROPERTY ProvisionedStarts
