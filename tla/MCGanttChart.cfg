SPECIFICATION Spec
CONSTANTS
  NoDate = NoDate
  Plans <- MCPlans
INVARIANTS
  SummariesAgree
  CountsAgree
  ChartShowsPlan
  RoutesClear
