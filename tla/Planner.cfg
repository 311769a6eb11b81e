SPECIFICATION Spec
CONSTANTS
 Size = 4
 Lengths = {2,5}
 FeedRates = {2}
 FixedRates = {}
 RapidRate = 3
 Junctions = {6}
 SystemLengths = {3}
 Commands = {"COARSE_PLUS","R_MEDIUM"}
 MaxFeed = 150
 MinFeed = 100
 Coarse = 50
 Fine = 50
INVARIANTS TypeOK PlannedInQueue PlanIsOptimal ExitIsPlanned HoldEndsAtRest
PROPERTY NoHarshStep
