CONSTANTS
  Names = {"jobs", "jobs_total"}
  TotalOf <- Total
  Shapes = {"plain"}
  Series = {1, 2}
  Values = {0, 1}
  SeriesLimit <- Limits
  LegacyNames = {"worker_status"}
  MaxValue = 1
SPECIFICATION Spec
PROPERTY ImplementsBoundedGauges
