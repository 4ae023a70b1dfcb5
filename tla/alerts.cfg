CONSTANTS
  d1 = d1
  cpu = cpu
  ram = ram
  Devices = {d1}
  Net = Net
  MetricsOf <- FewMetrics
  MinSamples = 3
  MaxAlerts = 2
  MaxFaults = 1
SPECIFICATION FairSpec
INVARIANTS
  EventsAreAlerted
PROPERTIES
  ObservedTwice
  OneAlertPerEvent
  ImplementsFeed
  SavedIsPushed
  LastingAnomalyIsEvent
