SPECIFICATION FairSpec
CONSTANTS
  h1 = h1
  h2 = h2
  uploadConsumer = uploadConsumer
  uploadScheduler = uploadScheduler
  ocrConsumer = ocrConsumer
  ocrScheduler = ocrScheduler
  Worlds <- MCWorlds
  Costs <- MCCosts
  Handlers = {h1, h2}
  Uploads = {uploadConsumer, uploadScheduler}
  Readers = {ocrConsumer, ocrScheduler}
  Consumers = {uploadConsumer, ocrConsumer}
  MaxFaults = 1
  MaxHarm = 0
  MaxPaid = 10
  Idle = Idle
INVARIANTS TypeOK PaidAsRecorded PaidForWeight TrackingFits
PROPERTIES ReturnedWaits LabelsDone
CHECK_DEADLOCK FALSE
