SPECIFICATION FairSpec
CONSTANTS
  e1 = e1
  e2 = e2
  NoEvent = NoEvent
  Events = {e1, e2}
  Alerts = {e1}
  Delay <- OneRetry
  MaxAge = 1
  Timeout = 1
INVARIANTS TypeOK DeliveredMeansStored
PROPERTIES KeepsPromise EveryEventDecided DeliveredOnceHealthy StoredDespiteTelegram
