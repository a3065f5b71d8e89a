SPECIFICATION HalfSpec
CHECK_DEADLOCK FALSE
CONSTANTS
  TriageIncidents = {1}
  RoleOrder <- LeadAndSecurity
  Requests = {"request"}
  MaxConcurrency = 2
  DailyRunLimit = 1
  FailureThreshold = 1
  ResumeLimit = 2
  DispatchLimit = 1
  MaxDeaths = 1

  Conditions = {"offline", "disk"}
  Urgent = {"offline"}
  Reminders = {"approval"}
  MaxNotices = 2
  BatchLimit = 1
  MaxSendAttempts = 2
  MaxTickDeaths = 1
INVARIANTS
  HalfTypeOK
  
  
  TriageHasReports
  DeliveriesCounted
PROPERTIES
  
  NoticesSettle
