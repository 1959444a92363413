\* Lifecycle writes and deletes racing the resend loop over four records.
CONSTANTS
    o1 = o1
    o2 = o2
    d1 = d1
    d2 = d2
    Objs <- MCObjs
    Dests <- MCDests
    Statuses <- MCStatuses
    Resend = 2
    MaxCalls = 4
SPECIFICATION Spec
INVARIANTS TypeOK RecordsMatchLastWrite
PROPERTY DueNotificationResent
