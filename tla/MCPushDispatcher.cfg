CONSTANTS
    phone = phone
    watch = watch
    Device = {phone, watch}
    Phone = {phone}
    MaxAlerts = 1
    MaxChanges = 2
    MaxFaults = 1
SPECIFICATION FairSpec
INVARIANTS CursorBehindRows PushedOnce QuietStaysQuiet
PROPERTIES AnsweredNotPushed 
CHECK_DEADLOCK FALSE
