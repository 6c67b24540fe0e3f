CONSTANTS
    Items = {cmd}
    NoItem = none
    MaxPos = 6
    Senders = {s1, s2, s3}
    Nobody = nobody
SPECIFICATION MailboxFairSpec
INVARIANTS MailboxTypeOK SignalMeansCommand SignalledOnce NobodyInSend
PROPERTY Delivered
CHECK_DEADLOCK FALSE
