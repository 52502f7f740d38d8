CONSTANTS
    Senders = {s1}
    Receivers = {r1, r2}
    Mails = {m1, m2}
    NoMail = NoMail
    Size = 2
    Delays = {2}
SPECIFICATION FairSpec
INVARIANTS TypeOK NoLostWakeup TimeoutExact
PROPERTIES ImplementsFifo GivesUpInTime MailReachesReceiver TimedCallReturns
