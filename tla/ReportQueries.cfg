\* All sets of up to four DMARC and three SMTP TLS reports.
SPECIFICATION QueriesSpec
CONSTANTS
    Dmarc <- MCDmarc
    Tls <- MCTls
    Lower <- MCLower
    Second = 2
    Hour = 4
    Clock <- MCClock
    MaxHours = 3
    Wrap = 64
    Times = {0, 1, 2, 3, 4}
    None = None
INVARIANTS
    ChartsLeadToReports
    ChartsAgreeWithFlags
    TimeSpansAgree
    PeriodsOverlap
    BadgesLeadToReports
    FlaggedReportsHaveSources
    MetricsAgree
