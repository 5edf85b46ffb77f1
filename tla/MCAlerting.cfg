SPECIFICATION Spec
CONSTANTS
    ClientKeys <- TwoKeys
    Documents <- SmallDocuments
    SentStatistics <- SomeStatistics
    MaxRequests = 2
INVARIANTS
    MailsAsListed
    CreatedMeansMailed
    RefusedMeansUnlisted
    BadValueIsListed
    MailsAsMeasured
