CONSTANTS
    drive = drive
    gmail = gmail
    d1 = d1
    d2 = d2
    g1 = g1
    Twins <- MCTwins
    Urls <- MCUrls
    DefaultUrl <- MCDefaultUrl
    Plugin = "plugin"
    Jobs <- MCJobs
SPECIFICATION FairSpec
INVARIANTS OwnEffectsOnly ScopesRestored
PROPERTIES EveryRunReported
