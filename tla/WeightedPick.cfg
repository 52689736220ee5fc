\* One key, watched by Start or by the first query; keys share nothing.
SPECIFICATION Spec
CONSTANTS
    Keys = {"k"}
    Contents <- MCContents
    RRsets <- MCRRsets
    MaxPublish = 2
    MaxQueue = 2
    UseNacos = TRUE
    MaxInt = 15
INVARIANT SharesFollowWeights
PROPERTIES WeightsNeverGoBack EventuallyFresh
