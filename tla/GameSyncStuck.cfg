\* Nothing is lost and nobody restarts: one answer overtakes another, and the client is
\* never sent anything it can use again.
CONSTANTS
    Players = {p1}
    MaxState = 2
    MaxFaults = 0
    MaxBacklog = 0
SPECIFICATION FairSpec
PROPERTY ServerUpdatesClient
