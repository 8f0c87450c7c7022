SPECIFICATION FairLinkSpec
CONSTANTS
    RetryLimit = 2
    MaxCable = 1
    MaxDesk = 2
    MaxPanel = 2
    MaxTaps = 1
INVARIANT PanelDecides
PROPERTY TapConnects
