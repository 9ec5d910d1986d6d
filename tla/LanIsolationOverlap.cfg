CONSTANTS
    Channels <- TwoChannels
    ChannelName <- OverlappingNames
    Ifaces <- OverlappingIfaces
    VlanInputs = {0, 5}
    V4Addrs = {1}
    V6Addrs = {1}
    V6Selectors = {0}
    Macs <- TwoMacs
    MaxV6Static = 1
    LanParams = {"SetStatus", "IP", "SubnetMask", "MAC", "VLANId"}
    LeaseAddrs = {2}
    V4Prefixes = {16}
    GwAddrs = {7}
    MaxFailures = 1
    MaxSwallowed = 0
    InitDhcp = {"none", "both"}
SPECIFICATION Spec
VIEW StateView
PROPERTY ChannelIsolation
