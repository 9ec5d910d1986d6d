CONSTANTS
    Channels <- OneChannel
    ChannelName <- OneChannelName
    Ifaces <- OneIface
    VlanInputs = {0}
    V4Addrs = {1}
    V6Addrs = {1}
    V6Selectors = {0}
    Macs <- TwoMacs
    MaxV6Static = 1
    LanParams = {"IPSrc"}
    LeaseAddrs = {2}
    V4Prefixes = {16}
    GwAddrs = {7}
    MaxFailures = 1
    MaxSwallowed = 0
    InitDhcp = {"none", "v4", "v6", "both"}
SPECIFICATION Spec
VIEW StateView
PROPERTY IPSrcKeepsDhcpV6
