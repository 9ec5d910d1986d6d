CONSTANTS
    Channels <- OneChannel
    ChannelName <- OneChannelName
    Ifaces <- OneIface
    VlanInputs = {0, 5, 4095}
    V4Addrs = {1}
    LeaseAddrs = {2}
    V4Prefixes = {16}
    V6Addrs = {1, 2, 3}
    V6Selectors = {0, 1, 2}
    GwAddrs = {7}
    Macs <- TwoMacs
    MaxV6Static = 2
    MaxFailures = 1
    MaxSwallowed = 0
    InitDhcp = {"none", "v4", "v6", "both"}
    LanParams = {"IPv6Static", "VLANId"}
SPECIFICATION Spec
VIEW StateView
PROPERTY VlanSwapKeepsStaticV6
