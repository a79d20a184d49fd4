SPECIFICATION BoundedSpec
CONSTANTS
    Fd <- TwoFds
    Topic = {}
    NoTopic = NoTopic
    Key = {}
    NoKey = NoKey
    Limit = {}
    Nick = {alice, bob}
    NoNick = NoNick
    Bot = ircbot
    VariantOf = {}
    ChannelName = {general, room}
    General = general
SYMMETRY HumanNicks
INVARIANTS
    NoStaleFd
    PendingAreOutside
    ChannelsInhabited
PROPERTIES
    InvitationIsSpent
