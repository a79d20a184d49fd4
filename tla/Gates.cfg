SPECIFICATION BoundedTold
CONSTANTS
    Fd <- ThreeFds
    Topic = {}
    NoTopic = NoTopic
    Key = {k, l}
    NoKey = NoKey
    Limit = {2}
    Nick = {alice, bob, carol}
    NoNick = NoNick
    Bot = ircbot
    VariantOf = {}
    ChannelName = {general}
    General = general
SYMMETRY NicksAndKeys
INVARIANTS
    ViewsTrue
    OpeningIsRetriesInTurn
PROPERTIES
    InviteOnlyGate
    KeyGate
    LimitGate
    NobodyLeftWaiting
