SPECIFICATION HistorySpec
CONSTANTS
    Fd = {4}
    Topic = {}
    NoTopic = NoTopic
    Key = {}
    NoKey = NoKey
    Limit = {}
    Nick = {alice}
    NoNick = NoNick
    Bot = ircbot
    VariantOf = {}
    ChannelName = {general}
    General = general
INVARIANT
    RegistrationInAnyOrder
