SPECIFICATION Spec
CONSTANTS
    Fd = {4, 5}
    Topic = {}
    NoTopic = NoTopic
    Key = {k}
    NoKey = NoKey
    Limit = {}
    Nick = {alice, bob}
    NoNick = NoNick
    Bot = ircbot
    VariantOf = {}
    ChannelName = {general}
    General = general
PROPERTY
    DefaultJoin
