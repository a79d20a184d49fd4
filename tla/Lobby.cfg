SPECIFICATION Spec
CONSTANTS
    Fd <- TwoFds
    Topic = {}
    NoTopic = NoTopic
    Key = {k}
    NoKey = NoKey
    Limit = {1}
    Nick = {"alice", "alice_", "ircbot"}
    NoNick = NoNick
    Bot = "ircbot"
    VariantOf <- Underscored
    ChannelName = {general}
    General = general
INVARIANTS
    TypeOK
    NicknamesUnique
    RegisteredExactly
