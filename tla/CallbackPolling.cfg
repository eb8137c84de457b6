SPECIFICATION FairSpec
CONSTANTS
    bot = bot
    other = other
    twice = twice
    both = both
    apart = apart
    Tokens = {bot, other}
    Buttons <- SomeButtons
    Snapshots = {twice, both, apart}
    Recipients <- RecipientLists
    Initial = both
    ChannelSize = 1
    MaxPresses = 2
    MaxGenerations = 2
INVARIANTS
    OneListenerPerBot
    PressStartsItsDigest
PROPERTIES
    ImplementsInbox
    PressesAreHandled
