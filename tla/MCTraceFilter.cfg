CONSTANTS
    eosio = eosio
    blocktwitter = blocktwitter
    onblock = onblock
    tweet = tweet
    AccountNames = {eosio, blocktwitter}
    ActionNames = {onblock, tweet}
    HasSubscribers = TRUE
    MaxActions = 2
    MaxFrames = 2

SPECIFICATION Spec

\* receive_traces runs once per block result; the bound on block results
\* ends every behaviour.
CHECK_DEADLOCK FALSE
INVARIANT PublishesExactlyUnlisted
