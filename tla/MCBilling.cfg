\* One subscription, two prices, a paid period of three ticks whose lower price is
\* announced two ticks ahead; all settles.
SPECIFICATION FairSpec
CONSTANTS
    Subscriptions = {s1}
    TopPrice = 2
    Handlers = {h1}
    Period = 3
    Lead = 2
    HasFallback = TRUE
    MaxNotices = 2
INVARIANTS
    BillingTypeOK
    FollowsProvider
PROPERTIES
    PriceConfirmed
    ChangesTakeEffect
