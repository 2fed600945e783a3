SPECIFICATION MCSpec
CONSTANTS
    shop = shop
    ware = ware
    hand = hand
    s1 = s1
    s2 = s2
    s3 = s3
    Vendor = {ware, shop, hand}
    Route <- MCRoute
    Required = {ware}
    Mail <- MCMail
    Sale = {s1, s2, s3}
    Number <- MCNumber
    FileOf <- MCFileOf
    MaxNews = 3
    MaxStages = 3
    MaxFaults = 1
    Reports = 2
    MaxAnswers = 3
    MaxClicks = 1
INVARIANTS  ReportsAreTheirOwn
 
CHECK_DEADLOCK FALSE
