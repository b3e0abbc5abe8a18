\* Upserts and claims of two orders: the safety of the claim.
SPECIFICATION Spec
CONSTANTS
    o1 = o1
    o2 = o2
    s1 = s1
    s2 = s2
    None = None
    Orders <- MCOrders
    Shops <- MCShops
    ShopOf <- MCShopOf
    Urgent <- MCUrgent
    Ancient <- MCAncient
    BatchIds = {b1, b2}
    Upserters = {u1, u2}
    Claimers = {c1, c2}
    MaxUpserts = 3
SYMMETRY Symmetry
INVARIANTS
    TypeOK
    ExclusiveClaim
    PdfListsMembers
    CanceledClaimNotified
    CreatedOnce
PROPERTIES
    ClaimsOnlyNew
    CancelReportedOnce
    ImplementsTakeout
