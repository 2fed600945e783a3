--------------------------- MODULE MCDraftIngestion ---------------------------
\* One order of the shop and one of Allegro, each with what may become of it.
EXTENDS DraftIngestion, TLC

\* requests are interchangeable
MCRequests == Permutations(Process)

MCNoTitles == [t \in {} |-> "none"]

MCApaczkaTitles == [t \in {"mapped"} |-> "catalog"]

MCShopOrder ==
    [source |-> "shopify", phone |-> "ok", title |-> "mapped",
     octolize |-> FALSE, codeProvider |-> "none", noteProvider |-> "none",
     point |-> FALSE, notedLocker |-> FALSE, method |-> FALSE, lines |-> 1,
     readable |-> TRUE, gateway |-> "other", outstanding |-> "zero",
     currency |-> "PLN", cancelled |-> FALSE, fulfillment |-> "none",
     fulfillments |-> "none"]

MCAllegroOrder ==
    [MCShopOrder EXCEPT !.source = "allegro", !.method = TRUE,
                        !.fulfillment = "new"]

MCHistories ==
    <<<<MCShopOrder, [MCShopOrder EXCEPT !.fulfillments = "tracked"]>>,
      <<MCAllegroOrder, [MCAllegroOrder EXCEPT !.fulfillment = "sent",
                                               !.phone = "bad"]>>>>
=============================================================================
