----------------------------- MODULE MCDelivery -----------------------------
EXTENDS Delivery

\* Both clients belong to the company; items "a" and "b" go out by email.
MCGroupsOf(c) == {"company"}
MCItemsOf(n) == IF n = "first" THEN <<"a", "b", "c">> ELSE <<"d">>
MCChannelOf(i) == IF i = "c" THEN "slack" ELSE "email"

\* Neither the listeners of alerts nor the subscribers of a stream differ.
Interchangeable == Permutations(Listeners) \cup Permutations(StreamSubscribers)
=============================================================================
