--------------------------- MODULE MCCredentials ---------------------------
EXTENDS Credentials
CONSTANTS First, Owner

\* Calls, tabs and accounts are interchangeable: the calls are numbered by their
\* kind, the first of them is made in First, and the account connected at the
\* start, if any, is Owner.
Rank == [none |-> 0, connect |-> 1, disconnect |-> 2, fetch |-> 3, access |-> 4, warmUp |-> 5, drop |-> 6]
Started == {c \in Call : call[c].pc # "idle"}
Numbered ==
  /\ call[1].tab \in {First, None}
  /\ \A c, d \in Started : c < d => Rank[call[c].kind] <= Rank[call[d].kind]

\* A Drive request is the only call there is, or overlaps one of its own tab.
Fetches(c) == call[c].kind = "fetch"
FetchesInOneTab ==
  \A c, d \in Started : Fetches(c) \/ Fetches(d) => call[c].tab = call[d].tab

\* A second account appears only while all calls are those of one tab and none
\* of several is a Drive request.
Seen == {conn} \cup {call[c].acct : c \in Call}
  \cup {s.acct : s \in {token, envelope} \ {None}}
  \cup {flight[t][k].acct : t \in Tab, k \in Flights}
OneAccount == Seen \subseteq {Owner, None}
OneTab == \A c \in Started : call[c].tab \in {First, None}
NoFetchInPairs == \A c, d \in Started : Fetches(c) => c = d
SecondAccountKept == OneAccount \/ (OneTab /\ NoFetchInPairs)

MCInit == Init /\ conn \in {Owner, None}
MCNext == Next /\ Numbered' /\ FetchesInOneTab' /\ SecondAccountKept'
MCSpec == MCInit /\ [][MCNext]_vars
=============================================================================
