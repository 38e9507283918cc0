---------------------------- MODULE MCBackOffice ----------------------------
(***************************************************************************)
(* A small back office: three requests to an area, two to the services,    *)
(* whose handlers are the longest.                                         *)
(***************************************************************************)
EXTENDS BackOffice, TLC

CONSTANTS req1, req2, req3

MCRequests == {req1, req2, req3}

Symmetry == Permutations(MCRequests)

MCArrivals == [a \in Areas |-> IF a = "services" THEN 2 ELSE 3]

\* A piece that is not cut and has a position nevertheless.
MCPieceInputs == {[done |-> FALSE, fixed |-> TRUE]}

\* None or two images.
MCImageCounts == {0, 2}

\* A new promotion takes the next order, gives its own, or names no icon there is.
MCCreations ==
    {[order |-> Nothing, active |-> TRUE, icon |-> "known"],
     [order |-> 0, active |-> FALSE, icon |-> "known"],
     [order |-> 0, active |-> TRUE, icon |-> "unknown"]}

MCUpdates ==
    {[order |-> 3, active |-> Nothing, icon |-> "same"],
     [order |-> Nothing, active |-> FALSE, icon |-> "known"],
     [order |-> Nothing, active |-> FALSE, icon |-> "unknown"]}

\* The first promotion alone, at an order below zero, or behind one that a request has
\* made, or is to make.
MCReorderings ==
    {[p \in {Nobody} |-> -1]} \cup
    {[p \in {Nobody, r} |-> IF p = r THEN 0 ELSE 2] : r \in MCRequests}

\* Two provinces with a city each, and a district of the lowest level.
MCDistricts == {"Seoul", "Mapo", "Gyeonggi", "Suwon", "Yeoksam"}

MCLevelOf ==
    [d \in MCDistricts |->
        CASE d \in {"Seoul", "Gyeonggi"} -> "SIDO"
          [] d \in {"Mapo", "Suwon"} -> "SIGUNGU"
          [] d = "Yeoksam" -> "EUPMYEONDONG"]

MCParentOf == "Mapo" :> "Seoul" @@ "Suwon" :> "Gyeonggi"

\* A city with its province, a city with a district there is not, two cities, and
\* a city that is no more expensive than its province.
CityAndProvince == "Mapo" :> 2 @@ "Seoul" :> 1
CityAndMissing == "Suwon" :> 2 @@ "Nowhere" :> 3
TwoCities == "Mapo" :> 1 @@ "Suwon" :> 3
SameFee == "Mapo" :> 2 @@ "Seoul" :> 2

MCDrafts ==
    {[icon |-> "known", order |-> Nothing, list |-> CityAndProvince, schedule |-> TRUE],
     [icon |-> "known", order |-> 0, list |-> CityAndMissing, schedule |-> FALSE],
     [icon |-> "unknown", order |-> 0, list |-> SameFee, schedule |-> FALSE]}

MCChanges ==
    {[icon |-> "same", order |-> Nothing, list |-> CityAndProvince, schedule |-> FALSE],
     [icon |-> "same", order |-> 3, list |-> TwoCities, schedule |-> TRUE],
     [icon |-> "known", order |-> Nothing, list |-> Nothing, schedule |-> TRUE],
     [icon |-> "unknown", order |-> 0, list |-> SameFee, schedule |-> FALSE],
     [icon |-> "same", order |-> Nothing, list |-> CityAndMissing, schedule |-> FALSE],
     [icon |-> "same", order |-> Nothing, list |-> SameFee, schedule |-> FALSE]}

MCNames == {"one", "two"}
MCNewIcons == {[name |-> "one", type |-> "FILL"]}
MCIconChanges ==
    {[name |-> "one", type |-> Nothing], [name |-> "two", type |-> Nothing],
     [name |-> Nothing, type |-> "COLOR"]}

MCEmails == {"one@", "two@"}
MCUsernames == {"one", "two"}

MCFirstAccount ==
    [email |-> "one@", username |-> "one", password |-> Nobody, role |-> "superadmin",
     status |-> "active", lastLogin |-> Nothing]

\* A second administrator, and one whose email is the first one's.
MCNewUsers ==
    {[email |-> "two@", username |-> "two", role |-> "admin", status |-> "active"],
     [email |-> "one@", username |-> "two", role |-> "cashier", status |-> "invited"]}

NoChange ==
    [email |-> Nothing, username |-> Nothing, password |-> FALSE, role |-> Nothing,
     status |-> Nothing]

MCUserChanges ==
    {[NoChange EXCEPT !.status = "inactive"],
     [NoChange EXCEPT !.username = "one", !.status = "active"],
     [NoChange EXCEPT !.email = "two@", !.password = TRUE],
     [NoChange EXCEPT !.username = "two", !.role = "manager"]}
=============================================================================
