------------------------------ MODULE BackOffice ------------------------------
(***************************************************************************)
(* The back office: the film optimizer, the promotions, the portfolios,    *)
(* the service catalogue, the icons and the administrators' accounts,      *)
(* served by the same process in the same way (HttpRequests).              *)
(*                                                                         *)
(* No handler writes a table of another area.  What it reads there only    *)
(* decides whether a request is let in - is the sender's account active,   *)
(* is there such an icon, a row of a table nothing is deleted from - and   *)
(* comes with the request as an input.  What happens in an area does not   *)
(* depend on the requests to the others, so that a behaviour of this       *)
(* specification is one of a single area, chosen at the start; the tables  *)
(* of the other areas stay empty.                                          *)
(***************************************************************************)
EXTENDS FilmOptimizer, Promotions, PortfolioImages, ServiceCatalog, Icons, AdminAccounts

Areas == {"films", "promotions", "portfolios", "services", "icons", "accounts"}

\* Bound: how many requests an area is sent.
CONSTANT Arrivals

ASSUME ArrivalsAssumption == Arrivals \in [Areas -> Nat]

VARIABLE area

backOfficeVars ==
    <<area, filmTables, promotionTables, portfolioTables, serviceTables, icons, accounts, httpVars>>

Init ==
    /\ HttpInit
    /\ area \in Areas
    /\ IF area = "films" THEN FilmTablesSeeded ELSE FilmTablesEmpty
    /\ IF area = "promotions" THEN PromotionTablesSeeded ELSE PromotionTablesEmpty
    /\ IF area = "portfolios" THEN PortfolioTablesSeeded ELSE PortfolioTablesEmpty
    /\ IF area = "services" THEN ServiceTablesSeeded ELSE ServiceTablesEmpty
    /\ IF area = "icons" THEN IconTablesSeeded ELSE IconTablesEmpty
    /\ IF area = "accounts" THEN AccountTablesSeeded ELSE AccountTablesEmpty

MayArrive == Cardinality({r \in Requests : pc[r] # "idle"}) < Arrivals[area]

Films(r) ==
    /\ area = "films"
    /\ \/ MayArrive /\ (FilmRequest(r) \/ ProjectRequest(r) \/ PieceRequest(r))
       \/ FilmStep(r)
    /\ UNCHANGED <<area, promotionTables, portfolioTables, serviceTables, icons, accounts>>

PromotionsArea(r) ==
    /\ area = "promotions"
    /\ (MayArrive /\ PromotionRequest(r)) \/ PromotionStep(r)
    /\ UNCHANGED <<area, filmTables, portfolioTables, serviceTables, icons, accounts>>

Portfolios(r) ==
    /\ area = "portfolios"
    /\ (MayArrive /\ PortfolioRequest(r)) \/ PortfolioStep(r)
    /\ UNCHANGED <<area, filmTables, promotionTables, serviceTables, icons, accounts>>

Services(r) ==
    /\ area = "services"
    /\ (MayArrive /\ ServiceRequest(r)) \/ ServiceStep(r)
    /\ UNCHANGED <<area, filmTables, promotionTables, portfolioTables, icons, accounts>>

IconsArea(r) ==
    /\ area = "icons"
    /\ (MayArrive /\ IconRequest(r)) \/ IconStep(r)
    /\ UNCHANGED <<area, filmTables, promotionTables, portfolioTables, serviceTables, accounts>>

Accounts(r) ==
    /\ area = "accounts"
    /\ \/ MayArrive /\ (LoginRequest(r) \/ UserRequest(r))
       \/ AccountStep(r)
    /\ UNCHANGED <<area, filmTables, promotionTables, portfolioTables, serviceTables, icons>>

Next ==
    \E r \in Requests :
       \/ Films(r) \/ PromotionsArea(r) \/ Portfolios(r)
       \/ Services(r) \/ IconsArea(r) \/ Accounts(r)

Spec == Init /\ [][Next]_backOfficeVars
-----------------------------------------------------------------------------
(* Properties of several areas *)

\* Every row of every table is of its type, and references and unique keys hold.
BackOfficeTypeOK ==
    /\ area \in Areas
    /\ FilmTypeOK
    /\ PromotionTypeOK
    /\ PortfolioTypeOK
    /\ ServiceTypeOK
    /\ IconTypeOK
    /\ AccountTypeOK

\* A film, project or piece that was created is only lost to a request that asked for
\* it to be deleted, or for the film of a project under creation
\* (film-optimizer.service.ts:106-112).
LostRowsAreExplained == area = "films" => LostFilmRowsAreExplained

\* What was deleted with success - a film, project or piece, a promotion, a
\* portfolio, an account - is only back when a save() of it overlapped the deletion
\* (film-optimizer.service.ts:88-89, 221-222, 301-302, promotions.service.ts:160, 177,
\* admin-portfolios.service.ts:116, 149, users.service.ts:178-179).
DeletedStaysDeleted ==
    /\ DeletedFilmRowsStayDeleted
    /\ DeletedPromotionsStayDeleted
    /\ DeletedPortfoliosStayDeleted
    /\ DeletedAccountsStayDeleted

\* What was saved with success stands until it is written again or the save was
\* overlapped: the toggles of a promotion, its order, the cut of a piece with its
\* position, the name of an icon, the deactivation of an account and the time of its
\* last login (promotions.service.ts:174-192, film-optimizer.service.ts:347-356,
\* icons.service.ts:123-124, users.service.ts:178-179).
WritesStand ==
    /\ TogglesCount
    /\ ReordersStand
    /\ FixedOnlyWhenCut
    /\ NamesStand
    /\ DeactivationsHold
    /\ LastLoginsAreKept
=============================================================================
