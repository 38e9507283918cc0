---------------------------- MODULE ServiceCatalog ----------------------------
(***************************************************************************)
(* The services a customer can book, each with its regions (district and   *)
(* fee) and at most one schedule, and their two writers, both reachable:   *)
(* ServicesService (services.service.ts), which works in a transaction,    *)
(* and AdminServicesService (admin-services.service.ts), which does not.   *)
(*                                                                         *)
(* Statements see what is committed when they start (READ COMMITTED).  A   *)
(* DELETE finds its rows, then waits for those another transaction has     *)
(* deleted; rows inserted meanwhile it leaves alone.  An UPDATE waits for  *)
(* the row, an INSERT for an equal key of a transaction under way.  A wait *)
(* is a step that is not enabled yet.                                      *)
(*                                                                         *)
(* Of a service its order and is_active are kept, of a schedule who wrote  *)
(* it last.  Services are never deleted, icons and districts neither.      *)
(***************************************************************************)
EXTENDS HttpRequests, OrmSave

CONSTANTS
    Districts,  \* the districts there are
    LevelOf,    \* SIDO (province), SIGUNGU (city) or EUPMYEONDONG
    ParentOf,   \* of a SIGUNGU its SIDO
    Drafts,     \* what a create may bring
    Changes     \* what an update may bring; Nothing where it leaves a part alone

Levels == {"SIDO", "SIGUNGU", "EUPMYEONDONG"}

\* A list gives each of its districts a fee; it may name a district there is not.  One
\* that names a district twice violates a unique key, and is among the failures.
RegionFees(list) == DOMAIN list # {} /\ \A d \in DOMAIN list : list[d] \in Nat

ServiceDto(dto) ==
    /\ dto.icon \in {"same", "known", "unknown"}
    /\ dto.order \in Nat \cup {Nothing}
    /\ dto.schedule \in BOOLEAN
    /\ dto.list # Nothing => RegionFees(dto.list)

ASSUME CatalogConstants ==
    /\ LevelOf \in [Districts -> Levels]
    /\ ParentOf \in [{d \in Districts : LevelOf[d] = "SIGUNGU"} ->
                        {d \in Districts : LevelOf[d] = "SIDO"}]
    /\ \A dto \in Drafts \cup Changes : ServiceDto(dto)
    /\ \A dto \in Drafts : dto.icon # "same" /\ dto.list # Nothing

\* What is asked of services.
ServiceJobs ==
    [op : {"create", "adminCreate"}, dto : Drafts] \cup
    [op : {"update", "adminUpdate"}, service : Creators, dto : Changes] \cup
    [op : {"delete", "toggle", "adminDelete"}, service : Creators]

ASSUME NothingIsNoServiceJob == Nothing \notin ServiceJobs

\* An order or a fee is never mistaken for the lack of one.
ASSUME NothingIsNoNumber == Nothing \notin Nat

VARIABLES
    services,  \* service -> [order, active]
    regions,   \* the rows of service_regions: [service, district, fee, by]
    schedules, \* service -> the request whose schedule it has
    txn        \* request -> what its transaction has written

serviceTables == <<services, regions, schedules, txn>>
serviceVars == <<serviceTables, httpVars>>

ServiceRows == [order : Nat, active : BOOLEAN]
RegionRows == [service : Creators, district : Districts, fee : Nat, by : Creators]

\* What a transaction has written: it has locked the service, its regions are to go
\* and to come, it has written the schedule.
Transactions ==
    [locked : BOOLEAN, gone : SUBSET RegionRows, new : SUBSET RegionRows, scheduled : BOOLEAN]

ASSUME NothingIsNoTransaction == Nothing \notin Transactions

NoWrites == [locked |-> FALSE, gone |-> {}, new |-> {}, scheduled |-> FALSE]

ServiceTablesEmpty ==
    /\ services = [s \in {} |-> Nobody]
    /\ regions = {}
    /\ schedules = [s \in {} |-> Nobody]
    /\ txn = [r \in Requests |-> Nothing]

\* A service in one district, with a schedule or without.
ServiceTablesSeeded ==
    /\ services = [s \in {Nobody} |-> [order |-> 1, active |-> TRUE]]
    /\ \E d \in Districts :
          regions = {[service |-> Nobody, district |-> d, fee |-> 1, by |-> Nobody]}
    /\ \E S \in SUBSET {Nobody} : schedules = [s \in S |-> Nobody]
    /\ txn = [r \in Requests |-> Nothing]

ServiceInit == HttpInit /\ ServiceTablesSeeded
-----------------------------------------------------------------------------
RegionsOf(s) == {x \in regions : x.service = s}

PutService(s, row) ==
    services' = [t \in DOMAIN services \cup {s} |-> IF t = s THEN row ELSE services[t]]

PutSchedule(s, r) ==
    schedules' = [t \in DOMAIN schedules \cup {s} |-> IF t = s THEN r ELSE schedules[t]]

Creates(r) == job[r].op \in {"create", "adminCreate"}
Transactional(r) == job[r].op = "update"
Target(r) == IF Creates(r) THEN r ELSE job[r].service

\* The other transactions under way that write to a service.
OthersOn(r, s) == {q \in Requests \ {r} : txn[q] # Nothing /\ Target(q) = s}

RowLocked(r, s) == \E q \in OthersOn(r, s) : txn[q].locked
ScheduleLocked(r, s) == \E q \in OthersOn(r, s) : txn[q].scheduled
BeingDeleted(r, s) == UNION {txn[q].gone : q \in OthersOn(r, s)}
BeingInserted(r, s) == UNION {txn[q].new : q \in OthersOn(r, s)}

ListOf(r) == job[r].dto.list
NewRegion(r, d) == [service |-> Target(r), district |-> d, fee |-> ListOf(r)[d], by |-> r]

\* Is there a row with this key that is there for good?
Taken(r, d) ==
    \E x \in RegionsOf(Target(r)) \ BeingDeleted(r, Target(r)) :
       x.district = d /\ (txn[r] # Nothing => x \notin txn[r].gone)

\* Is there one that may go, or come, with another transaction?
InDoubt(r, d) ==
    \E x \in BeingDeleted(r, Target(r)) \cup BeingInserted(r, Target(r)) : x.district = d

\* The parts of an update come in this order, each if the request brings it.
SchedulePart(op, dto) ==
    IF ~dto.schedule THEN "finish" ELSE IF op = "adminCreate" THEN "writeSchedule"
                                                              ELSE "findSchedule"
RegionPart(op, dto) == IF dto.list # Nothing THEN "snapshot" ELSE SchedulePart(op, dto)

AfterRegions(r) == SchedulePart(job[r].op, job[r].dto)

Rollback(r) == txn' = [txn EXCEPT ![r] = Nothing]

\* A constraint is violated: the transaction, if there is one, is rolled back.
Violation(r) ==
    /\ Answer(r, "error")
    /\ Rollback(r)
    /\ UNCHANGED <<services, regions, schedules>>
-----------------------------------------------------------------------------
(* Regions and schedule, for both writers *)

\* DELETE FROM service_regions WHERE service_id = ...: the rows it finds, ...
FindRegions(r) ==
    /\ pc[r] = "snapshot"
    /\ Continue(r, "delete", [rows |-> RegionsOf(Target(r))])
    /\ UNCHANGED serviceTables

\* Mutation: only the districts of the new list are deleted.
DeleteRegions_Listed(r) ==
    /\ pc[r] = "delete"
    /\ held[r].rows \cap BeingDeleted(r, Target(r)) = {}
    /\ LET rows == {x \in held[r].rows \cap regions : x.district \in DOMAIN ListOf(r)}
       IN  IF Transactional(r) THEN /\ txn' = [txn EXCEPT ![r].gone = rows]
                                    /\ UNCHANGED regions
                               ELSE regions' = regions \ rows /\ UNCHANGED txn
    /\ Continue(r, "insert", [districts |-> DOMAIN ListOf(r)])
    /\ UNCHANGED <<services, schedules>>

\* ... and those of them it deletes, once no other transaction is deleting them.
DeleteRegions(r) ==
    /\ pc[r] = "delete"
    /\ held[r].rows \cap BeingDeleted(r, Target(r)) = {}
    /\ LET rows == held[r].rows \cap regions
       IN  IF Transactional(r) THEN /\ txn' = [txn EXCEPT ![r].gone = rows]
                                    /\ UNCHANGED regions
                               ELSE regions' = regions \ rows /\ UNCHANGED txn
    /\ Continue(r, "insert", [districts |-> DOMAIN ListOf(r)])
    /\ UNCHANGED <<services, schedules>>

\* One INSERT of the whole list.
InsertRegions(r) ==
    /\ pc[r] = "insert" /\ Transactional(r)
    /\ IF held[r].districts \subseteq Districts /\ \A d \in held[r].districts : ~Taken(r, d)
       THEN /\ \A d \in held[r].districts : ~InDoubt(r, d)
            /\ txn' = [txn EXCEPT ![r].new = {NewRegion(r, d) : d \in held[r].districts}]
            /\ Continue(r, AfterRegions(r), Nothing)
            /\ UNCHANGED <<services, regions, schedules>>
       ELSE Violation(r)

\* updateServiceRegionsWithFee: one district at a time, each committed at once; a
\* district that is not found is passed over.
InsertRegion(r, d) ==
    /\ pc[r] = "insert" /\ ~Transactional(r) /\ d \in held[r].districts
    /\ \/ /\ d \in Districts => ~Taken(r, d) /\ ~InDoubt(r, d)
          /\ regions' = regions \cup {NewRegion(r, e) : e \in {d} \cap Districts}
          /\ IF held[r].districts = {d}
                THEN Continue(r, AfterRegions(r), [found |-> FALSE])
                ELSE Continue(r, "insert", [districts |-> held[r].districts \ {d}])
          /\ UNCHANGED <<services, schedules, txn>>
       \/ d \in Districts /\ Taken(r, d) /\ Violation(r)

FindSchedule(r) ==
    /\ pc[r] = "findSchedule"
    /\ Continue(r, "writeSchedule", [found |-> Target(r) \in DOMAIN schedules])
    /\ UNCHANGED serviceTables

\* UPDATE if one was found, INSERT otherwise; service_id is unique.
WriteSchedule(r) ==
    /\ pc[r] = "writeSchedule"
    /\ LET s == Target(r) IN
       IF ~held[r].found /\ s \in DOMAIN schedules THEN Violation(r)
       ELSE /\ ~ScheduleLocked(r, s)
            /\ IF Transactional(r) THEN /\ txn' = [txn EXCEPT ![r].scheduled = TRUE]
                                        /\ UNCHANGED schedules
                                   ELSE PutSchedule(s, r) /\ UNCHANGED txn
            /\ Continue(r, "finish", Nothing)
            /\ UNCHANGED <<services, regions>>
-----------------------------------------------------------------------------
(* ServicesService *)

\* create: service, regions and schedule in one transaction, which fails as a whole.
\* Nobody can see or wait for any of it before the COMMIT, so it is one step.
Create(r, dto) ==
    LET j == [op |-> "create", dto |-> dto] IN
    \/ /\ dto.icon = "unknown"
       /\ Serve(r, j, "refused")
       /\ UNCHANGED serviceTables
    \/ /\ dto.icon # "unknown"
       /\ Serve(r, j, "error")
       /\ UNCHANGED serviceTables
    \/ /\ dto.icon # "unknown" /\ DOMAIN dto.list \subseteq Districts
       /\ Serve(r, j, "ok")
       /\ PutService(r, [order |-> IF dto.order = Nothing THEN 0 ELSE dto.order, active |-> TRUE])
       /\ regions' = regions \cup {[service |-> r, district |-> d, fee |-> dto.list[d], by |-> r] :
                                      d \in DOMAIN dto.list}
       /\ IF dto.schedule THEN PutSchedule(r, r) ELSE UNCHANGED schedules
       /\ UNCHANGED txn

\* update: the service is looked up in the transaction.
Update(r, s, dto) ==
    LET j == [op |-> "update", service |-> s, dto |-> dto]
        columns == dto.icon # "same" \/ dto.order # Nothing
    IN  \/ /\ dto.icon = "unknown"
           /\ Serve(r, j, "refused")
           /\ UNCHANGED serviceTables
        \/ /\ dto.icon # "unknown" /\ s \notin DOMAIN services
           /\ Serve(r, j, "notFound")
           /\ UNCHANGED serviceTables
        \/ /\ dto.icon # "unknown" /\ s \in DOMAIN services
           /\ Begin(r, j, IF columns THEN "columns" ELSE RegionPart("update", dto), Nothing)
           /\ txn' = [txn EXCEPT ![r] = NoWrites]
           /\ UNCHANGED <<services, regions, schedules>>

\* UPDATE of the columns the request gives: the row is locked until the end.
UpdateColumns(r) ==
    /\ At(r, "columns", "update")
    /\ ~RowLocked(r, Target(r))
    /\ txn' = [txn EXCEPT ![r].locked = TRUE]
    /\ Continue(r, RegionPart("update", job[r].dto), Nothing)
    /\ UNCHANGED <<services, regions, schedules>>

Committed(r) ==
    LET s == Target(r) IN
    /\ regions' = (regions \ txn[r].gone) \cup txn[r].new
    /\ IF job[r].dto.order = Nothing THEN UNCHANGED services
          ELSE PutService(s, [services[s] EXCEPT !.order = job[r].dto.order])
    /\ IF txn[r].scheduled THEN PutSchedule(s, r) ELSE UNCHANGED schedules

Finish(r) ==
    /\ pc[r] = "finish"
    /\ Answer(r, "ok")
    /\ IF Transactional(r) THEN Committed(r) /\ Rollback(r) ELSE UNCHANGED serviceTables

\* delete and toggle: is_active of the row that was read is not looked at again.
SetActive(r, s, op) ==
    LET j == [op |-> op, service |-> s] IN
    /\ \/ s \notin DOMAIN services /\ Serve(r, j, "notFound")
       \/ /\ s \in DOMAIN services
          /\ Begin(r, j, "setActive", [active |-> op = "toggle" /\ ~services[s].active])
    /\ UNCHANGED serviceTables

WriteActive(r) ==
    /\ pc[r] = "setActive"
    /\ ~RowLocked(r, Target(r))
    /\ PutService(Target(r), [services[Target(r)] EXCEPT !.active = held[r].active])
    /\ Answer(r, "ok")
    /\ UNCHANGED <<regions, schedules, txn>>
-----------------------------------------------------------------------------
(* AdminServicesService *)

AdminCreate(r, dto) ==
    LET j == [op |-> "adminCreate", dto |-> dto] IN
    /\ \/ dto.icon = "unknown" /\ Serve(r, j, "refused")
       \/ dto.icon # "unknown" /\ dto.order = Nothing /\ Begin(r, j, "max", Nothing)
       \/ /\ dto.icon # "unknown" /\ dto.order # Nothing
          /\ Begin(r, j, "insertService", [order |-> dto.order])
    /\ UNCHANGED serviceTables

\* Mutation: only active services are counted.
MaxOrder_OfActive ==
    LET orders == {0} \cup {services[s].order : s \in {t \in DOMAIN services : services[t].active}}
    IN  CHOOSE m \in orders : \A o \in orders : o <= m

\* SELECT MAX(sort_order), of hidden services too.
MaxOrder ==
    LET orders == {0} \cup {services[s].order : s \in DOMAIN services}
    IN  CHOOSE m \in orders : \A o \in orders : o <= m

FindMaxOrder(r) ==
    /\ At(r, "max", "adminCreate")
    /\ Continue(r, "insertService", [order |-> MaxOrder + 1])
    /\ UNCHANGED serviceTables

InsertService(r) ==
    /\ At(r, "insertService", "adminCreate")
    /\ PutService(r, [order |-> held[r].order, active |-> TRUE])
    /\ Continue(r, "snapshot", Nothing)
    /\ UNCHANGED <<regions, schedules, txn>>

ScheduleOf(s) == IF s \in DOMAIN schedules THEN schedules[s] ELSE Nothing

Loaded(s) == [row |-> services[s], regions |-> RegionsOf(s), schedule |-> ScheduleOf(s)]

\* update and delete read the service with its regions and its schedule, ...
AdminUpdate(r, s, dto) ==
    LET j == [op |-> "adminUpdate", service |-> s, dto |-> dto] IN
    /\ \/ s \notin DOMAIN services /\ Serve(r, j, "notFound")
       \/ s \in DOMAIN services /\ dto.icon = "unknown" /\ Serve(r, j, "refused")
       \/ s \in DOMAIN services /\ dto.icon # "unknown" /\ Begin(r, j, "load", Loaded(s))
    /\ UNCHANGED serviceTables

AdminDelete(r, s) ==
    LET j == [op |-> "adminDelete", service |-> s] IN
    /\ \/ s \notin DOMAIN services /\ Serve(r, j, "notFound")
       \/ /\ s \in DOMAIN services
          /\ Begin(r, j, "load", [Loaded(s) EXCEPT !.row.active = FALSE])
    /\ UNCHANGED serviceTables

\* ... and save() compares all three with what is there now.
LoadService(r) ==
    /\ pc[r] = "load" /\ job[r].op \in {"adminUpdate", "adminDelete"}
    /\ LET s == Target(r)
       IN  Continue(r, "write",
              [entity |-> held[r].row, dirty |-> Dirty(held[r].row, services[s]),
               orphans |-> RegionsOf(s) \ held[r].regions, schedule |-> held[r].schedule,
               stale |-> held[r].schedule # ScheduleOf(s)])
    /\ UNCHANGED serviceTables

\* A region or a schedule the entity does not have is to lose its service, which the
\* columns do not allow; another schedule is written back.
WriteService(r) ==
    /\ pc[r] = "write" /\ job[r].op \in {"adminUpdate", "adminDelete"}
    /\ LET s == Target(r)
           h == held[r]
       IN  /\ ~RowLocked(r, s)
           /\ h.orphans \cap BeingDeleted(r, s) = {}
           /\ h.stale => ~ScheduleLocked(r, s)
           /\ IF h.orphans \cap regions # {} \/ (h.stale /\ h.schedule = Nothing)
              THEN Violation(r)
              ELSE /\ PutService(s, Merge(services[s], h.entity, h.dirty))
                   /\ IF h.stale THEN PutSchedule(s, h.schedule) ELSE UNCHANGED schedules
                   /\ IF job[r].op = "adminDelete" THEN Answer(r, "ok")
                      ELSE Continue(r, RegionPart("adminUpdate", job[r].dto), Nothing)
                   /\ UNCHANGED <<regions, txn>>
-----------------------------------------------------------------------------
KnownServices == DOMAIN services \cup {Nobody}

ServicesRequest(r) ==
    \/ \E dto \in Drafts : Create(r, dto)
    \/ \E s \in KnownServices :
          \/ \E dto \in Changes : Update(r, s, dto)
          \/ \E op \in {"delete", "toggle"} : SetActive(r, s, op)

\* The route for a new order of the services is shadowed by the one before it.
AdminServicesRequest(r) ==
    \/ \E dto \in Drafts : AdminCreate(r, dto)
    \/ \E s \in KnownServices :
          \/ \E dto \in Changes : AdminUpdate(r, s, dto)
          \/ AdminDelete(r, s)

ServiceRequest(r) == ServicesRequest(r) \/ AdminServicesRequest(r)

ServiceStep(r) ==
    \/ FindRegions(r) \/ DeleteRegions(r) \/ InsertRegions(r)
    \/ pc[r] = "insert" /\ \E d \in held[r].districts : InsertRegion(r, d)
    \/ FindSchedule(r) \/ WriteSchedule(r)
    \/ UpdateColumns(r) \/ Finish(r) \/ WriteActive(r)
    \/ FindMaxOrder(r) \/ InsertService(r) \/ LoadService(r) \/ WriteService(r)
    \/ InProgress(r) /\ Violation(r)

ServiceNext == \E r \in Requests : ServiceRequest(r) \/ ServiceStep(r)

ServiceSpec == ServiceInit /\ [][ServiceNext]_serviceVars
-----------------------------------------------------------------------------
(* What the public list shows of the regions of a service *)

RowsAt(R, level) == {x \in R : LevelOf[x.district] = level}

\* Mutation: a city's fee is left out when it is the lowest of the province.
Group_Lowest(sido, fee, cities) ==
    [sido |-> sido, fee |-> fee,
     cities |-> {[city |-> x.district,
                  fee |-> IF \E y \in cities : y.fee < x.fee THEN x.fee ELSE Nothing] :
                    x \in cities}]

\* A city's fee is left out when it is the province's.
Group(sido, fee, cities) ==
    [sido |-> sido, fee |-> fee,
     cities |-> {[city |-> x.district,
                  fee |-> IF x.fee # fee THEN x.fee ELSE Nothing] : x \in cities}]

CitiesOf(sido) == {d \in Districts : LevelOf[d] = "SIGUNGU" /\ ParentOf[d] = sido}

WholeProvince(sido, fee) ==
    [sido |-> sido, fee |-> fee,
     cities |-> {[city |-> d, fee |-> Nothing] : d \in CitiesOf(sido)}]

Lowest(fees) == CHOOSE m \in fees : \A f \in fees : m <= f

\* groupRegionsBySido: the provinces among the rows with the cities among the rows,
\* or with all their cities if there are none; without a province, the provinces of
\* the cities, at the lowest fee of theirs.
GroupRegionsBySido(R) ==
    LET sidos == RowsAt(R, "SIDO")
        sigungus == RowsAt(R, "SIGUNGU")
        under(sido) == {x \in sigungus : ParentOf[x.district] = sido}
    IN  IF sidos # {}
        THEN {IF under(y.district) = {} THEN WholeProvince(y.district, y.fee)
                 ELSE Group(y.district, y.fee, under(y.district)) : y \in sidos}
        ELSE {Group(sido, Lowest({x.fee : x \in under(sido)}), under(sido)) :
                 sido \in {ParentOf[x.district] : x \in sigungus}}
-----------------------------------------------------------------------------
(* Properties *)

\* Every row is of its type and every reference holds; service and district are
\* unique among the regions; an open transaction belongs to an update in progress
\* (service-region.entity.ts:8, service-schedule.entity.ts:25).
ServiceTypeOK ==
    /\ HttpTypeOK
    /\ DOMAIN services \subseteq Creators
    /\ \A s \in DOMAIN services : services[s] \in ServiceRows
    /\ regions \subseteq RegionRows
    /\ \A x \in regions : x.service \in DOMAIN services
    /\ \A x, y \in regions : (x.service = y.service /\ x.district = y.district) => x = y
    /\ DOMAIN schedules \subseteq DOMAIN services
    /\ \A r \in Requests : txn[r] # Nothing => InProgress(r) /\ Transactional(r)

\* The requests that were to replace, or to give, the regions of a service.
RegionWriters(s) ==
    {r \in Requests :
       /\ pc[r] # "idle"
       /\ job[r].op \in {"create", "adminCreate", "update", "adminUpdate"}
       /\ Target(r) = s /\ ListOf(r) # Nothing}

WrittenBy(r) == {NewRegion(r, d) : d \in DOMAIN ListOf(r) \cap Districts}

\* The regions of a service are those of one request's list, the last one that
\* succeeded, and a transaction that failed has left nothing - unless two requests
\* that replace them overlapped, when they may be of both lists or of neither, or
\* one without a transaction stopped, or is, half way
\* (services.service.ts:313-327, admin-services.service.ts:116-118, 180-182, 271-293).
RegionsAreExplained ==
    \A s \in DOMAIN services :
       LET writers == RegionWriters(s)
           done == {w \in writers : Succeeded(w)}
       IN  \/ \E w \in done : /\ RegionsOf(s) = WrittenBy(w)
                              /\ \A v \in done : w \notin earlier[v]
           \/ s = Nobody /\ done = {} /\ \A x \in RegionsOf(s) : x.by = Nobody
                                      /\ RegionsOf(s) # {}
           \/ \E v, w \in writers : Overlap(v, w)
           \/ \E w \in writers : ~Transactional(w) /\ ~Succeeded(w)

\* A service made with no order given comes after every service that was there
\* before it, hidden ones too, as long as nobody gives one of the two another order
\* (admin-services.service.ts:92-100).
LaterServicesComeLater ==
    \A r \in DOMAIN services \cap Requests : \A q \in DOMAIN services :
       (/\ job[r].op = "adminCreate" /\ job[r].dto.order = Nothing
        /\ q = Nobody \/ q \in earlier[r]
        /\ \A u \in Requests : (pc[u] # "idle" /\ job[u].op = "update") =>
              job[u].service \notin {q, r} \/ job[u].dto.order = Nothing) =>
          services[r].order > services[q].order

\* On whatever rows the writers leave, the fee the public list shows of a city - its
\* own, or its province's where it shows none - is the fee of the city's row, or of
\* the province's row if the city has none; every row is shown with its fee, except
\* those of the lowest level and, beside a row of some province, cities of others
\* (services.service.ts:671-782).
ShownFeesAreStored ==
    \A s \in DOMAIN services :
       LET R == RegionsOf(s)
           shown == GroupRegionsBySido(R)
           feeOf(c, g) == IF c.fee = Nothing THEN g.fee ELSE c.fee
           cities == UNION {{[district |-> c.city, fee |-> feeOf(c, g)] : c \in g.cities} :
                               g \in shown}
           feesOf(d) == {x.fee : x \in {y \in R : y.district = d}}
           sidos == {x.district : x \in RowsAt(R, "SIDO")}
       IN  /\ \A c \in cities :
                 LET priced == IF feesOf(c.district) # {} THEN c.district ELSE ParentOf[c.district]
                 IN  c.fee \in feesOf(priced)
           /\ \A x \in RowsAt(R, "SIDO") : \E g \in shown : g.sido = x.district /\ g.fee = x.fee
           /\ \A x \in RowsAt(R, "SIGUNGU") :
                 \/ \E c \in cities : c.district = x.district /\ c.fee = x.fee
                 \/ sidos # {} /\ ParentOf[x.district] \notin sidos
=============================================================================
