------------------------------ MODULE Promotions ------------------------------
(***************************************************************************)
(* PromotionsService (promotions.service.ts): administrators create,       *)
(* change, toggle, order and delete promotions, and customers' clicks are  *)
(* counted.  Only the click is one atomic UPDATE; toggle and update read,  *)
(* load and write (OrmSave), and the row they hold has a click count and   *)
(* an order in it that may be old by then.  reorder sends one UPDATE per   *)
(* promotion, all at once and each on its own.                             *)
(*                                                                         *)
(* Titles, colours, links and the period of publication are columns no     *)
(* handler reads for another's sake; icons are never deleted.              *)
(***************************************************************************)
EXTENDS Integers, HttpRequests, OrmSave

CONSTANTS
    Creations,   \* what a create may bring
    Updates,     \* what an update may bring
    Reorderings  \* what a reorder may ask for: functions from promotions to orders

\* The icon a request names is one there is or not.  A promotion is active unless the
\* request says otherwise.
CreatePromotionDtos ==
    [order : Nat \cup {Nothing}, active : BOOLEAN, icon : {"known", "unknown"}]

\* All of it is optional: Nothing, or the same icon, leaves a column alone.
UpdatePromotionDtos ==
    [order : Nat \cup {Nothing}, active : BOOLEAN \cup {Nothing},
     icon : {"same", "known", "unknown"}]

\* Unlike the orders above, those of a reorder are any numbers, also below zero.
ReorderItems(items) == \A p \in DOMAIN items : items[p] \in Int

\* What is asked of the promotions.
PromotionJobs ==
    [op : {"create"}, dto : Creations] \cup
    [op : {"click", "toggle", "delete"}, promotion : Creators] \cup
    [op : {"update"}, promotion : Creators, dto : Updates] \cup
    [op : {"reorder"}, items : Reorderings]

ASSUME NothingIsNoPromotionJob == Nothing \notin PromotionJobs

ASSUME PromotionConstants ==
    /\ Creations \subseteq CreatePromotionDtos
    /\ Updates \subseteq UpdatePromotionDtos
    /\ \A items \in Reorderings : ReorderItems(items)

VARIABLES
    promotions, \* promotion -> [order, active, clicks]
    reorders    \* the UPDATEs of reorders that are on their way: <<request, promotion>>

promotionTables == <<promotions, reorders>>
promotionVars == <<promotionTables, httpVars>>

PromotionRows == [order : Int, active : BOOLEAN, clicks : Nat]

PromotionTablesEmpty == promotions = [p \in {} |-> Nobody] /\ reorders = {}

PromotionTablesSeeded ==
    /\ promotions = [p \in {Nobody} |-> [order |-> 0, active |-> TRUE, clicks |-> 0]]
    /\ reorders = {}

PromotionInit == HttpInit /\ PromotionTablesSeeded

Promotion(p) == p \in DOMAIN promotions

PutPromotion(p, row) ==
    promotions' = [q \in DOMAIN promotions \cup {p} |-> IF q = p THEN row ELSE promotions[q]]
-----------------------------------------------------------------------------
(* Clicks *)

Click(r, p) ==
    LET j == [op |-> "click", promotion |-> p] IN
    /\ \/ ~Promotion(p) /\ Serve(r, j, "notFound")
       \/ Promotion(p) /\ Begin(r, j, "increment", [clicks |-> promotions[p].clicks])
    /\ UNCHANGED promotionTables

\* Mutation: the count that was read, and one, is written.
Increment_OfTheRead(r) ==
    /\ At(r, "increment", "click")
    /\ LET p == job[r].promotion
       IN  promotions' = [q \in DOMAIN promotions |->
              IF q = p THEN [promotions[q] EXCEPT !.clicks = held[r].clicks + 1] ELSE promotions[q]]
    /\ Answer(r, "ok")
    /\ UNCHANGED reorders

\* UPDATE ... SET click_count = click_count + 1, of no row if it is gone.
Increment(r) ==
    /\ At(r, "increment", "click")
    /\ LET p == job[r].promotion
       IN  promotions' = [q \in DOMAIN promotions |->
              IF q = p THEN [promotions[q] EXCEPT !.clicks = @ + 1] ELSE promotions[q]]
    /\ Answer(r, "ok")
    /\ UNCHANGED reorders
-----------------------------------------------------------------------------
(* One promotion at a time *)

CreatePromotion(r, dto) ==
    LET j == [op |-> "create", dto |-> dto] IN
    /\ \/ dto.icon = "unknown" /\ Serve(r, j, "notFound")
       \/ dto.icon = "known" /\ Begin(r, j, "findLast", Nothing)
    /\ UNCHANGED promotionTables

\* That of the last promotion, or 0 if there is none.
HighestOrder ==
    LET orders == {promotions[p].order : p \in DOMAIN promotions}
    IN  IF orders = {} THEN 0 ELSE CHOOSE m \in orders : \A o \in orders : o <= m

\* The order asked for, or the one after the last.
FindLast(r) ==
    /\ At(r, "findLast", "create")
    /\ Continue(r, "insert", [order |-> IF job[r].dto.order = Nothing THEN HighestOrder + 1
                                                                          ELSE job[r].dto.order])
    /\ UNCHANGED promotionTables

InsertPromotion(r) ==
    /\ At(r, "insert", "create")
    /\ PutPromotion(r, [order |-> held[r].order, active |-> job[r].dto.active, clicks |-> 0])
    /\ Answer(r, "ok")
    /\ UNCHANGED reorders

\* update: what the request leaves out keeps the value that was read.
Updated(row, dto) ==
    [row EXCEPT !.order = IF dto.order = Nothing THEN @ ELSE dto.order,
                !.active = IF dto.active = Nothing THEN @ ELSE dto.active]

UpdatePromotion(r, p, dto) ==
    LET j == [op |-> "update", promotion |-> p, dto |-> dto] IN
    /\ \/ ~Promotion(p) /\ Serve(r, j, "notFound")
       \/ /\ Promotion(p)
          /\ Begin(r, j, IF dto.icon = "same" THEN "load" ELSE "findIcon",
                   Updated(promotions[p], dto))
    /\ UNCHANGED promotionTables

\* A new icon must exist; the icon that was read with the row wins over it when the
\* row is saved.
FindIcon(r) ==
    /\ At(r, "findIcon", "update")
    /\ \/ job[r].dto.icon = "unknown" /\ Answer(r, "notFound")
       \/ job[r].dto.icon = "known" /\ Continue(r, "load", held[r])
    /\ UNCHANGED promotionTables

\* Mutation: toggle only ever switches off.
Inverted_Off(row) == [row EXCEPT !.active = FALSE]

Inverted(row) == [row EXCEPT !.active = ~@]

TogglePromotion(r, p) ==
    LET j == [op |-> "toggle", promotion |-> p] IN
    /\ \/ ~Promotion(p) /\ Serve(r, j, "notFound")
       \/ Promotion(p) /\ Begin(r, j, "load", Inverted(promotions[p]))
    /\ UNCHANGED promotionTables

SavesPromotion(r) == pc[r] # "idle" /\ job[r].op \in {"update", "toggle"}

LoadPromotion(r) ==
    /\ pc[r] = "load" /\ SavesPromotion(r)
    /\ LET p == job[r].promotion
       IN  Continue(r, "write",
               [there |-> Promotion(p), entity |-> held[r],
                dirty |-> IF Promotion(p) THEN Dirty(held[r], promotions[p]) ELSE {}])
    /\ UNCHANGED promotionTables

\* As in FilmOptimizer: UPDATE of the columns that differed, or INSERT.
WritePromotion(r) ==
    /\ pc[r] = "write" /\ SavesPromotion(r)
    /\ LET p == job[r].promotion
           fails == ~held[r].there /\ Promotion(p)
       IN  /\ Answer(r, IF fails THEN "error" ELSE "ok")
           /\ \/ ~held[r].there /\ ~Promotion(p) /\ PutPromotion(p, held[r].entity)
              \/ /\ held[r].there /\ Promotion(p)
                 /\ PutPromotion(p, Merge(promotions[p], held[r].entity, held[r].dirty))
              \/ (held[r].there <=> ~Promotion(p)) /\ UNCHANGED promotions
    /\ UNCHANGED reorders

DeletePromotion(r, p) ==
    LET j == [op |-> "delete", promotion |-> p] IN
    /\ \/ ~Promotion(p) /\ Serve(r, j, "notFound")
       \/ Promotion(p) /\ Begin(r, j, "remove", Nothing)
    /\ UNCHANGED promotionTables

RemovePromotion(r) ==
    /\ At(r, "remove", "delete")
    /\ promotions' = [q \in DOMAIN promotions \ {job[r].promotion} |-> promotions[q]]
    /\ Answer(r, "ok")
    /\ UNCHANGED reorders
-----------------------------------------------------------------------------
(* All promotions in order *)

\* An UPDATE for each item, sent together.
Reorder(r, items) ==
    /\ Begin(r, [op |-> "reorder", items |-> items], "reordering", Nothing)
    /\ reorders' = reorders \cup {<<r, p>> : p \in DOMAIN items}
    /\ UNCHANGED promotions

\* One of them comes to the row, if there is one.
ReorderOne(r, p) ==
    /\ <<r, p>> \in reorders
    /\ reorders' = reorders \ {<<r, p>>}
    /\ promotions' = [q \in DOMAIN promotions |->
          IF q = p THEN [promotions[q] EXCEPT !.order = job[r].items[p]] ELSE promotions[q]]
    /\ UNCHANGED httpVars

\* One of them fails: Promise.all rejects and the caller is told; the others go on.
ReorderOneFails(r, p) ==
    /\ <<r, p>> \in reorders
    /\ reorders' = reorders \ {<<r, p>>}
    /\ IF InProgress(r) THEN Answer(r, "error") ELSE UNCHANGED httpVars
    /\ UNCHANGED promotions

\* Mutation: the list is read and answered while the UPDATEs are on their way.
FindAllReordered_AtOnce(r) ==
    /\ At(r, "reordering", "reorder")
    /\ Answer(r, "ok")
    /\ UNCHANGED promotionTables

FindAllReordered(r) ==
    /\ At(r, "reordering", "reorder")
    /\ \A p \in DOMAIN job[r].items : <<r, p>> \notin reorders
    /\ Answer(r, "ok")
    /\ UNCHANGED promotionTables
-----------------------------------------------------------------------------
KnownPromotions == DOMAIN promotions \cup {Nobody}

PromotionRequest(r) ==
    \/ \E dto \in Creations : CreatePromotion(r, dto)
    \/ \E p \in KnownPromotions :
          \/ Click(r, p)
          \/ \E dto \in Updates : UpdatePromotion(r, p, dto)
          \/ TogglePromotion(r, p)
          \/ DeletePromotion(r, p)
    \/ \E items \in Reorderings : Reorder(r, items)

PromotionStep(r) ==
    \/ Increment(r) \/ FindLast(r) \/ InsertPromotion(r) \/ FindIcon(r)
    \/ LoadPromotion(r) \/ WritePromotion(r) \/ RemovePromotion(r)
    \/ \E update \in reorders : ReorderOne(r, update[2]) \/ ReorderOneFails(r, update[2])
    \/ FindAllReordered(r)
    \/ pc[r] # "reordering" /\ StatementFails(r) /\ UNCHANGED promotionTables

PromotionNext == \E r \in Requests : PromotionRequest(r) \/ PromotionStep(r)

PromotionSpec == PromotionInit /\ [][PromotionNext]_promotionVars
-----------------------------------------------------------------------------
(* Properties *)

\* Every row is of its type, and an UPDATE on its way belongs to a reorder.
PromotionTypeOK ==
    /\ HttpTypeOK
    /\ DOMAIN promotions \subseteq Creators
    /\ \A p \in DOMAIN promotions : promotions[p] \in PromotionRows
    /\ \A update \in reorders :
          job[update[1]].op = "reorder" /\ update[2] \in DOMAIN job[update[1]].items

AsksOf(r, ops, p) == pc[r] # "idle" /\ job[r].op \in ops /\ job[r].promotion = p
SavesOf(p) == {s \in Requests : AsksOf(s, {"update", "toggle"}, p)}
ClicksOn(p) == {c \in Requests : AsksOf(c, {"click"}, p)}
DeletesOf(p) == {d \in Requests : AsksOf(d, {"delete"}, p)}
Reordering(p) ==
    {q \in Requests : pc[q] # "idle" /\ job[q].op = "reorder" /\ p \in DOMAIN job[q].items}

\* Every click that was answered with success is in the count, unless an
\* administrator's save of the promotion overlapped a click: toggle and update hold
\* the count they have read and write it back when it differs from the one there
\* (promotions.service.ts:60, 160, 175-177).
LostClicksAreExplained ==
    \A p \in DOMAIN promotions :
       \/ promotions[p].clicks = Cardinality({c \in ClicksOn(p) : Succeeded(c)})
       \/ \E s \in SavesOf(p), c \in ClicksOn(p) : Overlap(s, c)

\* A promotion that was deleted with success is there again only if an update or a
\* toggle of it overlapped the deletion (promotions.service.ts:160, 168, 177).
DeletedPromotionsStayDeleted ==
    \A p \in DOMAIN promotions : \A d \in DeletesOf(p) :
       Succeeded(d) => \E s \in SavesOf(p) : Overlap(d, s)

\* Two toggles at once count as one.  Where no two saves of a promotion overlapped,
\* and none but toggles set it, it is active after an even number of toggles and
\* not after an odd one, if it was active at first (promotions.service.ts:175-177).
TogglesCount ==
    \A p \in DOMAIN promotions :
       LET saves == SavesOf(p)
           counted == {s \in saves : job[s].op = "toggle" /\ Succeeded(s)}
           first == p = Nobody \/ job[p].dto.active
       IN  \/ \E s, t \in saves : Overlap(s, t)
           \/ \E s \in saves : job[s].op = "update" /\ job[s].dto.active # Nothing
           \/ \E d \in DeletesOf(p), s \in saves : Overlap(d, s)
           \/ promotions[p].active = (first <=> Cardinality(counted) % 2 = 0)

\* A reorder that was answered with success has given every promotion the order it
\* asked for, and it stays: until a later request gives another one, or an UPDATE
\* comes late of a reorder that was answered "error" for the sake of another UPDATE,
\* or a request that overlapped it writes an order too - its own, or with a save the
\* one it read before (promotions.service.ts:158-160, 177, 184-191).
ReordersStand ==
    \A p \in DOMAIN promotions : \A r \in Reordering(p) :
       Succeeded(r) =>
          \/ promotions[p].order = job[r].items[p]
          \/ p \in Requests /\ p \notin earlier[r]
          \/ \E q \in SavesOf(p) : Overlap(q, r)
          \/ \E q \in SavesOf(p) :
                r \in earlier[q] /\ job[q].op = "update" /\ job[q].dto.order # Nothing
          \/ \E q \in Reordering(p) : Overlap(q, r) \/ r \in earlier[q] \/ answer[q] = "error"
=============================================================================
