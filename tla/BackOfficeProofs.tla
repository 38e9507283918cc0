--------------------------- MODULE BackOfficeProofs ---------------------------
(***************************************************************************)
(* Machine-checked theorems about the back office, for every set of        *)
(* requests and whatever they may bring: in an area, a behaviour of the    *)
(* whole is one of the area alone, so that what is proved of an area holds *)
(* in the whole.  The promotions and the portfolios are here, the other    *)
(* areas in BackOfficeAreas.                                               *)
(***************************************************************************)
EXTENDS BackOffice, BackOfficeAreas

-----------------------------------------------------------------------------
(* Promotions: the inductive invariant.                                    *)

IsRow(row) == DOMAIN row = {"order", "active", "clicks"} /\ row.clicks \in Nat

OnePromotion == {"click", "update", "toggle", "delete"}

Saving(s) == InProgress(s) /\ job[s].op \in {"update", "toggle"}

\* The row a save holds, before its load and after.
HeldRow(s) == IF pc[s] = "write" THEN held[s].entity ELSE held[s]

Counted(p) == {c \in ClicksOn(p) : Succeeded(c)}

\* No save of the promotion has overlapped a click on it.
Clean(p) == \A s \in SavesOf(p), c \in ClicksOn(p) : ~Overlap(s, c)

\* The row counts the clicks, and so do the copies that may be written to it.
Exact(p) ==
    /\ p \in DOMAIN promotions => promotions[p].clicks = Cardinality(Counted(p))
    /\ \A s \in SavesOf(p) :
          InProgress(s) => HeldRow(s).clicks = Cardinality(Counted(p))

\* Nobody asks for a promotion before the request that makes it has been answered.
PromotionInv ==
    /\ HttpInv
    /\ DOMAIN promotions \subseteq Answered \cup {Nobody}
    /\ \A q \in Arrived : job[q].op \in OnePromotion => job[q].promotion \in Answered \cup {Nobody}
    /\ \A p \in DOMAIN promotions : IsRow(promotions[p])
    /\ \A s \in Requests : Saving(s) => IsRow(HeldRow(s))
    /\ \A p \in Creators : Clean(p) => Exact(p)

\* A start: a save reads the row as it is, while no click is in progress or the two
\* overlap.
LEMMA StartKeepsPromotionInv ==
    ASSUME PromotionInv, NEW r \in Requests, NEW j, Starts(r, j), UNCHANGED promotions,
           j.op \in OnePromotion => j.promotion \in KnownPromotions,
           answer'[r] # "ok",
           Saving(r)' =>
              /\ j.promotion \in DOMAIN promotions
              /\ HeldRow(r)' = held'[r] /\ IsRow(held'[r])
              /\ held'[r].clicks = promotions[j.promotion].clicks
    PROVE  PromotionInv'
  <1>1. HttpInv'
    BY StartKeepsHttpInv DEF PromotionInv
  <1>2. Answered \subseteq Answered' /\ Arrived' = Arrived \cup {r}
    BY StartFacts DEF Answered, Arrived, PromotionInv
  <1>3. \A q \in Requests \ {r} :
           /\ pc'[q] = pc[q] /\ job'[q] = job[q] /\ held'[q] = held[q]
           /\ answer'[q] = answer[q]
    BY StartFacts DEF PromotionInv
  <1>4. pc[r] = "idle" /\ pc'[r] # "idle" /\ job'[r] = j /\ answer[r] = "none"
    BY StartFacts DEF PromotionInv
  <1>5. \A q \in Arrived' :
           job'[q].op \in OnePromotion => job'[q].promotion \in Answered' \cup {Nobody}
    <2>1. \A q \in Arrived : q # r /\ q \in Requests
      BY <1>4 DEF Arrived
    <2>2. KnownPromotions \subseteq Answered' \cup {Nobody}
      BY <1>2 DEF PromotionInv, KnownPromotions
    <2>3. QED
      BY <1>2, <1>3, <1>4, <2>1, <2>2 DEF PromotionInv
  <1>6. \A s \in Requests : Saving(s)' => IsRow(HeldRow(s)')
    <2>1. \A s \in Requests \ {r} : (Saving(s)' => Saving(s)) /\ HeldRow(s)' = HeldRow(s)
      BY <1>3 DEF Saving, InProgress, HeldRow
    <2>2. Saving(r)' => IsRow(HeldRow(r)')
      OBVIOUS
    <2>3. QED
      BY <2>1, <2>2 DEF PromotionInv
  <1>7. ASSUME NEW p \in Creators, Clean(p)' PROVE Exact(p)'
    <2>1. /\ \A s \in Requests \ {r} : s \in SavesOf(p)' <=> s \in SavesOf(p)
          /\ \A c \in Requests \ {r} : c \in ClicksOn(p)' <=> c \in ClicksOn(p)
          /\ r \notin SavesOf(p) /\ r \notin ClicksOn(p)
      BY <1>3, <1>4 DEF SavesOf, ClicksOn, AsksOf
    <2>2. Clean(p)
      BY <1>7, <2>1, StartOverlaps DEF Clean, PromotionInv, SavesOf, ClicksOn
    <2>3. Exact(p)
      BY <2>2 DEF PromotionInv
    <2>4. Counted(p)' = Counted(p)
      BY <1>3, <2>1 DEF Counted, Succeeded, ClicksOn
    <2>5. ASSUME NEW s \in SavesOf(p)', InProgress(s)'
          PROVE  HeldRow(s)'.clicks = Cardinality(Counted(p)')
      <3>1. CASE s = r
        <4>1. Saving(r)' /\ j.promotion = p
          BY <1>4, <2>5, <3>1 DEF Saving, SavesOf, AsksOf
        <4>2. QED
          BY <2>3, <2>4, <3>1, <4>1 DEF Exact
      <3>2. CASE s # r
        <4>1. s \in Requests \ {r} /\ s \in SavesOf(p) /\ InProgress(s)
          BY <1>3, <2>1, <2>5, <3>2 DEF SavesOf, InProgress
        <4>2. HeldRow(s)' = HeldRow(s)
          BY <1>3, <4>1 DEF HeldRow
        <4>3. QED
          BY <2>3, <2>4, <4>1, <4>2 DEF Exact
      <3>3. QED
        BY <3>1, <3>2
    <2>6. QED
      BY <2>3, <2>4, <2>5 DEF Exact
  <1>8. QED
    BY <1>1, <1>2, <1>5, <1>6, <1>7 DEF PromotionInv

\* A later step leaves the requests about a promotion, and their overlaps, as they are.
LEMMA GoKeepsAsking ==
    ASSUME HttpInv, NEW r \in Requests, Goes(r)
    PROVE  \A p : /\ SavesOf(p)' = SavesOf(p) /\ ClicksOn(p)' = ClicksOn(p)
                  /\ Clean(p)' <=> Clean(p)
  <1>1. \A q \in Requests : pc'[q] = "idle" <=> pc[q] = "idle"
    BY GoFacts
  <1>2. \A p : SavesOf(p)' = SavesOf(p) /\ ClicksOn(p)' = ClicksOn(p)
    BY <1>1, GoFacts DEF SavesOf, ClicksOn, AsksOf
  <1>3. QED
    BY <1>2, GoOverlaps DEF Clean

\* Such a step, if what it leaves in the table and in its request's hands is exact.
LEMMA GoKeepsPromotionInv ==
    ASSUME PromotionInv, NEW r \in Requests, Goes(r),
           \A p \in DOMAIN promotions' : p \in Answered' \cup {Nobody} /\ IsRow(promotions'[p]),
           Saving(r)' => IsRow(HeldRow(r)'),
           \A p \in Creators : Clean(p) => Exact(p)'
    PROVE  PromotionInv'
  <1>1. HttpInv' /\ Arrived' = Arrived
    BY GoKeepsHttpInv DEF PromotionInv
  <1>2. Answered \subseteq Answered'
    BY GoFacts DEF Answered, PromotionInv
  <1>3. \A q \in Arrived :
           job'[q].op \in OnePromotion => job'[q].promotion \in Answered' \cup {Nobody}
    BY <1>2, GoFacts DEF PromotionInv
  <1>4. \A s \in Requests : Saving(s)' => IsRow(HeldRow(s)')
    <2>1. \A s \in Requests \ {r} : (Saving(s)' => Saving(s)) /\ HeldRow(s)' = HeldRow(s)
      BY GoFacts DEF Saving, InProgress, HeldRow, PromotionInv
    <2>2. QED
      BY <2>1 DEF PromotionInv
  <1>5. \A p \in Creators : Clean(p)' => Exact(p)'
    BY GoKeepsAsking DEF PromotionInv
  <1>6. QED
    BY <1>1, <1>3, <1>4, <1>5 DEF PromotionInv

\* A step that answers no click, counts none and brings no row back.
LEMMA PlainGoKeepsPromotionInv ==
    ASSUME PromotionInv, NEW r \in Requests, Goes(r),
           job[r].op = "click" => answer'[r] # "ok",
           \A p \in DOMAIN promotions' :
              /\ p \in DOMAIN promotions /\ IsRow(promotions'[p])
              /\ promotions'[p].clicks = promotions[p].clicks,
           Saving(r)' =>
              Saving(r) /\ IsRow(HeldRow(r)') /\ HeldRow(r)'.clicks = HeldRow(r).clicks
    PROVE  PromotionInv'
  <1>1. \A p : Counted(p)' = Counted(p)
    <2>1. \A q \in Requests \ {r} : answer'[q] = answer[q]
      BY GoFacts DEF PromotionInv
    <2>2. answer[r] # "ok"
      BY GoFacts DEF PromotionInv
    <2>3. \A p : r \in ClicksOn(p) => answer'[r] # "ok"
      BY DEF ClicksOn, AsksOf
    <2>4. \A p : ClicksOn(p)' = ClicksOn(p) /\ ClicksOn(p) \subseteq Requests
      BY GoKeepsAsking DEF PromotionInv, ClicksOn
    <2>5. QED
      BY <2>1, <2>2, <2>3, <2>4 DEF Counted, Succeeded
  <1>2. ASSUME NEW p \in Creators, Clean(p) PROVE Exact(p)'
    <2>1. Exact(p)
      BY <1>2 DEF PromotionInv
    <2>2. p \in DOMAIN promotions' => promotions'[p].clicks = Cardinality(Counted(p)')
      BY <1>1, <2>1 DEF Exact
    <2>3. ASSUME NEW s \in SavesOf(p)', InProgress(s)'
          PROVE  HeldRow(s)'.clicks = Cardinality(Counted(p)')
      <3>1. s \in SavesOf(p) /\ s \in Requests
        BY <2>3, GoKeepsAsking DEF PromotionInv, SavesOf
      <3>2. InProgress(s) /\ HeldRow(s)'.clicks = HeldRow(s).clicks
        <4>1. CASE s = r
          BY <2>3, <3>1, <4>1, GoFacts DEF PromotionInv, Saving, SavesOf, AsksOf, InProgress
        <4>2. CASE s # r
          BY <2>3, <3>1, <4>2, GoFacts DEF PromotionInv, HeldRow, InProgress
        <4>3. QED
          BY <4>1, <4>2
      <3>3. QED
        BY <1>1, <2>1, <3>1, <3>2 DEF Exact
    <2>4. QED
      BY <2>2, <2>3 DEF Exact
  <1>3. \A p \in DOMAIN promotions' : p \in Answered' \cup {Nobody} /\ IsRow(promotions'[p])
    BY GoFacts DEF PromotionInv, Answered
  <1>4. QED
    BY <1>2, <1>3, GoKeepsPromotionInv
-----------------------------------------------------------------------------
(* Promotions: every action keeps the invariant.                           *)

LEMMA ClickKeeps ==
    ASSUME PromotionInv, NEW r \in Requests, NEW p \in KnownPromotions, Click(r, p)
    PROVE  PromotionInv'
  <1> DEFINE j == [op |-> "click", promotion |-> p]
  <1>1. Starts(r, j) /\ answer'[r] # "ok"
    BY DEF Click, Starts, Begin, Serve, Arrive, Answers, PromotionInv, HttpInv
  <1>2. ~Saving(r)'
    BY <1>1, StartFacts DEF PromotionInv, Saving
  <1>3. UNCHANGED promotions
    BY DEF Click, promotionTables
  <1>4. QED
    BY <1>1, <1>2, <1>3, StartKeepsPromotionInv

LEMMA DeletePromotionKeeps ==
    ASSUME PromotionInv, NEW r \in Requests, NEW p \in KnownPromotions, DeletePromotion(r, p)
    PROVE  PromotionInv'
  <1> DEFINE j == [op |-> "delete", promotion |-> p]
  <1>1. Starts(r, j) /\ answer'[r] # "ok"
    BY DEF DeletePromotion, Starts, Begin, Serve, Arrive, Answers, PromotionInv, HttpInv
  <1>2. ~Saving(r)'
    BY <1>1, StartFacts DEF PromotionInv, Saving
  <1>3. UNCHANGED promotions
    BY DEF DeletePromotion, promotionTables
  <1>4. QED
    BY <1>1, <1>2, <1>3, StartKeepsPromotionInv

LEMMA CreatePromotionKeeps ==
    ASSUME PromotionInv, NEW r \in Requests, NEW dto, CreatePromotion(r, dto)
    PROVE  PromotionInv'
  <1> DEFINE j == [op |-> "create", dto |-> dto]
  <1>1. Starts(r, j) /\ answer'[r] # "ok"
    BY DEF CreatePromotion, Starts, Begin, Serve, Arrive, Answers, PromotionInv, HttpInv
  <1>2. ~Saving(r)'
    BY <1>1, StartFacts DEF PromotionInv, Saving
  <1>3. UNCHANGED promotions
    BY DEF CreatePromotion, promotionTables
  <1>4. j.op \notin OnePromotion
    BY DEF OnePromotion
  <1>5. QED
    BY <1>1, <1>2, <1>3, <1>4, StartKeepsPromotionInv

LEMMA ReorderKeeps ==
    ASSUME PromotionInv, NEW r \in Requests, NEW items, Reorder(r, items)
    PROVE  PromotionInv'
  <1> DEFINE j == [op |-> "reorder", items |-> items]
  <1>1. Starts(r, j) /\ answer'[r] # "ok"
    BY DEF Reorder, Starts, Begin, Arrive, PromotionInv, HttpInv
  <1>2. ~Saving(r)'
    BY <1>1, StartFacts DEF PromotionInv, Saving
  <1>3. UNCHANGED promotions
    BY DEF Reorder
  <1>4. j.op \notin OnePromotion
    BY DEF OnePromotion
  <1>5. QED
    BY <1>1, <1>2, <1>3, <1>4, StartKeepsPromotionInv

\* A save begins with the row that was read, changed in other columns than the count.
LEMMA SaveBegins ==
    ASSUME PromotionInv, NEW r \in Requests, NEW p \in KnownPromotions, NEW j, NEW statement,
           NEW row, j.op \in {"update", "toggle"}, j.promotion = p, UNCHANGED promotions,
           \/ Serve(r, j, "notFound")
           \/ /\ p \in DOMAIN promotions /\ statement \in {"load", "findIcon"}
              /\ IsRow(row) /\ row.clicks = promotions[p].clicks
              /\ Begin(r, j, statement, row)
    PROVE  PromotionInv'
  <1>1. Starts(r, j) /\ answer'[r] # "ok"
    BY DEF Starts, Begin, Serve, Arrive, Answers, PromotionInv, HttpInv
  <1>2. CASE Serve(r, j, "notFound")
    <2>1. ~Saving(r)'
      BY <1>2 DEF Serve, Saving, InProgress, PromotionInv, HttpInv
    <2>2. QED
      BY <1>1, <2>1, StartKeepsPromotionInv
  <1>3. CASE /\ p \in DOMAIN promotions /\ statement \in {"load", "findIcon"}
             /\ IsRow(row) /\ row.clicks = promotions[p].clicks
             /\ Begin(r, j, statement, row)
    <2>1. pc'[r] # "write" /\ held'[r] = row
      BY <1>3 DEF Begin, PromotionInv, HttpInv
    <2>2. HeldRow(r)' = held'[r]
      BY <2>1 DEF HeldRow
    <2>3. QED
      BY <1>1, <1>3, <2>1, <2>2, StartKeepsPromotionInv
  <1>4. QED
    BY <1>2, <1>3

LEMMA TogglePromotionKeeps ==
    ASSUME PromotionInv, NEW r \in Requests, NEW p \in KnownPromotions, TogglePromotion(r, p)
    PROVE  PromotionInv'
  <1> DEFINE row == Inverted(promotions[p])
  <1>1. ASSUME p \in DOMAIN promotions
        PROVE  IsRow(row) /\ row.clicks = promotions[p].clicks
    BY <1>1 DEF PromotionInv, Inverted, IsRow
  <1>2. UNCHANGED promotions
    BY DEF TogglePromotion, promotionTables
  <1>3. QED
    BY <1>1, <1>2, SaveBegins DEF TogglePromotion, Promotion

LEMMA UpdatePromotionKeeps ==
    ASSUME PromotionInv, NEW r \in Requests, NEW p \in KnownPromotions, NEW dto,
           UpdatePromotion(r, p, dto)
    PROVE  PromotionInv'
  <1> DEFINE row == Updated(promotions[p], dto)
  <1>1. ASSUME p \in DOMAIN promotions
        PROVE  IsRow(row) /\ row.clicks = promotions[p].clicks
    BY <1>1 DEF PromotionInv, Updated, IsRow
  <1>2. UNCHANGED promotions
    BY DEF UpdatePromotion, promotionTables
  <1>3. QED
    BY <1>1, <1>2, SaveBegins DEF UpdatePromotion, Promotion

LEMMA PlainStepKeeps ==
    ASSUME PromotionInv, NEW r \in Requests,
           \/ FindLast(r) \/ FindIcon(r) \/ LoadPromotion(r) \/ RemovePromotion(r)
           \/ FindAllReordered(r)
           \/ StatementFails(r) /\ UNCHANGED promotionTables
           \/ InProgress(r) /\ Answer(r, "error") /\ UNCHANGED promotions
    PROVE  PromotionInv'
  <1> USE DEF Goes, Continue, Answer, InProgress, Answers, At, promotionTables
  <1>1. CASE FindLast(r)
    <2>1. Goes(r) /\ UNCHANGED promotions /\ job[r].op = "create" /\ job' = job
      BY <1>1 DEF FindLast
    <2>2. answer'[r] # "ok" \/ job[r].op # "click"
      BY <2>1
    <2>3. ~Saving(r)'
      BY <2>1 DEF Saving
    <2>4. QED
      BY <2>1, <2>3, PlainGoKeepsPromotionInv DEF PromotionInv
  <1>2. CASE FindIcon(r)
    <2>1. Goes(r) /\ UNCHANGED promotions /\ job[r].op = "update" /\ job' = job
      BY <1>2 DEF FindIcon
    <2>2. Saving(r)' => /\ Saving(r) /\ pc'[r] = "load" /\ held'[r] = held[r]
                        /\ pc[r] = "findIcon"
      BY <1>2 DEF FindIcon, Saving, PromotionInv, HttpInv
    <2>3. Saving(r)' => HeldRow(r)' = HeldRow(r)
      BY <2>2 DEF HeldRow
    <2>4. QED
      BY <2>1, <2>2, <2>3, PlainGoKeepsPromotionInv DEF PromotionInv
  <1>3. CASE LoadPromotion(r)
    <2>1. Goes(r) /\ UNCHANGED promotions /\ job' = job /\ job[r].op \in {"update", "toggle"}
      BY <1>3 DEF LoadPromotion, SavesPromotion
    <2>2. /\ Saving(r) /\ pc[r] = "load" /\ pc'[r] = "write"
          /\ held'[r].entity = held[r]
      BY <1>3, <2>1 DEF LoadPromotion, Saving, PromotionInv, HttpInv
    <2>3. HeldRow(r)' = HeldRow(r)
      BY <2>2 DEF HeldRow
    <2>4. QED
      BY <2>1, <2>2, <2>3, PlainGoKeepsPromotionInv DEF PromotionInv
  <1>4. CASE RemovePromotion(r)
    <2>1. Goes(r) /\ job[r].op = "delete" /\ job' = job
      <3>1. pc[r] = "remove" /\ job[r].op = "delete" /\ Answer(r, "ok")
        BY <1>4 DEF RemovePromotion
      <3>2. QED
        BY <3>1
    <2>2. \A p \in DOMAIN promotions' : p \in DOMAIN promotions /\ promotions'[p] = promotions[p]
      BY <1>4 DEF RemovePromotion
    <2>3. ~Saving(r)'
      BY <2>1 DEF Saving
    <2>4. QED
      BY <2>1, <2>2, <2>3, PlainGoKeepsPromotionInv DEF PromotionInv
  <1>5. CASE FindAllReordered(r)
    <2>1. Goes(r) /\ UNCHANGED promotions /\ job[r].op = "reorder" /\ job' = job
      BY <1>5 DEF FindAllReordered
    <2>2. ~Saving(r)'
      BY <2>1 DEF Saving
    <2>3. QED
      BY <2>1, <2>2, PlainGoKeepsPromotionInv DEF PromotionInv
  <1>6. CASE InProgress(r) /\ Answer(r, "error") /\ UNCHANGED promotions
    <2>1. Goes(r) /\ UNCHANGED promotions /\ answer'[r] # "ok" /\ pc'[r] = "answered"
      BY <1>6 DEF PromotionInv, HttpInv
    <2>2. ~Saving(r)'
      BY <2>1 DEF Saving
    <2>3. QED
      BY <2>1, <2>2, PlainGoKeepsPromotionInv DEF PromotionInv
  <1>7. QED
    BY <1>1, <1>2, <1>3, <1>4, <1>5, <1>6 DEF StatementFails

\* A click in progress overlaps every save in progress, so that it counts exactly when
\* none holds the count.
LEMMA IncrementKeeps ==
    ASSUME PromotionInv, NEW r \in Requests, Increment(r)
    PROVE  PromotionInv'
  <1> DEFINE clicked == job[r].promotion
  <1>1. Goes(r) /\ job[r].op = "click" /\ pc'[r] = "answered" /\ answer'[r] = "ok"
    BY DEF Increment, Goes, Answer, InProgress, Answers, At, PromotionInv, HttpInv
  <1>2. /\ DOMAIN promotions' = DOMAIN promotions
        /\ \A p \in DOMAIN promotions :
              /\ IsRow(promotions'[p])
              /\ p # clicked => promotions'[p].clicks = promotions[p].clicks
              /\ p = clicked => promotions'[p].clicks = promotions[p].clicks + 1
    BY DEF Increment, PromotionInv, IsRow
  <1>3. ~Saving(r)' /\ r \in ClicksOn(clicked) /\ InProgress(r) /\ answer[r] # "ok"
    BY <1>1, GoFacts DEF Saving, ClicksOn, AsksOf, InProgress, PromotionInv
  <1>4. \A p : p # clicked => r \notin ClicksOn(p)
    BY DEF ClicksOn, AsksOf
  <1>5. \A p : Counted(p)' = IF p = clicked THEN Counted(p) \cup {r} ELSE Counted(p)
    <2>1. \A p : ClicksOn(p)' = ClicksOn(p) /\ ClicksOn(p) \subseteq Requests
      BY <1>1, GoKeepsAsking DEF PromotionInv, ClicksOn
    <2>2. \A q \in Requests : Succeeded(q)' <=> Succeeded(q) \/ q = r
      BY <1>1, GoFacts DEF Succeeded, PromotionInv
    <2>3. \A p, c : c \in Counted(p)' <=> c \in Counted(p) \/ (p = clicked /\ c = r)
      BY <1>3, <1>4, <2>1, <2>2 DEF Counted
    <2>4. QED
      BY <2>3
  <1>6. ASSUME NEW p \in Creators, Clean(p) PROVE Exact(p)'
    <2>1. Exact(p)
      BY <1>6 DEF PromotionInv
    <2>2. \A s \in SavesOf(p)' : InProgress(s)' =>
             s \in SavesOf(p) /\ s # r /\ InProgress(s) /\ HeldRow(s)' = HeldRow(s)
      BY <1>1, GoFacts, GoKeepsAsking DEF InProgress, HeldRow, SavesOf, PromotionInv
    <2>3. CASE p # clicked
      BY <1>2, <1>5, <2>1, <2>2, <2>3 DEF Exact
    <2>4. CASE p = clicked
      <3>1. \A s \in SavesOf(p) : ~InProgress(s) \/ s = r
        BY <1>3, <1>6, <2>4, InProgressOverlap DEF Clean, PromotionInv, SavesOf
      <3>2. r \notin Counted(p) /\ IsFiniteSet(Counted(p))
        <4>1. Counted(p) \in SUBSET Arrived
          BY DEF Counted, ClicksOn, AsksOf, Arrived
        <4>2. QED
          BY <1>3, <4>1, FS_Subset DEF Counted, Succeeded, PromotionInv, HttpInv
      <3>3. Cardinality(Counted(p)') = Cardinality(Counted(p)) + 1
        BY <1>5, <2>4, <3>2, FS_AddElement
      <3>4. QED
        BY <1>2, <2>1, <2>2, <2>4, <3>1, <3>3 DEF Exact
    <2>5. QED
      BY <2>3, <2>4
  <1>7. \A p \in DOMAIN promotions' : p \in Answered' \cup {Nobody} /\ IsRow(promotions'[p])
    BY <1>1, <1>2, GoFacts DEF PromotionInv, Answered
  <1>8. QED
    BY <1>1, <1>3, <1>6, <1>7, GoKeepsPromotionInv

\* The count of a new promotion is 0, and nobody has asked for it yet.
LEMMA InsertPromotionKeeps ==
    ASSUME PromotionInv, NEW r \in Requests, InsertPromotion(r)
    PROVE  PromotionInv'
  <1>1. Goes(r) /\ job[r].op = "create" /\ pc'[r] = "answered" /\ pc[r] = "insert"
    BY DEF InsertPromotion, Goes, Answer, InProgress, Answers, At, PromotionInv, HttpInv
  <1>2. /\ DOMAIN promotions' = DOMAIN promotions \cup {r}
        /\ IsRow(promotions'[r]) /\ promotions'[r].clicks = 0
        /\ \A p \in DOMAIN promotions \ {r} : promotions'[p] = promotions[p]
    BY DEF InsertPromotion, PutPromotion, IsRow
  <1>3. r \notin Answered \cup {Nobody}
    BY <1>1, RequestConstants DEF Answered
  <1>4. ClicksOn(r) = {} /\ SavesOf(r) = {}
    BY <1>3 DEF ClicksOn, SavesOf, AsksOf, PromotionInv, OnePromotion, Arrived
  <1>5. \A p : Counted(p)' = Counted(p)
    BY <1>1, GoFacts, GoKeepsAsking DEF Counted, Succeeded, ClicksOn, AsksOf, PromotionInv
  <1>6. ~Saving(r)'
    BY <1>1 DEF Saving, InProgress
  <1>7. ASSUME NEW p \in Creators, Clean(p) PROVE Exact(p)'
    <2>1. Exact(p)
      BY <1>7 DEF PromotionInv
    <2>2. \A s \in SavesOf(p)' : InProgress(s)' =>
             s \in SavesOf(p) /\ InProgress(s) /\ HeldRow(s)' = HeldRow(s)
      BY <1>1, GoFacts, GoKeepsAsking DEF InProgress, HeldRow, SavesOf, PromotionInv
    <2>3. CASE p # r
      BY <1>2, <1>5, <2>1, <2>2, <2>3 DEF Exact
    <2>4. CASE p = r
      <3>1. Counted(p)' = {} /\ SavesOf(p)' = {}
        BY <1>4, <1>5, <1>1, <2>4, GoKeepsAsking DEF Counted, PromotionInv
      <3>2. QED
        BY <1>2, <2>4, <3>1, FS_EmptySet DEF Exact
    <2>5. QED
      BY <2>3, <2>4
  <1>8. \A p \in DOMAIN promotions' : p \in Answered' \cup {Nobody} /\ IsRow(promotions'[p])
    BY <1>1, <1>2, GoFacts DEF PromotionInv, Answered
  <1>9. QED
    BY <1>1, <1>6, <1>7, <1>8, GoKeepsPromotionInv

\* What a save writes, whether it updates or inserts, has the count it holds or the one
\* that is there.
LEMMA WritePromotionKeeps ==
    ASSUME PromotionInv, NEW r \in Requests, WritePromotion(r)
    PROVE  PromotionInv'
  <1> DEFINE saved == job[r].promotion
             row == held[r].entity
  <1>1. /\ Goes(r) /\ job[r].op \in {"update", "toggle"} /\ pc'[r] = "answered"
        /\ pc[r] = "write" /\ r \in SavesOf(saved) /\ InProgress(r)
    BY DEF WritePromotion, SavesPromotion, Goes, Answer, InProgress, Answers, PromotionInv,
           HttpInv, SavesOf, AsksOf
  <1>2. HeldRow(r) = row /\ Saving(r) /\ IsRow(row)
    BY <1>1 DEF HeldRow, Saving, PromotionInv
  <1>3. saved \in Answered \cup {Nobody}
    BY <1>1 DEF PromotionInv, OnePromotion, Arrived
  <1>4. \A p \in DOMAIN promotions' :
           /\ IsRow(promotions'[p])
           /\ \/ p \in DOMAIN promotions /\ promotions'[p].clicks = promotions[p].clicks
              \/ p = saved /\ promotions'[p].clicks = row.clicks
    <2>1. CASE promotions' = promotions
      BY <2>1 DEF PromotionInv
    <2>2. CASE PutPromotion(saved, row)
      BY <1>2, <2>2 DEF PutPromotion, PromotionInv
    <2>3. CASE saved \in DOMAIN promotions
               /\ PutPromotion(saved, Merge(promotions[saved], row, held[r].dirty))
      <3>1. IsRow(promotions[saved])
        BY <2>3 DEF PromotionInv
      <3>2. DEFINE merged == Merge(promotions[saved], row, held[r].dirty)
      <3>3. IsRow(merged) /\ merged.clicks \in {promotions[saved].clicks, row.clicks}
        BY <1>2, <3>1 DEF Merge, IsRow
      <3>4. QED
        BY <2>3, <3>3 DEF PutPromotion, PromotionInv
    <2>4. QED
      BY <2>1, <2>2, <2>3 DEF WritePromotion, Promotion
  <1>5. \A p : Counted(p)' = Counted(p)
    BY <1>1, GoFacts, GoKeepsAsking DEF Counted, Succeeded, ClicksOn, AsksOf, PromotionInv
  <1>6. ~Saving(r)'
    BY <1>1 DEF Saving, InProgress
  <1>7. ASSUME NEW p \in Creators, Clean(p) PROVE Exact(p)'
    <2>1. Exact(p)
      BY <1>7 DEF PromotionInv
    <2>2. \A s \in SavesOf(p)' : InProgress(s)' =>
             s \in SavesOf(p) /\ InProgress(s) /\ HeldRow(s)' = HeldRow(s)
      BY <1>1, GoFacts, GoKeepsAsking DEF InProgress, HeldRow, SavesOf, PromotionInv
    <2>3. p = saved => row.clicks = Cardinality(Counted(p))
      BY <1>1, <1>2, <2>1 DEF Exact
    <2>4. QED
      BY <1>4, <1>5, <2>1, <2>2, <2>3 DEF Exact
  <1>8. \A p \in DOMAIN promotions' : p \in Answered' \cup {Nobody} /\ IsRow(promotions'[p])
    <2>1. DOMAIN promotions' \subseteq DOMAIN promotions \cup {saved}
      BY <1>4
    <2>2. QED
      BY <1>1, <1>3, <1>4, <2>1, GoFacts DEF PromotionInv, Answered
  <1>9. QED
    BY <1>1, <1>6, <1>7, <1>8, GoKeepsPromotionInv

\* An UPDATE of a reorder that is on its way, whose request may be answered by now.
LEMMA QuietKeepsPromotionInv ==
    ASSUME PromotionInv, UNCHANGED httpVars, DOMAIN promotions' = DOMAIN promotions,
           \A p \in DOMAIN promotions :
              IsRow(promotions'[p]) /\ promotions'[p].clicks = promotions[p].clicks
    PROVE  PromotionInv'
  <1> USE DEF httpVars
  <1>1. HttpInv' /\ Arrived' = Arrived /\ Answered' = Answered
    BY DEF PromotionInv, HttpInv, Arrived, Answered
  <1>2. \A p : SavesOf(p)' = SavesOf(p) /\ ClicksOn(p)' = ClicksOn(p)
    BY DEF SavesOf, ClicksOn, AsksOf
  <1>3. \A p : (Clean(p)' <=> Clean(p)) /\ Counted(p)' = Counted(p)
    BY <1>2 DEF Clean, Counted, Succeeded, Overlap
  <1>4. \A s : HeldRow(s)' = HeldRow(s) /\ (InProgress(s)' <=> InProgress(s))
    BY DEF HeldRow, InProgress
  <1>5. \A p : Exact(p) => Exact(p)'
    BY <1>2, <1>3, <1>4 DEF Exact
  <1>6. \A s \in Requests : Saving(s)' => IsRow(HeldRow(s)')
    BY <1>4 DEF Saving, PromotionInv
  <1>7. QED
    BY <1>1, <1>3, <1>5, <1>6 DEF PromotionInv

LEMMA ReorderStepKeeps ==
    ASSUME PromotionInv, NEW r \in Requests, NEW p,
           ReorderOne(r, p) \/ ReorderOneFails(r, p)
    PROVE  PromotionInv'
  <1>1. CASE ReorderOne(r, p)
    <2>1. /\ DOMAIN promotions' = DOMAIN promotions
          /\ \A q \in DOMAIN promotions :
                IsRow(promotions'[q]) /\ promotions'[q].clicks = promotions[q].clicks
      BY <1>1 DEF ReorderOne, PromotionInv, IsRow
    <2>2. QED
      BY <1>1, <2>1, QuietKeepsPromotionInv DEF ReorderOne
  <1>2. CASE ReorderOneFails(r, p) /\ InProgress(r)
    BY <1>2, PlainStepKeeps DEF ReorderOneFails
  <1>3. CASE ReorderOneFails(r, p) /\ ~InProgress(r)
    <2>1. UNCHANGED httpVars /\ promotions' = promotions
      BY <1>3 DEF ReorderOneFails
    <2>2. QED
      BY <2>1, QuietKeepsPromotionInv DEF PromotionInv
  <1>4. QED
    BY <1>1, <1>2, <1>3

LEMMA PromotionInitInv == PromotionInit => PromotionInv
  <1> SUFFICES ASSUME PromotionInit PROVE PromotionInv
    OBVIOUS
  <1>1. HttpInv /\ Arrived = {}
    BY HttpStarts DEF PromotionInit, HttpInit, Arrived
  <1>2. \A p : ClicksOn(p) = {} /\ SavesOf(p) = {}
    BY DEF PromotionInit, HttpInit, ClicksOn, SavesOf, AsksOf
  <1>3. /\ DOMAIN promotions = {Nobody} /\ IsRow(promotions[Nobody])
        /\ promotions[Nobody].clicks = 0
    BY DEF PromotionInit, PromotionTablesSeeded, IsRow
  <1>4. \A p : Counted(p) = {}
    BY <1>2 DEF Counted
  <1>5. \A p : Exact(p)
    BY <1>2, <1>3, <1>4, FS_EmptySet DEF Exact
  <1>6. \A s \in Requests : ~Saving(s)
    BY DEF PromotionInit, HttpInit, Saving, InProgress
  <1>7. QED
    BY <1>1, <1>3, <1>5, <1>6 DEF PromotionInv

LEMMA PromotionNextInv == PromotionInv /\ [PromotionNext]_promotionVars => PromotionInv'
  <1> SUFFICES ASSUME PromotionInv, [PromotionNext]_promotionVars PROVE PromotionInv'
    OBVIOUS
  <1>1. ASSUME NEW r \in Requests, PromotionRequest(r) PROVE PromotionInv'
    BY <1>1, CreatePromotionKeeps, ClickKeeps, UpdatePromotionKeeps, TogglePromotionKeeps,
       DeletePromotionKeeps, ReorderKeeps DEF PromotionRequest
  <1>2. ASSUME NEW r \in Requests, PromotionStep(r) PROVE PromotionInv'
    BY <1>2, IncrementKeeps, InsertPromotionKeeps, WritePromotionKeeps, PlainStepKeeps,
       ReorderStepKeeps DEF PromotionStep
  <1>3. CASE UNCHANGED promotionVars
    BY <1>3, QuietKeepsPromotionInv DEF promotionVars, promotionTables, PromotionInv
  <1>4. QED
    BY <1>1, <1>2, <1>3 DEF PromotionNext

LEMMA PromotionInvCounts == PromotionInv => LostClicksAreExplained
  <1> SUFFICES ASSUME PromotionInv, NEW p \in DOMAIN promotions, Clean(p)
               PROVE  promotions[p].clicks = Cardinality(Counted(p))
    BY DEF LostClicksAreExplained, Clean, Counted
  <1>1. p \in Creators
    BY DEF PromotionInv, Creators, Answered
  <1>2. QED
    BY <1>1 DEF PromotionInv, Exact

\* However many clicks, saves and reorders of promotions interleave, a count is wrong
\* only where a save overlapped a click.
THEOREM PromotionClicks == PromotionSpec => []LostClicksAreExplained
  <1>1. PromotionSpec => []PromotionInv
    BY PromotionInitInv, PromotionNextInv, PTL DEF PromotionSpec
  <1>2. QED
    BY <1>1, PromotionInvCounts, PTL
-----------------------------------------------------------------------------
(* Promotions: types.                                                      *)

\* What a request about promotions holds from one statement to the next.
PromotionWork(r) ==
    /\ pc[r] \in {"findIcon", "load", "write"} =>
          job[r].op \in {"update", "toggle"} /\ HeldRow(r) \in PromotionRows
    /\ pc[r] = "write" => held[r].there \in BOOLEAN
    /\ pc[r] = "insert" => job[r].op = "create" /\ held[r].order \in Int

PromotionTyped ==
    /\ PromotionTypeOK
    /\ \A r \in Arrived : job[r] \in PromotionJobs
    /\ \A r \in Requests : PromotionWork(r)
    /\ \A update \in reorders : update = <<update[1], update[2]>> /\ update[1] \in Arrived

LEMMA HighestOrderIsNumber ==
    ASSUME PromotionInv, PromotionTyped
    PROVE  HighestOrder \in Int
  <1> DEFINE orders == {promotions[p].order : p \in DOMAIN promotions}
             order == [p \in DOMAIN promotions |-> promotions[p].order]
  <1>1. \A p \in DOMAIN promotions : promotions[p].order \in Int
    BY DEF PromotionTyped, PromotionTypeOK, PromotionRows
  <1>2. IsFiniteSet(DOMAIN promotions)
    <2>1. DOMAIN promotions \subseteq Arrived \cup {Nobody}
      BY DEF PromotionInv, Answered, Arrived
    <2>2. IsFiniteSet(Arrived \cup {Nobody})
      BY FS_AddElement DEF PromotionInv, HttpInv
    <2>3. QED
      BY <2>1, <2>2, FS_Subset
  <1>3. ASSUME orders # {} PROVE \E m \in orders : \A o \in orders : o <= m
    <2>1. PICK p \in DOMAIN promotions : \A q \in DOMAIN promotions : order[q] <= order[p]
      BY <1>1, <1>2, <1>3, HighestOfFinite
    <2>2. promotions[p].order \in orders /\ \A o \in orders : o <= promotions[p].order
      BY <1>1, <2>1
    <2>3. QED
      BY <2>2
  <1>4. HighestOrder = 0 \/ HighestOrder \in orders
    BY <1>3 DEF HighestOrder
  <1>5. QED
    BY <1>1, <1>4

LEMMA StartKeepsPromotionTypes ==
    ASSUME PromotionInv, PromotionTyped, NEW r \in Requests, NEW j \in PromotionJobs, Starts(r, j),
           UNCHANGED promotions, PromotionWork(r)',
           \A update \in reorders' \ reorders :
              /\ update = <<r, update[2]>> /\ j.op = "reorder" /\ update[2] \in DOMAIN j.items
    PROVE  PromotionTyped'
  <1>1. HttpTypeOK'
    BY NothingIsNoPromotionJob, StartKeepsHttpTypes
       DEF PromotionInv, PromotionTyped, PromotionTypeOK
  <1>2. /\ Arrived' = Arrived \cup {r} /\ r \notin Arrived /\ job'[r] = j
        /\ \A q \in Arrived : job'[q] = job[q]
    BY StartFacts DEF Arrived, PromotionInv
  <1>3. \A q \in Arrived' : job'[q] \in PromotionJobs
    BY <1>2 DEF PromotionTyped
  <1>4. ASSUME NEW q \in Requests \ {r} PROVE PromotionWork(q)'
    BY <1>4, StartFacts DEF PromotionInv, PromotionTyped, PromotionWork, HeldRow
  <1>5. \A update \in reorders' :
           /\ update = <<update[1], update[2]>> /\ update[1] \in Arrived'
           /\ job'[update[1]].op = "reorder" /\ update[2] \in DOMAIN job'[update[1]].items
    BY <1>2 DEF PromotionTyped, PromotionTypeOK
  <1>6. QED
    BY <1>1, <1>3, <1>4, <1>5 DEF PromotionTyped, PromotionTypeOK

LEMMA GoKeepsPromotionTypes ==
    ASSUME PromotionInv, PromotionTyped, NEW r \in Requests, Goes(r) \/ UNCHANGED httpVars,
           reorders' \subseteq reorders, PromotionWork(r)',
           \A p \in DOMAIN promotions' : p \in Creators /\ promotions'[p] \in PromotionRows
    PROVE  PromotionTyped'
  <1>1. HttpTypeOK' /\ Arrived' = Arrived /\ job' = job
    <2>1. CASE Goes(r)
      BY <2>1, GoKeepsHttpTypes, GoKeepsHttpInv, GoFacts
         DEF PromotionInv, PromotionTyped, PromotionTypeOK
    <2>2. CASE UNCHANGED httpVars
      BY <2>2 DEF httpVars, PromotionTyped, PromotionTypeOK, HttpTypeOK, Answered, InProgress,
                  Arrived
    <2>3. QED
      BY <2>1, <2>2
  <1>2. ASSUME NEW q \in Requests \ {r} PROVE PromotionWork(q)'
    <2>1. pc'[q] = pc[q] /\ held'[q] = held[q]
      BY GoFacts DEF PromotionInv, httpVars
    <2>2. QED
      BY <1>1, <2>1 DEF PromotionTyped, PromotionWork, HeldRow
  <1>3. QED
    BY <1>1, <1>2 DEF PromotionTyped, PromotionTypeOK

LEMMA PromotionRequestTypes ==
    ASSUME PromotionInv, PromotionTyped, NEW r \in Requests, PromotionRequest(r)
    PROVE  PromotionTyped'
  <1> USE DEF Starts, Begin, Serve, Arrive, Answers, PromotionJobs, promotionTables
  <1>0. /\ KnownPromotions \subseteq Creators
        /\ \A p \in DOMAIN promotions : promotions[p] \in PromotionRows
    BY DEF KnownPromotions, Creators, PromotionTyped, PromotionTypeOK
  <1>1. ASSUME NEW dto \in Creations, CreatePromotion(r, dto) PROVE PromotionTyped'
    <2> DEFINE j == [op |-> "create", dto |-> dto]
    <2>1. j \in PromotionJobs /\ Starts(r, j) /\ UNCHANGED promotionTables
      BY <1>1 DEF CreatePromotion
    <2>2. pc'[r] \in {"findLast", "answered"}
      BY <1>1 DEF CreatePromotion, PromotionInv, HttpInv
    <2>3. PromotionWork(r)'
      BY <2>2 DEF PromotionWork
    <2>4. QED
      BY <2>1, <2>3, StartKeepsPromotionTypes
  <1>2. ASSUME NEW p \in KnownPromotions, Click(r, p) \/ DeletePromotion(r, p)
        PROVE  PromotionTyped'
    <2>1. PICK j \in [op : {"click", "delete"}, promotion : {p}] : Starts(r, j)
      BY <1>2 DEF Click, DeletePromotion
    <2>2. j \in PromotionJobs /\ UNCHANGED promotionTables
      BY <1>0, <1>2, <2>1 DEF Click, DeletePromotion
    <2>3. pc'[r] \in {"increment", "remove", "answered"}
      BY <1>2 DEF Click, DeletePromotion, PromotionInv, HttpInv
    <2>4. PromotionWork(r)'
      BY <2>3 DEF PromotionWork
    <2>5. QED
      BY <2>1, <2>2, <2>4, StartKeepsPromotionTypes
  <1>3. ASSUME NEW p \in KnownPromotions, NEW dto \in Updates, UpdatePromotion(r, p, dto)
        PROVE  PromotionTyped'
    <2> DEFINE j == [op |-> "update", promotion |-> p, dto |-> dto]
    <2>1. j \in PromotionJobs /\ Starts(r, j) /\ UNCHANGED promotionTables
      BY <1>0, <1>3 DEF UpdatePromotion
    <2>2. /\ pc'[r] \in {"load", "findIcon", "answered"} /\ job'[r] = j
          /\ pc'[r] # "answered" =>
                p \in DOMAIN promotions /\ held'[r] = Updated(promotions[p], dto)
      BY <1>3 DEF UpdatePromotion, Promotion, PromotionInv, HttpInv
    <2>3. p \in DOMAIN promotions => Updated(promotions[p], dto) \in PromotionRows
      <3>1. /\ dto.order # Nothing => dto.order \in Int
            /\ dto.active # Nothing => dto.active \in BOOLEAN
        BY PromotionConstants DEF UpdatePromotionDtos
      <3>2. QED
        BY <1>0, <3>1 DEF Updated, PromotionRows
    <2>4. PromotionWork(r)'
      BY <2>2, <2>3 DEF PromotionWork, HeldRow
    <2>5. QED
      BY <2>1, <2>4, StartKeepsPromotionTypes
  <1>4. ASSUME NEW p \in KnownPromotions, TogglePromotion(r, p) PROVE PromotionTyped'
    <2> DEFINE j == [op |-> "toggle", promotion |-> p]
    <2>1. j \in PromotionJobs /\ Starts(r, j) /\ UNCHANGED promotionTables
      BY <1>0, <1>4 DEF TogglePromotion
    <2>2. /\ pc'[r] \in {"load", "answered"} /\ job'[r] = j
          /\ pc'[r] # "answered" => p \in DOMAIN promotions /\ held'[r] = Inverted(promotions[p])
      BY <1>4 DEF TogglePromotion, Promotion, PromotionInv, HttpInv
    <2>3. p \in DOMAIN promotions => Inverted(promotions[p]) \in PromotionRows
      BY <1>0 DEF Inverted, PromotionRows
    <2>4. PromotionWork(r)'
      BY <2>2, <2>3 DEF PromotionWork, HeldRow
    <2>5. QED
      BY <2>1, <2>4, StartKeepsPromotionTypes
  <1>5. ASSUME NEW items \in Reorderings, Reorder(r, items) PROVE PromotionTyped'
    <2> DEFINE j == [op |-> "reorder", items |-> items]
    <2>1. j \in PromotionJobs /\ Starts(r, j) /\ UNCHANGED promotions
      BY <1>5 DEF Reorder
    <2>2. pc'[r] = "reordering"
      BY <1>5 DEF Reorder, PromotionInv, HttpInv
    <2>3. PromotionWork(r)'
      BY <2>2 DEF PromotionWork
    <2>4. reorders' \ reorders \subseteq {<<r, p>> : p \in DOMAIN items}
      BY <1>5 DEF Reorder
    <2>5. QED
      BY <2>1, <2>3, <2>4, StartKeepsPromotionTypes
  <1>6. QED
    BY <1>1, <1>2, <1>3, <1>4, <1>5 DEF PromotionRequest

LEMMA PromotionStepTypes ==
    ASSUME PromotionInv, PromotionTyped, NEW r \in Requests, PromotionStep(r)
    PROVE  PromotionTyped'
  <1> USE DEF Goes, Continue, Answer, Answers, At, InProgress, promotionTables
  <1>0. /\ \A p \in DOMAIN promotions : p \in Creators /\ promotions[p] \in PromotionRows
        /\ r \in Creators
    BY DEF Creators, PromotionTyped, PromotionTypeOK
  <1>1. CASE FindLast(r)
    <2>1. Goes(r) /\ UNCHANGED promotionTables
      BY <1>1 DEF FindLast
    <2>2. r \in Arrived /\ job[r] \in PromotionJobs /\ job[r].op = "create"
      BY <1>1 DEF FindLast, PromotionTyped, Arrived
    <2>3. job[r].dto \in CreatePromotionDtos
      BY <2>2, PromotionConstants DEF PromotionJobs
    <2>4. pc'[r] = "insert" /\ job' = job /\ held'[r].order \in Int
      BY <1>1, <2>3, HighestOrderIsNumber DEF FindLast, PromotionInv, HttpInv, CreatePromotionDtos
    <2>5. PromotionWork(r)'
      BY <2>2, <2>4 DEF PromotionWork
    <2>6. QED
      BY <1>0, <2>1, <2>5, GoKeepsPromotionTypes
  <1>2. CASE FindIcon(r) \/ LoadPromotion(r)
    <2>1. Goes(r) /\ UNCHANGED promotionTables
      BY <1>2 DEF FindIcon, LoadPromotion
    <2>2. /\ job' = job /\ job[r].op \in {"update", "toggle"}
          /\ pc'[r] \in {"answered", "load", "write"}
          /\ pc'[r] # "answered" => HeldRow(r)' = HeldRow(r) /\ pc[r] \in {"findIcon", "load"}
      BY <1>2 DEF FindIcon, LoadPromotion, SavesPromotion, HeldRow, PromotionInv, HttpInv
    <2>3. pc'[r] = "write" => held'[r].there \in BOOLEAN
      <3>1. pc'[r] = "write" =>
               held'[r] = [there |-> Promotion(job[r].promotion), entity |-> held[r],
                           dirty |-> IF Promotion(job[r].promotion)
                                        THEN Dirty(held[r], promotions[job[r].promotion]) ELSE {}]
        BY <1>2 DEF FindIcon, LoadPromotion, PromotionInv, HttpInv
      <3>2. pc'[r] = "write" => held'[r].there = (job[r].promotion \in DOMAIN promotions)
        BY <3>1 DEF Promotion
      <3>3. (job[r].promotion \in DOMAIN promotions) \in BOOLEAN
        OBVIOUS
      <3>4. QED
        BY <3>2, <3>3
    <2>4. PromotionWork(r)'
      BY <2>2, <2>3 DEF PromotionWork, PromotionTyped
    <2>5. QED
      BY <1>0, <2>1, <2>4, GoKeepsPromotionTypes
  <1>3. CASE Increment(r) \/ RemovePromotion(r) \/ FindAllReordered(r)
             \/ (StatementFails(r) /\ UNCHANGED promotionTables)
    <2>1. Goes(r) /\ pc'[r] = "answered" /\ UNCHANGED reorders
      BY <1>3 DEF Increment, RemovePromotion, FindAllReordered, StatementFails, PromotionInv, HttpInv
    <2>2. \A p \in DOMAIN promotions' : p \in Creators /\ promotions'[p] \in PromotionRows
      <3>1. CASE Increment(r)
        BY <1>0, <3>1 DEF Increment, PromotionRows
      <3>2. CASE RemovePromotion(r)
        BY <1>0, <3>2 DEF RemovePromotion
      <3>3. QED
        BY <1>0, <1>3, <3>1, <3>2 DEF FindAllReordered
    <2>3. PromotionWork(r)'
      BY <2>1 DEF PromotionWork
    <2>4. QED
      BY <2>1, <2>2, <2>3, GoKeepsPromotionTypes
  <1>4. CASE InsertPromotion(r)
    <2> DEFINE row == [order |-> held[r].order, active |-> job[r].dto.active, clicks |-> 0]
    <2>1. Goes(r) /\ pc'[r] = "answered" /\ UNCHANGED reorders
      BY <1>4 DEF InsertPromotion, PromotionInv, HttpInv
    <2>2. r \in Arrived /\ job[r] \in PromotionJobs /\ job[r].op = "create"
      BY <1>4 DEF InsertPromotion, PromotionTyped, Arrived
    <2>3. job[r].dto \in CreatePromotionDtos
      BY <2>2, PromotionConstants DEF PromotionJobs
    <2>4. row \in PromotionRows
      BY <1>4, <2>3 DEF InsertPromotion, PromotionTyped, PromotionWork, PromotionRows,
                        CreatePromotionDtos
    <2>5. \A p \in DOMAIN promotions' : p \in Creators /\ promotions'[p] \in PromotionRows
      BY <1>0, <1>4, <2>4 DEF InsertPromotion, PutPromotion
    <2>6. PromotionWork(r)'
      BY <2>1 DEF PromotionWork
    <2>7. QED
      BY <2>1, <2>5, <2>6, GoKeepsPromotionTypes
  <1>5. CASE WritePromotion(r)
    <2> DEFINE p == job[r].promotion
               row == held[r].entity
    <2>1. Goes(r) /\ pc'[r] = "answered" /\ UNCHANGED reorders
      BY <1>5 DEF WritePromotion, PromotionInv, HttpInv
    <2>2. row \in PromotionRows
      BY <1>5 DEF WritePromotion, PromotionTyped, PromotionWork, HeldRow
    <2>3. p \in Creators
      <3>1. r \in Arrived /\ job[r] \in PromotionJobs /\ job[r].op \in {"update", "toggle"}
        BY <1>5 DEF WritePromotion, SavesPromotion, PromotionTyped, Arrived
      <3>2. QED
        BY <3>1 DEF PromotionJobs
    <2>4. p \in DOMAIN promotions => Merge(promotions[p], row, held[r].dirty) \in PromotionRows
      BY <1>0, <2>2 DEF Merge, PromotionRows
    <2>5. \/ UNCHANGED promotions \/ PutPromotion(p, row)
          \/ p \in DOMAIN promotions /\ PutPromotion(p, Merge(promotions[p], row, held[r].dirty))
      BY <1>5 DEF WritePromotion, Promotion
    <2>6. \A q \in DOMAIN promotions' : q \in Creators /\ promotions'[q] \in PromotionRows
      BY <1>0, <2>2, <2>3, <2>4, <2>5 DEF PutPromotion
    <2>7. PromotionWork(r)'
      BY <2>1 DEF PromotionWork
    <2>8. QED
      BY <2>1, <2>6, <2>7, GoKeepsPromotionTypes
  <1>6. ASSUME NEW p, ReorderOne(r, p) PROVE PromotionTyped'
    <2>1. UNCHANGED httpVars /\ reorders' \subseteq reorders /\ <<r, p>> \in reorders
      BY <1>6 DEF ReorderOne
    <2>2. r \in Arrived /\ job[r].op = "reorder" /\ p \in DOMAIN job[r].items
      BY <2>1 DEF PromotionTyped, PromotionTypeOK
    <2>3. job[r].items \in Reorderings
      BY <2>2 DEF PromotionTyped, PromotionJobs
    <2>4. job[r].items[p] \in Int
      BY <2>2, <2>3, PromotionConstants DEF ReorderItems
    <2>5. \A q \in DOMAIN promotions' : q \in Creators /\ promotions'[q] \in PromotionRows
      BY <1>0, <1>6, <2>4 DEF ReorderOne, PromotionRows
    <2>6. PromotionWork(r)'
      BY <2>1 DEF PromotionWork, HeldRow, PromotionTyped, httpVars
    <2>7. QED
      BY <2>1, <2>5, <2>6, GoKeepsPromotionTypes
  <1>7. ASSUME NEW p, ReorderOneFails(r, p) PROVE PromotionTyped'
    <2>1. /\ (Goes(r) /\ pc'[r] = "answered") \/ UNCHANGED httpVars
          /\ reorders' \subseteq reorders /\ UNCHANGED promotions
      BY <1>7 DEF ReorderOneFails, PromotionInv, HttpInv
    <2>2. PromotionWork(r)'
      BY <2>1 DEF PromotionWork, HeldRow, PromotionTyped, httpVars
    <2>3. QED
      BY <1>0, <2>1, <2>2, GoKeepsPromotionTypes
  <1>8. QED
    BY <1>1, <1>2, <1>3, <1>4, <1>5, <1>6, <1>7 DEF PromotionStep

LEMMA PromotionsTyped == PromotionSpec => []PromotionTyped
  <1>1. PromotionInit => PromotionTyped
    <2> SUFFICES ASSUME PromotionInit PROVE PromotionTyped
      OBVIOUS
    <2>1. HttpTypeOK
      BY HttpTypesStart DEF PromotionInit
    <2>2. Arrived = {} /\ \A r \in Requests : pc[r] = "idle"
      BY DEF PromotionInit, HttpInit, Arrived
    <2>3. DOMAIN promotions = {Nobody} /\ promotions[Nobody] \in PromotionRows /\ reorders = {}
      BY DEF PromotionInit, PromotionTablesSeeded, PromotionRows
    <2>4. QED
      BY <2>1, <2>2, <2>3 DEF PromotionTyped, PromotionTypeOK, PromotionWork, Creators
  <1>2. PromotionInv /\ PromotionTyped /\ [PromotionNext]_promotionVars => PromotionTyped'
    <2>1. PromotionTyped /\ UNCHANGED promotionVars => PromotionTyped'
      BY DEF promotionVars, promotionTables, httpVars, PromotionTyped, PromotionTypeOK,
             HttpTypeOK, Arrived, Answered, InProgress, PromotionWork, HeldRow
    <2>2. QED
      BY <2>1, PromotionRequestTypes, PromotionStepTypes DEF PromotionNext
  <1>3. QED
    BY <1>1, <1>2, PromotionInitInv, PromotionNextInv, PTL DEF PromotionSpec

\* Promotions are of their types, and every UPDATE that a reorder has under way is of a
\* promotion in its list.
THEOREM PromotionsTypeCorrect == PromotionSpec => []PromotionTypeOK
  <1>1. PromotionTyped => PromotionTypeOK
    BY DEF PromotionTyped
  <1>2. QED
    BY <1>1, PromotionsTyped, PTL
-----------------------------------------------------------------------------
(* Promotions: what the steps do to the rows.                              *)

SaveOps == {"update", "toggle"}

\* The row that a save will write, from the row it reads.
Asked(j, row) == IF j.op = "toggle" THEN Inverted(row) ELSE Updated(row, j.dto)

\* A request that arrives writes nothing; a save holds the row it found, changed as it
\* was asked to, and a reorder sends its UPDATEs.
PromotionStarted(r, j) ==
    /\ Starts(r, j) /\ j \in PromotionJobs /\ UNCHANGED promotions
    /\ answer'[r] # "ok" /\ pc'[r] # "write"
    /\ j.op \in OnePromotion => j.promotion \in KnownPromotions
    /\ IF j.op = "reorder"
          THEN pc'[r] = "reordering" /\ reorders' = reorders \cup {<<r, p>> : p \in DOMAIN j.items}
          ELSE pc'[r] # "reordering" /\ reorders' = reorders
    /\ (j.op \in SaveOps /\ pc'[r] # "answered") =>
          j.promotion \in DOMAIN promotions /\ held'[r] = Asked(j, promotions[j.promotion])

\* The save's UPDATE or INSERT comes to the row.
Written(r, p) ==
    /\ pc[r] = "write" /\ job[r].op \in SaveOps /\ job[r].promotion = p /\ answer'[r] = "ok"
    /\ IF held[r].there
          THEN /\ p \in DOMAIN promotions
               /\ promotions'[p] = Merge(promotions[p], held[r].entity, held[r].dirty)
          ELSE p \notin DOMAIN promotions /\ promotions'[p] = held[r].entity

\* A later step of a request writes its own row at most, and a save goes from its load to
\* its write with the row it holds.
PromotionWent(r) ==
    /\ Goes(r)
    /\ \A p \in DOMAIN promotions' :
          \/ /\ p \in DOMAIN promotions
             /\ promotions'[p].order = promotions[p].order
             /\ promotions'[p].active = promotions[p].active
          \/ /\ p = r /\ pc[r] = "insert" /\ job[r].op = "create"
             /\ promotions'[p].active = job[r].dto.active
          \/ Written(r, p)
    /\ \A p \in DOMAIN promotions \ DOMAIN promotions' :
          job[r].op = "delete" /\ p = job[r].promotion
    /\ (job[r].op = "delete" /\ answer'[r] = "ok") => job[r].promotion \notin DOMAIN promotions'
    /\ (job[r].op \in SaveOps /\ answer'[r] = "ok") =>
          /\ pc[r] = "write"
          /\ job[r].promotion \in DOMAIN promotions' => Written(r, job[r].promotion)
    /\ (job[r].op \in SaveOps /\ pc'[r] # "answered") =>
          /\ HeldRow(r)' = HeldRow(r) /\ pc[r] # "write"
          /\ pc'[r] = "write" =>
                LET p == job[r].promotion
                IN  /\ pc[r] = "load"
                    /\ IF p \in DOMAIN promotions
                          THEN held'[r].there /\ held'[r].dirty = Dirty(HeldRow(r), promotions[p])
                          ELSE ~held'[r].there
    /\ IF job[r].op = "reorder"
          THEN /\ pc'[r] = "answered" /\ reorders' \subseteq reorders
               /\ answer'[r] \in {"ok", "error"}
               /\ \A u \in reorders \ reorders' : u[1] = r /\ answer'[r] = "error"
               /\ answer'[r] = "ok" =>
                     \A p \in DOMAIN job[r].items : <<r, p>> \notin reorders
          ELSE reorders' = reorders

\* An UPDATE of a reorder comes to the row or is lost after its request was answered.
PromotionReordered(r, p) ==
    /\ UNCHANGED httpVars
    /\ <<r, p>> \in reorders /\ reorders' = reorders \ {<<r, p>>}
    /\ DOMAIN promotions' = DOMAIN promotions
    /\ \A q \in DOMAIN promotions :
          /\ promotions'[q].active = promotions[q].active
          /\ q # p => promotions'[q].order = promotions[q].order
    /\ \/ p \in DOMAIN promotions => promotions'[p].order = job[r].items[p]
       \/ ~InProgress(r) /\ promotions' = promotions

LEMMA PromotionStarts ==
    ASSUME PromotionInv, PromotionTyped, NEW r \in Requests, PromotionRequest(r)
    PROVE  \E j : PromotionStarted(r, j)
  <1> USE DEF Starts, Begin, Serve, Arrive, Answers, PromotionJobs, promotionTables, SaveOps
  <1>0. answer[r] # "ok" \/ pc[r] # "idle"
    BY DEF PromotionInv, HttpInv
  <1>1. ASSUME NEW dto \in Creations, CreatePromotion(r, dto) PROVE \E j : PromotionStarted(r, j)
    <2> DEFINE j == [op |-> "create", dto |-> dto]
    <2>1. Starts(r, j) /\ j \in PromotionJobs /\ UNCHANGED promotionTables
      BY <1>1 DEF CreatePromotion
    <2>2. answer'[r] # "ok" /\ pc'[r] \in {"findLast", "answered"}
      BY <1>0, <1>1 DEF CreatePromotion, PromotionInv, HttpInv
    <2>3. j.op = "create" /\ j.op \notin OnePromotion
      BY DEF OnePromotion
    <2> HIDE DEF j
    <2>4. QED
      BY <2>1, <2>2, <2>3 DEF PromotionStarted
  <1>2. ASSUME NEW p \in KnownPromotions, Click(r, p) \/ DeletePromotion(r, p)
        PROVE  \E j : PromotionStarted(r, j)
    <2>1. PICK j \in [op : {"click", "delete"}, promotion : {p}] : Starts(r, j)
      BY <1>2 DEF Click, DeletePromotion
    <2>2. j \in PromotionJobs /\ UNCHANGED promotionTables
      BY <1>2, <2>1 DEF Click, DeletePromotion, KnownPromotions, PromotionTyped, PromotionTypeOK,
                        Creators
    <2>3. answer'[r] # "ok" /\ pc'[r] \in {"increment", "remove", "answered"}
      BY <1>0, <1>2 DEF Click, DeletePromotion, PromotionInv, HttpInv
    <2>4. j.promotion \in KnownPromotions /\ j.op \in {"click", "delete"}
      BY <2>1
    <2>5. QED
      BY <2>1, <2>2, <2>3, <2>4 DEF PromotionStarted
  <1>3. ASSUME NEW p \in KnownPromotions, NEW dto \in Updates, UpdatePromotion(r, p, dto)
        PROVE  \E j : PromotionStarted(r, j)
    <2> DEFINE j == [op |-> "update", promotion |-> p, dto |-> dto]
    <2>1. Starts(r, j) /\ j \in PromotionJobs /\ UNCHANGED promotionTables
      BY <1>3 DEF UpdatePromotion, KnownPromotions, PromotionTyped, PromotionTypeOK, Creators
    <2>2. /\ answer'[r] # "ok" /\ pc'[r] \in {"load", "findIcon", "answered"}
          /\ pc'[r] # "answered" =>
                p \in DOMAIN promotions /\ held'[r] = Updated(promotions[p], dto)
      BY <1>0, <1>3 DEF UpdatePromotion, Promotion, PromotionInv, HttpInv
    <2>3. j.op = "update" /\ j.promotion = p /\ j.dto = dto
      OBVIOUS
    <2> HIDE DEF j
    <2>4. QED
      BY <2>1, <2>2, <2>3 DEF PromotionStarted, Asked
  <1>4. ASSUME NEW p \in KnownPromotions, TogglePromotion(r, p) PROVE \E j : PromotionStarted(r, j)
    <2> DEFINE j == [op |-> "toggle", promotion |-> p]
    <2>1. Starts(r, j) /\ j \in PromotionJobs /\ UNCHANGED promotionTables
      BY <1>4 DEF TogglePromotion, KnownPromotions, PromotionTyped, PromotionTypeOK, Creators
    <2>2. /\ answer'[r] # "ok" /\ pc'[r] \in {"load", "answered"}
          /\ pc'[r] # "answered" => p \in DOMAIN promotions /\ held'[r] = Inverted(promotions[p])
      BY <1>0, <1>4 DEF TogglePromotion, Promotion, PromotionInv, HttpInv
    <2>3. j.op = "toggle" /\ j.promotion = p
      OBVIOUS
    <2> HIDE DEF j
    <2>4. QED
      BY <2>1, <2>2, <2>3 DEF PromotionStarted, Asked
  <1>5. ASSUME NEW items \in Reorderings, Reorder(r, items) PROVE \E j : PromotionStarted(r, j)
    <2> DEFINE j == [op |-> "reorder", items |-> items]
    <2>1. Starts(r, j) /\ j \in PromotionJobs /\ UNCHANGED promotions
      BY <1>5 DEF Reorder
    <2>2. answer'[r] # "ok" /\ pc'[r] = "reordering"
      BY <1>0, <1>5 DEF Reorder, PromotionInv, HttpInv
    <2>3. reorders' = reorders \cup {<<r, p>> : p \in DOMAIN items}
      BY <1>5 DEF Reorder
    <2>4. j.op = "reorder" /\ j.items = items /\ j.op \notin OnePromotion
      BY DEF OnePromotion
    <2> HIDE DEF j
    <2>5. QED
      BY <2>1, <2>2, <2>3, <2>4 DEF PromotionStarted
  <1>6. QED
    BY <1>1, <1>2, <1>3, <1>4, <1>5 DEF PromotionRequest
\* A row that is not written is there, with its order and state, or was deleted.
LEMMA PromotionsRest ==
    ASSUME NEW r \in Requests, UNCHANGED promotions
    PROVE  /\ \A p \in DOMAIN promotions' :
                 /\ p \in DOMAIN promotions
                 /\ promotions'[p].order = promotions[p].order
                 /\ promotions'[p].active = promotions[p].active
           /\ DOMAIN promotions \ DOMAIN promotions' = {}
  OBVIOUS

LEMMA PromotionGoes ==
    ASSUME PromotionInv, PromotionTyped, NEW r \in Requests, PromotionStep(r)
    PROVE  PromotionWent(r) \/ \E p : PromotionReordered(r, p)
  <1> USE DEF Goes, Continue, Answer, Answers, At, InProgress, promotionTables, SaveOps
  <1>1. CASE FindLast(r)
    <2>1. Goes(r) /\ UNCHANGED promotionTables /\ job[r].op = "create"
          /\ pc'[r] = "insert" /\ answer'[r] # "ok"
      BY <1>1 DEF FindLast, PromotionInv, HttpInv
    <2>2. QED
      BY <2>1, PromotionsRest DEF PromotionWent
  <1>2. CASE FindIcon(r)
    <2>1. /\ Goes(r) /\ UNCHANGED promotionTables /\ job[r].op = "update" /\ pc[r] = "findIcon"
          /\ pc'[r] \in {"load", "answered"} /\ answer'[r] # "ok"
          /\ pc'[r] = "load" => held'[r] = held[r]
      BY <1>2 DEF FindIcon, PromotionInv, HttpInv
    <2>2. pc'[r] # "answered" => HeldRow(r)' = HeldRow(r)
      BY <2>1 DEF HeldRow
    <2>3. QED
      BY <2>1, <2>2, PromotionsRest DEF PromotionWent
  <1>3. CASE LoadPromotion(r)
    <2> DEFINE p == job[r].promotion
    <2>1. Goes(r) /\ UNCHANGED promotionTables /\ job[r].op \in SaveOps /\ pc[r] = "load"
          /\ pc'[r] = "write" /\ answer'[r] # "ok"
          /\ held'[r] = [there |-> Promotion(p), entity |-> held[r],
                         dirty |-> IF Promotion(p) THEN Dirty(held[r], promotions[p]) ELSE {}]
      BY <1>3 DEF LoadPromotion, SavesPromotion, PromotionInv, HttpInv
    <2>2. HeldRow(r) = held[r] /\ HeldRow(r)' = held[r]
      BY <2>1 DEF HeldRow
    <2>3. IF p \in DOMAIN promotions
             THEN held'[r].there /\ held'[r].dirty = Dirty(HeldRow(r), promotions[p])
             ELSE ~held'[r].there
      <3>1. held'[r].there = (p \in DOMAIN promotions)
        BY <2>1 DEF Promotion
      <3>2. held'[r].dirty = IF p \in DOMAIN promotions THEN Dirty(held[r], promotions[p]) ELSE {}
        BY <2>1 DEF Promotion
      <3>3. QED
        BY <2>2, <3>1, <3>2
    <2>4. QED
      BY <2>1, <2>2, <2>3, PromotionsRest DEF PromotionWent
  <1>4. CASE Increment(r)
    <2>1. Goes(r) /\ UNCHANGED reorders /\ job[r].op = "click"
      <3>1. Goes(r)
        BY <1>4 DEF Increment
      <3>2. QED
        BY <1>4, <3>1 DEF Increment
    <2>2. /\ DOMAIN promotions' = DOMAIN promotions
          /\ \A p \in DOMAIN promotions :
                /\ promotions'[p].order = promotions[p].order
                /\ promotions'[p].active = promotions[p].active
      BY <1>4 DEF Increment, PromotionInv, IsRow
    <2>3. QED
      BY <2>1, <2>2 DEF PromotionWent
  <1>5. CASE RemovePromotion(r)
    <2>1. Goes(r) /\ UNCHANGED reorders /\ job[r].op = "delete"
      <3>1. Goes(r)
        BY <1>5 DEF RemovePromotion
      <3>2. QED
        BY <1>5, <3>1 DEF RemovePromotion
    <2>2. /\ DOMAIN promotions' = DOMAIN promotions \ {job[r].promotion}
          /\ \A p \in DOMAIN promotions' : promotions'[p] = promotions[p]
      BY <1>5 DEF RemovePromotion
    <2>3. QED
      BY <2>1, <2>2 DEF PromotionWent
  <1>6. CASE FindAllReordered(r)
    <2>1. Goes(r) /\ UNCHANGED promotionTables /\ job[r].op = "reorder" /\ pc'[r] = "answered"
          /\ answer'[r] = "ok" /\ \A p \in DOMAIN job[r].items : <<r, p>> \notin reorders
      BY <1>6 DEF FindAllReordered, PromotionInv, HttpInv
    <2>2. QED
      BY <2>1, PromotionsRest DEF PromotionWent
  <1>7. CASE StatementFails(r) /\ UNCHANGED promotionTables
    <2>1. Goes(r) /\ UNCHANGED promotionTables /\ pc'[r] = "answered" /\ answer'[r] = "error"
      BY <1>7 DEF StatementFails, PromotionInv, HttpInv
    <2>2. QED
      BY <2>1, PromotionsRest DEF PromotionWent
  <1>8. CASE InsertPromotion(r)
    <2>1. Goes(r) /\ UNCHANGED reorders /\ job[r].op = "create" /\ pc[r] = "insert"
      <3>1. Goes(r)
        BY <1>8 DEF InsertPromotion
      <3>2. QED
        BY <1>8, <3>1 DEF InsertPromotion
    <2>2. /\ DOMAIN promotions' = DOMAIN promotions \cup {r}
          /\ \A p \in DOMAIN promotions \ {r} : promotions'[p] = promotions[p]
          /\ promotions'[r].active = job[r].dto.active
      BY <1>8 DEF InsertPromotion, PutPromotion
    <2>3. QED
      BY <2>1, <2>2 DEF PromotionWent
  <1>9. CASE WritePromotion(r)
    <2> DEFINE p == job[r].promotion
    <2>1. Goes(r) /\ UNCHANGED reorders /\ job[r].op \in SaveOps /\ pc[r] = "write"
          /\ pc'[r] = "answered"
      <3> HIDE DEF Answer
      <3>1. pc[r] = "write" /\ (Answer(r, "ok") \/ Answer(r, "error"))
        BY <1>9 DEF WritePromotion
      <3>2. Goes(r)
        BY <3>1
      <3>3. pc'[r] = "answered"
        BY <3>1 DEF Answer, PromotionInv, HttpInv
      <3>4. QED
        BY <1>9, <3>2, <3>3 DEF WritePromotion, SavesPromotion
    <2>2. \/ /\ ~held[r].there /\ p \notin DOMAIN promotions /\ answer'[r] = "ok"
             /\ PutPromotion(p, held[r].entity)
          \/ /\ held[r].there /\ p \in DOMAIN promotions /\ answer'[r] = "ok"
             /\ PutPromotion(p, Merge(promotions[p], held[r].entity, held[r].dirty))
          \/ held[r].there /\ p \notin DOMAIN promotions /\ UNCHANGED promotions
          \/ /\ ~held[r].there /\ p \in DOMAIN promotions /\ UNCHANGED promotions
             /\ answer'[r] = "error"
      <3>1. DOMAIN answer = Requests
        BY DEF PromotionInv, HttpInv
      <3> DEFINE fails == ~held[r].there /\ Promotion(p)
      <3>2. answer'[r] = IF fails THEN "error" ELSE "ok"
        BY <1>9, <3>1 DEF WritePromotion
      <3>3. \/ ~held[r].there /\ ~Promotion(p) /\ PutPromotion(p, held[r].entity)
            \/ /\ held[r].there /\ Promotion(p)
               /\ PutPromotion(p, Merge(promotions[p], held[r].entity, held[r].dirty))
            \/ (held[r].there <=> ~Promotion(p)) /\ UNCHANGED promotions
        BY <1>9 DEF WritePromotion
      <3>4. held[r].there \in BOOLEAN
        BY <2>1 DEF PromotionTyped, PromotionWork
      <3>5. CASE held[r].there = TRUE
        BY <3>2, <3>3, <3>5 DEF Promotion
      <3>6. CASE held[r].there = FALSE
        BY <3>2, <3>3, <3>6 DEF Promotion
      <3>7. QED
        BY <3>4, <3>5, <3>6
    <2>3. CASE \/ /\ ~held[r].there /\ p \notin DOMAIN promotions /\ answer'[r] = "ok"
                  /\ PutPromotion(p, held[r].entity)
               \/ /\ held[r].there /\ p \in DOMAIN promotions /\ answer'[r] = "ok"
                  /\ PutPromotion(p, Merge(promotions[p], held[r].entity, held[r].dirty))
      <3>1. /\ DOMAIN promotions' = DOMAIN promotions \cup {p}
            /\ \A q \in DOMAIN promotions \ {p} : promotions'[q] = promotions[q]
            /\ IF held[r].there
                  THEN /\ p \in DOMAIN promotions
                       /\ promotions'[p] = Merge(promotions[p], held[r].entity, held[r].dirty)
                  ELSE p \notin DOMAIN promotions /\ promotions'[p] = held[r].entity
        BY <2>3 DEF PutPromotion
      <3>2. Written(r, p)
        BY <2>1, <2>3, <3>1 DEF Written
      <3>3. QED
        BY <2>1, <3>1, <3>2 DEF PromotionWent
    <2>4. CASE held[r].there /\ p \notin DOMAIN promotions /\ UNCHANGED promotions
      BY <2>1, <2>4, PromotionsRest DEF PromotionWent
    <2>5. CASE /\ ~held[r].there /\ p \in DOMAIN promotions /\ UNCHANGED promotions
               /\ answer'[r] = "error"
      BY <2>1, <2>5, PromotionsRest DEF PromotionWent
    <2>6. QED
      BY <2>2, <2>3, <2>4, <2>5
  <1>10. ASSUME NEW p, ReorderOne(r, p) PROVE PromotionReordered(r, p)
    <2>1. /\ DOMAIN promotions' = DOMAIN promotions
          /\ \A q \in DOMAIN promotions :
                /\ promotions'[q].active = promotions[q].active
                /\ q # p => promotions'[q].order = promotions[q].order
                /\ q = p => promotions'[q].order = job[r].items[p]
      BY <1>10 DEF ReorderOne, PromotionInv, IsRow
    <2>2. QED
      BY <1>10, <2>1 DEF ReorderOne, PromotionReordered
  <1>11. ASSUME NEW p, ReorderOneFails(r, p) PROVE PromotionWent(r) \/ PromotionReordered(r, p)
    <2>1. CASE InProgress(r)
      <3>1. Goes(r) /\ UNCHANGED promotions /\ pc'[r] = "answered" /\ answer'[r] = "error"
            /\ reorders' = reorders \ {<<r, p>>} /\ <<r, p>> \in reorders
        BY <1>11, <2>1 DEF ReorderOneFails, PromotionInv, HttpInv
      <3>2. job[r].op = "reorder"
        BY <3>1 DEF PromotionTyped, PromotionTypeOK
      <3>3. QED
        BY <3>1, <3>2, PromotionsRest DEF PromotionWent
    <2>2. CASE ~InProgress(r)
      BY <1>11, <2>2 DEF ReorderOneFails, PromotionReordered
    <2>3. QED
      BY <2>1, <2>2
  <1>12. QED
    BY <1>1, <1>2, <1>3, <1>4, <1>5, <1>6, <1>7, <1>8, <1>9, <1>10, <1>11 DEF PromotionStep
-----------------------------------------------------------------------------
(* Promotions: what was deleted, toggled and ordered.                      *)

\* What explains that a deleted promotion, its state or its order is not as expected.
DeletionExcused(d, p) == \E s \in SavesOf(p) : Overlap(d, s)

ToggleExcused(p) ==
    \/ \E s, t \in SavesOf(p) : Overlap(s, t)
    \/ \E s \in SavesOf(p) : job[s].op = "update" /\ job[s].dto.active # Nothing
    \/ \E d \in DeletesOf(p), s \in SavesOf(p) : Overlap(d, s)

OrderExcused(p, r) ==
    \/ p \in Requests /\ p \notin earlier[r]
    \/ \E q \in SavesOf(p) : Overlap(q, r)
    \/ \E q \in SavesOf(p) :
          r \in earlier[q] /\ job[q].op = "update" /\ job[q].dto.order # Nothing
    \/ \E q \in Reordering(p) : Overlap(q, r) \/ r \in earlier[q] \/ answer[q] = "error"

\* A deleted promotion is there, or about to be saved, only with such an excuse.
DeletedPromotions ==
    \A p \in Creators : \A d \in DeletesOf(p) :
       (Succeeded(d) /\ (p \in DOMAIN promotions \/ \E s \in SavesOf(p) : InProgress(s))) =>
          DeletionExcused(d, p)

\* The state a promotion has by the toggles that were counted.
CountedToggles(p) == {s \in SavesOf(p) : job[s].op = "toggle" /\ Succeeded(s)}

Wanted(p) == (p = Nobody \/ job[p].dto.active) <=> Cardinality(CountedToggles(p)) % 2 = 0

\* The row has that state, and a save under way holds it, or its inverse.
TogglesAgree ==
    \A p \in Creators : ToggleExcused(p) \/
       /\ p \in DOMAIN promotions => (promotions[p].active <=> Wanted(p))
       /\ \A s \in SavesOf(p) : InProgress(s) =>
             /\ p \in DOMAIN promotions
             /\ HeldRow(s).active <=> (job[s].op = "toggle" <=> ~Wanted(p))
             /\ pc[s] = "write" =>
                   /\ held[s].there
                   /\ \/ "active" \in held[s].dirty
                      \/ HeldRow(s).active <=> promotions[p].active

\* A reorder that has come to the row has given it its order, and the saves under way
\* have read it; an UPDATE on its way belongs to a reorder that waits for it or has
\* failed.
ReordersAgree ==
    /\ \A u \in reorders : pc[u[1]] = "reordering" \/ answer[u[1]] = "error"
    /\ \A p \in Creators : \A r \in Reordering(p) :
          <<r, p>> \in reorders \/ OrderExcused(p, r) \/
             /\ p \in DOMAIN promotions => promotions[p].order = job[r].items[p]
             /\ \A s \in SavesOf(p) : InProgress(s) => HeldRow(s).order = job[r].items[p]

PromotionHistory ==
    PromotionInv /\ PromotionTyped /\ DeletedPromotions /\ TogglesAgree /\ ReordersAgree

\* Excuses stand.
LEMMA ExcusesStand ==
    ASSUME ArrivedStay
    PROVE  /\ \A p : /\ SavesOf(p) \subseteq SavesOf(p)' /\ DeletesOf(p) \subseteq DeletesOf(p)'
                     /\ Reordering(p) \subseteq Reordering(p)'
           /\ \A d, p : DeletionExcused(d, p) => DeletionExcused(d, p)'
           /\ \A p : ToggleExcused(p) => ToggleExcused(p)'
           /\ \A p : \A r \in Arrived : OrderExcused(p, r) => OrderExcused(p, r)'
  <1>1. \A p : /\ SavesOf(p) \subseteq SavesOf(p)' /\ DeletesOf(p) \subseteq DeletesOf(p)'
               /\ Reordering(p) \subseteq Reordering(p)'
    BY DEF ArrivedStay, SavesOf, DeletesOf, Reordering, AsksOf, Arrived
  <1>2. \A p : /\ SavesOf(p) \subseteq Arrived /\ Reordering(p) \subseteq Arrived
    BY DEF SavesOf, Reordering, AsksOf, Arrived
  <1>3. \A d, p : DeletionExcused(d, p) => DeletionExcused(d, p)'
    BY <1>1 DEF ArrivedStay, DeletionExcused
  <1>4. \A p : ToggleExcused(p) => ToggleExcused(p)'
    <2> SUFFICES ASSUME NEW p, ToggleExcused(p) PROVE ToggleExcused(p)'
      OBVIOUS
    <2>1. CASE \E s, t \in SavesOf(p) : Overlap(s, t)
      BY <1>1, <2>1 DEF ArrivedStay, ToggleExcused
    <2>2. CASE \E s \in SavesOf(p) : job[s].op = "update" /\ job[s].dto.active # Nothing
      BY <1>1, <1>2, <2>2 DEF ArrivedStay, ToggleExcused
    <2>3. CASE \E d \in DeletesOf(p), s \in SavesOf(p) : Overlap(d, s)
      BY <1>1, <2>3 DEF ArrivedStay, ToggleExcused
    <2>4. QED
      BY <2>1, <2>2, <2>3 DEF ToggleExcused
  <1>5. ASSUME NEW p, NEW r \in Arrived, OrderExcused(p, r) PROVE OrderExcused(p, r)'
    <2>1. CASE p \in Requests /\ p \notin earlier[r]
      BY <2>1 DEF ArrivedStay, OrderExcused
    <2>2. CASE \E q \in SavesOf(p) : Overlap(q, r)
      BY <1>1, <2>2 DEF ArrivedStay, OrderExcused
    <2>3. CASE \E q \in SavesOf(p) :
                  r \in earlier[q] /\ job[q].op = "update" /\ job[q].dto.order # Nothing
      BY <1>1, <1>2, <2>3 DEF ArrivedStay, OrderExcused
    <2>4. CASE \E q \in Reordering(p) : Overlap(q, r) \/ r \in earlier[q] \/ answer[q] = "error"
      <3>1. PICK q \in Reordering(p) : Overlap(q, r) \/ r \in earlier[q] \/ answer[q] = "error"
        BY <2>4
      <3>2. q \in Reordering(p)' /\ (Overlap(q, r)' \/ r \in earlier'[q] \/ answer'[q] = "error")
        BY <1>1, <1>2, <3>1 DEF ArrivedStay
      <3>3. QED
        BY <3>2 DEF OrderExcused
    <2>5. QED
      BY <1>5, <2>1, <2>2, <2>3, <2>4 DEF OrderExcused
  <1>6. QED
    BY <1>1, <1>3, <1>4, <1>5

\* Who asks for what after a start: the others as before, and the newcomer for its
\* promotion, which has been there.
LEMMA NewcomersPromotion ==
    ASSUME PromotionInv, NEW r \in Requests, NEW j, PromotionStarted(r, j)
    PROVE  /\ HttpInv /\ ArrivedStay /\ UNCHANGED promotions /\ r \notin Arrived
           /\ pc'[r] # "idle" /\ job'[r] = j /\ r \in Requests
           /\ \A q \in Requests \ {r} :
                 /\ pc'[q] = pc[q] /\ job'[q] = job[q] /\ held'[q] = held[q]
                 /\ answer'[q] = answer[q] /\ earlier'[q] = earlier[q]
                 /\ InProgress(q)' <=> InProgress(q)
                 /\ HeldRow(q)' = HeldRow(q)
                 /\ Succeeded(q)' <=> Succeeded(q)
           /\ ~Succeeded(r)'
           /\ \A p : \A q \in Requests \ {r} :
                 /\ q \in SavesOf(p)' <=> q \in SavesOf(p)
                 /\ q \in DeletesOf(p)' <=> q \in DeletesOf(p)
                 /\ q \in Reordering(p)' <=> q \in Reordering(p)
           /\ \A p : r \in SavesOf(p)' => /\ j.op \in SaveOps /\ j.promotion = p
                                          /\ p \in KnownPromotions /\ p # r
           /\ \A p : r \in Reordering(p)' => j.op = "reorder" /\ p \in DOMAIN j.items
           /\ \A q \in Requests : InProgress(q) => Overlap(q, r)' /\ Overlap(r, q)'
           /\ \A p : SavesOf(p)' \cup DeletesOf(p)' \cup Reordering(p)' \subseteq Requests
  <1>1. HttpInv /\ ArrivedStay /\ UNCHANGED promotions /\ Starts(r, j)
    BY StepsLeaveArrived DEF PromotionInv, PromotionStarted
  <1>2. /\ pc[r] = "idle" /\ pc'[r] # "idle" /\ job'[r] = j
        /\ \A q \in Requests \ {r} :
              /\ pc'[q] = pc[q] /\ job'[q] = job[q] /\ held'[q] = held[q]
              /\ answer'[q] = answer[q] /\ earlier'[q] = earlier[q]
    BY <1>1, StartFacts
  <1>3. r \notin DOMAIN promotions /\ r # Nobody
    BY <1>2, RequestConstants DEF PromotionInv, Answered
  <1>4. \A q \in Requests : InProgress(q) => Overlap(q, r)' /\ Overlap(r, q)'
    BY <1>1, StartOverlaps
  <1>5. \A p : r \in SavesOf(p)' => /\ j.op \in SaveOps /\ j.promotion = p
                                    /\ p \in KnownPromotions /\ p # r
    BY <1>2, <1>3 DEF SavesOf, AsksOf, SaveOps, PromotionStarted, OnePromotion, KnownPromotions
  <1>6. \A p : \A q \in Requests \ {r} :
           /\ q \in SavesOf(p)' <=> q \in SavesOf(p)
           /\ q \in DeletesOf(p)' <=> q \in DeletesOf(p)
           /\ q \in Reordering(p)' <=> q \in Reordering(p)
    BY <1>2 DEF SavesOf, DeletesOf, Reordering, AsksOf
  <1>7. \A q \in Requests \ {r} :
           /\ InProgress(q)' <=> InProgress(q)
           /\ HeldRow(q)' = HeldRow(q)
           /\ Succeeded(q)' <=> Succeeded(q)
    BY <1>2 DEF InProgress, HeldRow, Succeeded
  <1>8. ~Succeeded(r)' /\ r \notin Arrived
    BY <1>2 DEF Succeeded, PromotionStarted, Arrived
  <1>9. \A p : r \in Reordering(p)' => j.op = "reorder" /\ p \in DOMAIN j.items
    BY <1>2 DEF Reordering
  <1>10. \A p : SavesOf(p)' \cup DeletesOf(p)' \cup Reordering(p)' \subseteq Requests
    BY DEF SavesOf, DeletesOf, Reordering
  <1>11. QED
    BY <1>1, <1>2, <1>4, <1>5, <1>6, <1>7, <1>8, <1>9, <1>10

LEMMA GoersPromotion ==
    ASSUME PromotionInv, NEW r \in Requests, PromotionWent(r)
    PROVE  /\ HttpInv /\ ArrivedStay /\ InProgress(r) /\ job' = job /\ earlier' = earlier
           /\ r \in Arrived /\ answer[r] = "none"
           /\ \A q \in Requests \ {r} :
                 /\ pc'[q] = pc[q] /\ held'[q] = held[q] /\ answer'[q] = answer[q]
                 /\ InProgress(q)' <=> InProgress(q)
                 /\ HeldRow(q)' = HeldRow(q)
                 /\ Succeeded(q)' <=> Succeeded(q)
           /\ \A p : /\ SavesOf(p)' = SavesOf(p) /\ DeletesOf(p)' = DeletesOf(p)
                     /\ Reordering(p)' = Reordering(p)
                     /\ SavesOf(p) \cup DeletesOf(p) \cup Reordering(p) \subseteq Requests
           /\ SavesOf(r) = {} /\ DeletesOf(r) = {}
           /\ \A q \in Requests \ {r} : InProgress(q) => Overlap(q, r) /\ Overlap(r, q)
           /\ \A p : /\ r \in SavesOf(p) <=> job[r].op \in SaveOps /\ job[r].promotion = p
                     /\ r \in DeletesOf(p) <=> job[r].op = "delete" /\ job[r].promotion = p
                     /\ r \in Reordering(p) => job[r].op = "reorder" /\ p \in DOMAIN job[r].items
  <1>1. HttpInv /\ ArrivedStay /\ Goes(r) /\ InProgress(r)
    BY StepsLeaveArrived DEF PromotionInv, PromotionWent, Goes
  <1>2. /\ pc[r] \notin {"idle", "answered"} /\ pc'[r] # "idle" /\ job' = job /\ earlier' = earlier
        /\ answer[r] = "none"
        /\ \A q \in Requests \ {r} :
              pc'[q] = pc[q] /\ held'[q] = held[q] /\ answer'[q] = answer[q]
    BY <1>1, GoFacts
  <1>3. \A p : /\ SavesOf(p)' = SavesOf(p) /\ DeletesOf(p)' = DeletesOf(p)
               /\ Reordering(p)' = Reordering(p)
               /\ SavesOf(p) \cup DeletesOf(p) \cup Reordering(p) \subseteq Requests
    BY <1>2 DEF SavesOf, DeletesOf, Reordering, AsksOf
  <1>4. r \notin Answered \cup {Nobody} /\ r \in Arrived
    BY <1>2, RequestConstants DEF Answered, Arrived
  <1>5. SavesOf(r) = {} /\ DeletesOf(r) = {}
    BY <1>4 DEF SavesOf, DeletesOf, AsksOf, PromotionInv, OnePromotion, Arrived
  <1>6. \A q \in Requests \ {r} : InProgress(q) => Overlap(q, r) /\ Overlap(r, q)
    BY <1>1, InProgressOverlap
  <1>7. \A q \in Requests \ {r} :
           /\ InProgress(q)' <=> InProgress(q)
           /\ HeldRow(q)' = HeldRow(q)
           /\ Succeeded(q)' <=> Succeeded(q)
    BY <1>2 DEF InProgress, HeldRow, Succeeded
  <1>8. \A p : /\ r \in SavesOf(p) <=> job[r].op \in SaveOps /\ job[r].promotion = p
               /\ r \in DeletesOf(p) <=> job[r].op = "delete" /\ job[r].promotion = p
               /\ r \in Reordering(p) => job[r].op = "reorder" /\ p \in DOMAIN job[r].items
    BY <1>2 DEF SavesOf, DeletesOf, Reordering, AsksOf, SaveOps
  <1>9. QED
    BY <1>1, <1>2, <1>3, <1>4, <1>5, <1>6, <1>7, <1>8
LEMMA StartKeepsDeletedPromotions ==
    ASSUME PromotionInv, DeletedPromotions, NEW r \in Requests, NEW j, PromotionStarted(r, j)
    PROVE  DeletedPromotions'
  <1>1. ASSUME NEW p \in Creators, NEW d \in DeletesOf(p)', Succeeded(d)',
               p \in DOMAIN promotions' \/ \E s \in SavesOf(p)' : InProgress(s)'
        PROVE  DeletionExcused(d, p)'
    <2>1. d \in DeletesOf(p) /\ Succeeded(d)
      BY <1>1, NewcomersPromotion
    <2>2. p \in DOMAIN promotions \/ \E s \in SavesOf(p) : InProgress(s)
      <3>1. CASE p \in DOMAIN promotions'
        BY <3>1, NewcomersPromotion
      <3>2. CASE \E s \in SavesOf(p)' \ {r} : InProgress(s)'
        BY <3>2, NewcomersPromotion
      <3>3. CASE r \in SavesOf(p)' /\ InProgress(r)'
        <4>1. j.op \in SaveOps /\ j.promotion = p /\ pc'[r] # "answered"
          BY <3>3, NewcomersPromotion DEF InProgress
        <4>2. QED
          BY <4>1 DEF PromotionStarted
      <3>4. QED
        BY <1>1, <3>1, <3>2, <3>3
    <2>3. DeletionExcused(d, p)
      BY <2>1, <2>2 DEF DeletedPromotions
    <2>4. QED
      BY <2>3, NewcomersPromotion, ExcusesStand
  <1>2. QED
    BY <1>1 DEF DeletedPromotions

LEMMA GoKeepsDeletedPromotions ==
    ASSUME PromotionInv, DeletedPromotions, NEW r \in Requests, PromotionWent(r)
    PROVE  DeletedPromotions'
  <1>1. ASSUME NEW p \in Creators, NEW d \in DeletesOf(p)', Succeeded(d)',
               p \in DOMAIN promotions' \/ \E s \in SavesOf(p)' : InProgress(s)'
        PROVE  DeletionExcused(d, p)'
    <2>1. d \in DeletesOf(p) /\ d \in Requests
      BY <1>1, GoersPromotion
    <2>2. DeletionExcused(d, p)
      <3>1. CASE d = r
        <4>1. job[r].op = "delete" /\ job[r].promotion = p /\ answer'[r] = "ok"
          BY <1>1, <2>1, <3>1, GoersPromotion DEF Succeeded
        <4>2. p \notin DOMAIN promotions'
          BY <4>1 DEF PromotionWent
        <4>3. PICK s \in SavesOf(p)' : InProgress(s)'
          BY <1>1, <4>2
        <4>4. s \in SavesOf(p) /\ s \in Requests \ {r} /\ InProgress(s)
          BY <4>1, <4>3, GoersPromotion DEF SaveOps
        <4>5. QED
          BY <3>1, <4>4, GoersPromotion DEF DeletionExcused
      <3>2. CASE d # r
        <4>1. Succeeded(d)
          BY <1>1, <2>1, <3>2, GoersPromotion
        <4>2. p \in DOMAIN promotions \/ \E s \in SavesOf(p) : InProgress(s)
          <5>1. ASSUME p \in DOMAIN promotions', p \notin DOMAIN promotions PROVE r \in SavesOf(p)
            <6>1. p # r
              BY <2>1, GoersPromotion
            <6>2. Written(r, p)
              BY <5>1, <6>1 DEF PromotionWent
            <6>3. QED
              BY <6>2, GoersPromotion DEF Written
          <5>2. \A s \in SavesOf(p)' : InProgress(s)' => s \in SavesOf(p) /\ InProgress(s)
            BY GoersPromotion
          <5>3. QED
            BY <1>1, <5>1, <5>2, GoersPromotion
        <4>3. QED
          BY <2>1, <4>1, <4>2 DEF DeletedPromotions
      <3>3. QED
        BY <3>1, <3>2
    <2>3. QED
      BY <2>2, GoersPromotion, ExcusesStand
  <1>2. QED
    BY <1>1 DEF DeletedPromotions

\* The state that the toggles ask for changes with a counted toggle only.
LEMMA StartKeepsWanted ==
    ASSUME PromotionInv, NEW r \in Requests, NEW j, PromotionStarted(r, j), NEW p,
           p \in Arrived \cup {Nobody}
    PROVE  Wanted(p)' <=> Wanted(p)
  <1>1. ASSUME NEW s PROVE s \in CountedToggles(p)' <=> s \in CountedToggles(p)
    <2>1. CASE s \in Requests \ {r}
      BY <2>1, NewcomersPromotion DEF CountedToggles
    <2>2. CASE s = r
      <3>1. r \notin SavesOf(p)
        BY NewcomersPromotion DEF SavesOf, AsksOf, Arrived
      <3>2. QED
        BY <2>2, <3>1, NewcomersPromotion DEF CountedToggles
    <2>3. CASE s \notin Requests
      BY <2>3 DEF CountedToggles, SavesOf
    <2>4. QED
      BY <2>1, <2>2, <2>3
  <1>2. CountedToggles(p)' = CountedToggles(p)
    BY <1>1
  <1>3. p # Nobody => job'[p] = job[p]
    BY NewcomersPromotion DEF ArrivedStay
  <1>4. QED
    BY <1>2, <1>3 DEF Wanted

LEMMA StartKeepsToggles ==
    ASSUME PromotionInv, PromotionTyped, TogglesAgree,
           NEW r \in Requests, NEW j, PromotionStarted(r, j)
    PROVE  TogglesAgree'
  <1> SUFFICES ASSUME NEW p \in Creators, ~ToggleExcused(p)'
               PROVE  /\ p \in DOMAIN promotions' => (promotions'[p].active <=> Wanted(p)')
                      /\ \A s \in SavesOf(p)' : InProgress(s)' =>
                            /\ p \in DOMAIN promotions'
                            /\ HeldRow(s)'.active <=> (job'[s].op = "toggle" <=> ~Wanted(p)')
                            /\ pc'[s] = "write" =>
                                  /\ held'[s].there
                                  /\ \/ "active" \in held'[s].dirty
                                     \/ HeldRow(s)'.active <=> promotions'[p].active
    BY DEF TogglesAgree
  <1>1. ~ToggleExcused(p) /\ UNCHANGED promotions
    BY NewcomersPromotion, ExcusesStand
  <1>2. p \in DOMAIN promotions => (promotions[p].active <=> Wanted(p))
    BY <1>1 DEF TogglesAgree
  <1>3. p \in DOMAIN promotions \/ SavesOf(p) # {} => p \in Arrived \cup {Nobody}
    BY DEF PromotionInv, Answered, Arrived, SavesOf, AsksOf, OnePromotion
  <1>4. p \in DOMAIN promotions \/ SavesOf(p) # {} => (Wanted(p)' <=> Wanted(p))
    BY <1>3, StartKeepsWanted
  <1>5. ASSUME NEW s \in SavesOf(p)', InProgress(s)', s # r
        PROVE  /\ p \in DOMAIN promotions'
               /\ HeldRow(s)'.active <=> (job'[s].op = "toggle" <=> ~Wanted(p)')
               /\ pc'[s] = "write" =>
                     /\ held'[s].there
                     /\ \/ "active" \in held'[s].dirty
                        \/ HeldRow(s)'.active <=> promotions'[p].active
    <2>1. /\ s \in SavesOf(p) /\ InProgress(s) /\ HeldRow(s)' = HeldRow(s)
          /\ job'[s] = job[s] /\ pc'[s] = pc[s] /\ held'[s] = held[s]
      BY <1>5, NewcomersPromotion
    <2>2. Wanted(p)' <=> Wanted(p)
      BY <1>4, <2>1
    <2>3. /\ p \in DOMAIN promotions
          /\ HeldRow(s).active <=> (job[s].op = "toggle" <=> ~Wanted(p))
          /\ pc[s] = "write" =>
                /\ held[s].there
                /\ \/ "active" \in held[s].dirty
                   \/ HeldRow(s).active <=> promotions[p].active
      BY <1>1, <2>1 DEF TogglesAgree
    <2>4. QED
      BY <1>1, <2>1, <2>2, <2>3
  <1>6. ASSUME r \in SavesOf(p)', InProgress(r)'
        PROVE  /\ p \in DOMAIN promotions'
               /\ HeldRow(r)'.active <=> (job'[r].op = "toggle" <=> ~Wanted(p)')
               /\ pc'[r] # "write"
    <2>1. j.op \in SaveOps /\ j.promotion = p /\ job'[r] = j /\ pc'[r] # "answered"
      BY <1>6, NewcomersPromotion DEF InProgress
    <2>2. p \in DOMAIN promotions /\ held'[r] = Asked(j, promotions[p]) /\ pc'[r] # "write"
      BY <2>1 DEF PromotionStarted
    <2>3. HeldRow(r)' = Asked(j, promotions[p])
      BY <2>2 DEF HeldRow
    <2>4. promotions[p] \in PromotionRows
      BY <2>2 DEF PromotionTyped, PromotionTypeOK
    <2>5. CASE j.op = "toggle"
      <3>1. Asked(j, promotions[p]).active <=> ~promotions[p].active
        BY <2>4, <2>5 DEF Asked, Inverted, PromotionRows
      <3>2. QED
        BY <1>1, <1>2, <1>4, <2>1, <2>2, <2>3, <2>5, <3>1
    <2>6. CASE j.op = "update"
      <3>1. j.dto.active = Nothing
        <4>1. job'[r].op = "update" /\ job'[r].dto.active # Nothing => ToggleExcused(p)'
          BY <1>6 DEF ToggleExcused
        <4>2. QED
          BY <2>1, <2>6, <4>1
      <3>2. Asked(j, promotions[p]).active = promotions[p].active
        BY <2>4, <2>6, <3>1 DEF Asked, Updated, PromotionRows
      <3>3. QED
        BY <1>1, <1>2, <1>4, <2>1, <2>2, <2>3, <2>6, <3>2
    <2>7. QED
      BY <2>1, <2>5, <2>6 DEF SaveOps
  <1>7. p \in DOMAIN promotions' => (promotions'[p].active <=> Wanted(p)')
    BY <1>1, <1>2, <1>4
  <1>8. QED
    BY <1>5, <1>6, <1>7
LEMMA GoKeepsToggles ==
    ASSUME PromotionInv, PromotionTyped, TogglesAgree, NEW r \in Requests, PromotionWent(r)
    PROVE  TogglesAgree'
  <1> SUFFICES ASSUME NEW p \in Creators, ~ToggleExcused(p)'
               PROVE  /\ p \in DOMAIN promotions' => (promotions'[p].active <=> Wanted(p)')
                      /\ \A s \in SavesOf(p)' : InProgress(s)' =>
                            /\ p \in DOMAIN promotions'
                            /\ HeldRow(s)'.active <=> (job'[s].op = "toggle" <=> ~Wanted(p)')
                            /\ pc'[s] = "write" =>
                                  /\ held'[s].there
                                  /\ \/ "active" \in held'[s].dirty
                                     \/ HeldRow(s)'.active <=> promotions'[p].active
    BY DEF TogglesAgree
  <1>0. /\ ~ToggleExcused(p) /\ job' = job /\ InProgress(r)
        /\ SavesOf(p)' = SavesOf(p) /\ SavesOf(p) \subseteq Requests
    BY GoersPromotion, ExcusesStand
  <1>1. /\ p \in DOMAIN promotions => (promotions[p].active <=> Wanted(p))
        /\ \A s \in SavesOf(p) : InProgress(s) =>
              /\ p \in DOMAIN promotions
              /\ HeldRow(s).active <=> (job[s].op = "toggle" <=> ~Wanted(p))
              /\ pc[s] = "write" =>
                    /\ held[s].there
                    /\ \/ "active" \in held[s].dirty
                       \/ HeldRow(s).active <=> promotions[p].active
    BY <1>0 DEF TogglesAgree
  <1>2. CASE r \in SavesOf(p)
    <2>1. \A s \in SavesOf(p) : s # r => ~InProgress(s)
      BY <1>0, <1>2, GoersPromotion DEF ToggleExcused
    <2>2. job[r].op \in SaveOps /\ job[r].promotion = p /\ p # r
      BY <1>2, GoersPromotion
    <2>3. /\ p \in DOMAIN promotions
          /\ HeldRow(r).active <=> (job[r].op = "toggle" <=> ~Wanted(p))
      BY <1>0, <1>1, <1>2
    <2>4. p \in DOMAIN promotions'
      BY <2>2, <2>3 DEF PromotionWent, SaveOps
    <2>5. CASE answer'[r] = "ok"
      <3>1. pc[r] = "write" /\ Written(r, p)
        BY <2>2, <2>4, <2>5 DEF PromotionWent
      <3>2. promotions'[p] = Merge(promotions[p], held[r].entity, held[r].dirty)
        BY <2>3, <3>1 DEF Written
      <3>3. promotions[p] \in PromotionRows
        BY <2>3 DEF PromotionTyped, PromotionTypeOK
      <3>4. promotions'[p].active <=> HeldRow(r).active
        <4>1. \/ "active" \in held[r].dirty
              \/ HeldRow(r).active <=> promotions[p].active
          BY <1>0, <1>1, <1>2, <3>1
        <4>2. promotions'[p].active = IF "active" \in held[r].dirty THEN held[r].entity.active
                                                                   ELSE promotions[p].active
          BY <3>2, <3>3 DEF Merge, PromotionRows
        <4>3. HeldRow(r) = held[r].entity
          BY <3>1 DEF HeldRow
        <4>4. CASE "active" \in held[r].dirty
          BY <4>2, <4>3, <4>4
        <4>5. CASE "active" \notin held[r].dirty
          BY <4>1, <4>2, <4>5
        <4>6. QED
          BY <4>4, <4>5
      <3>5. Wanted(p)' <=> (job[r].op = "toggle" <=> ~Wanted(p))
        <4>1. r \notin CountedToggles(p)
          BY GoersPromotion DEF CountedToggles, Succeeded
        <4>2. CASE job[r].op = "toggle"
          <5>1. \A s : s \in CountedToggles(p)' <=> s \in CountedToggles(p) \cup {r}
            BY <1>0, <1>2, <2>5, <4>2, GoersPromotion DEF CountedToggles, Succeeded
          <5>2. CountedToggles(p)' = CountedToggles(p) \cup {r}
            BY <5>1
          <5>3. IsFiniteSet(CountedToggles(p))
            <6>1. CountedToggles(p) \subseteq Arrived
              BY DEF CountedToggles, SavesOf, AsksOf, Arrived
            <6>2. QED
              BY <6>1, FS_Subset DEF PromotionInv, HttpInv
          <5>4. /\ Cardinality(CountedToggles(p)) \in Nat
                /\ Cardinality(CountedToggles(p)') = Cardinality(CountedToggles(p)) + 1
            BY <4>1, <5>2, <5>3, FS_AddElement, FS_CardinalityType
          <5>5. Cardinality(CountedToggles(p)') % 2 = 0 <=> ~(Cardinality(CountedToggles(p)) % 2 = 0)
            BY <5>4
          <5>6. QED
            BY <1>0, <4>2, <5>5, Zenon DEF Wanted
        <4>3. CASE job[r].op # "toggle"
          <5>1. \A s : s \in CountedToggles(p)' <=> s \in CountedToggles(p)
            BY <1>0, <4>3, GoersPromotion DEF CountedToggles, Succeeded
          <5>2. CountedToggles(p)' = CountedToggles(p)
            BY <5>1
          <5>3. QED
            BY <1>0, <4>3, <5>2 DEF Wanted
        <4>4. QED
          BY <4>2, <4>3
      <3>6. promotions'[p].active <=> Wanted(p)'
        BY <2>3, <3>4, <3>5
      <3>7. ~InProgress(r)'
        <4>1. pc'[r] = "answered"
          BY <2>5, GoFacts DEF PromotionInv, PromotionWent
        <4>2. QED
          BY <4>1 DEF InProgress
      <3>8. \A s \in SavesOf(p)' : ~InProgress(s)'
        BY <1>0, <2>1, <3>7, GoersPromotion
      <3>9. QED
        BY <3>6, <3>8
    <2>6. CASE answer'[r] # "ok"
      <3>1. promotions'[p].active = promotions[p].active
        BY <2>2, <2>4, <2>6 DEF PromotionWent, Written
      <3>2. \A s : s \in CountedToggles(p)' <=> s \in CountedToggles(p)
        BY <1>0, <2>6, GoersPromotion DEF CountedToggles, Succeeded
      <3>3. CountedToggles(p)' = CountedToggles(p)
        BY <3>2
      <3>4. Wanted(p)' <=> Wanted(p)
        BY <1>0, <3>3 DEF Wanted
      <3>5. ASSUME NEW s \in SavesOf(p)', InProgress(s)'
            PROVE  /\ HeldRow(s)'.active <=> (job'[s].op = "toggle" <=> ~Wanted(p)')
                   /\ pc'[s] = "write" =>
                         /\ held'[s].there
                         /\ \/ "active" \in held'[s].dirty
                            \/ HeldRow(s)'.active <=> promotions'[p].active
        <4>1. s = r /\ pc'[r] # "answered"
          BY <1>0, <2>1, <3>5, GoersPromotion DEF InProgress
        <4>2. HeldRow(r)' = HeldRow(r)
          BY <2>2, <4>1 DEF PromotionWent
        <4>3. HeldRow(r)'.active <=> (job'[r].op = "toggle" <=> ~Wanted(p)')
          BY <1>0, <2>3, <3>4, <4>2
        <4>4. ASSUME pc'[r] = "write"
              PROVE  /\ held'[r].there
                     /\ \/ "active" \in held'[r].dirty
                        \/ HeldRow(r)'.active <=> promotions'[p].active
          <5>1. held'[r].there /\ held'[r].dirty = Dirty(HeldRow(r), promotions[p])
            BY <2>2, <2>3, <4>1, <4>4 DEF PromotionWent
          <5>2. HeldRow(r) \in PromotionRows
            <6>1. pc[r] = "load"
              BY <2>2, <4>1, <4>4 DEF PromotionWent
            <6>2. QED
              BY <6>1 DEF PromotionTyped, PromotionWork
          <5>3. QED
            BY <3>1, <4>2, <5>1, <5>2 DEF Dirty, PromotionRows
        <4>5. QED
          BY <4>1, <4>3, <4>4
      <3>6. QED
        BY <1>1, <2>3, <2>4, <3>1, <3>4, <3>5
    <2>7. QED
      BY <2>5, <2>6
  <1>3. CASE r \notin SavesOf(p)
    <2>1. \A s : s \in CountedToggles(p)' <=> s \in CountedToggles(p)
      BY <1>0, <1>3, GoersPromotion DEF CountedToggles
    <2>2. CountedToggles(p)' = CountedToggles(p)
      BY <2>1
    <2>3. Wanted(p)' <=> Wanted(p)
      BY <1>0, <2>2 DEF Wanted
    <2>4. ~Written(r, p)
      BY <1>3, GoersPromotion DEF Written
    <2>5. CASE p = r
      <3>1. SavesOf(p) = {} /\ p # Nobody
        BY <2>5, GoersPromotion, RequestConstants
      <3>2. p \notin DOMAIN promotions
        BY <1>0, <2>5, RequestConstants DEF PromotionInv, Answered, InProgress
      <3>3. p \in DOMAIN promotions' => (promotions'[p].active <=> job[p].dto.active)
        BY <2>4, <2>5, <3>2 DEF PromotionWent
      <3>4. CountedToggles(p) = {}
        BY <3>1 DEF CountedToggles
      <3>5. Wanted(p) <=> job[p].dto.active
        <4>1. Cardinality(CountedToggles(p)) % 2 = 0
          BY <3>4, FS_EmptySet
        <4>2. QED
          BY <3>1, <4>1 DEF Wanted
      <3>6. QED
        BY <1>0, <2>3, <3>1, <3>3, <3>5
    <2>6. CASE p # r
      <3>1. p \in DOMAIN promotions' =>
               p \in DOMAIN promotions /\ promotions'[p].active = promotions[p].active
        BY <2>4, <2>6 DEF PromotionWent
      <3>2. ASSUME NEW s \in SavesOf(p)', InProgress(s)'
            PROVE  /\ p \in DOMAIN promotions'
                   /\ HeldRow(s)'.active <=> (job'[s].op = "toggle" <=> ~Wanted(p)')
                   /\ pc'[s] = "write" =>
                         /\ held'[s].there
                         /\ \/ "active" \in held'[s].dirty
                            \/ HeldRow(s)'.active <=> promotions'[p].active
        <4>1. /\ s \in SavesOf(p) /\ s \in Requests \ {r} /\ InProgress(s)
              /\ HeldRow(s)' = HeldRow(s) /\ pc'[s] = pc[s] /\ held'[s] = held[s]
          BY <1>0, <1>3, <3>2, GoersPromotion
        <4>2. /\ p \in DOMAIN promotions
              /\ HeldRow(s).active <=> (job[s].op = "toggle" <=> ~Wanted(p))
              /\ pc[s] = "write" =>
                    /\ held[s].there
                    /\ \/ "active" \in held[s].dirty
                       \/ HeldRow(s).active <=> promotions[p].active
          BY <1>1, <4>1
        <4>3. p \in DOMAIN promotions'
          <5>1. ASSUME p \notin DOMAIN promotions' PROVE FALSE
            <6>1. job[r].op = "delete" /\ p = job[r].promotion
              BY <4>2, <5>1 DEF PromotionWent
            <6>2. r \in DeletesOf(p) /\ Overlap(r, s)
              BY <4>1, <6>1, GoersPromotion
            <6>3. QED
              BY <1>0, <4>1, <6>2 DEF ToggleExcused
          <5>2. QED
            BY <5>1
        <4>4. QED
          BY <1>0, <2>3, <3>1, <4>1, <4>2, <4>3
      <3>3. QED
        BY <1>1, <2>3, <3>1, <3>2
    <2>7. QED
      BY <2>5, <2>6
  <1>4. QED
    BY <1>2, <1>3
LEMMA StartKeepsReorders ==
    ASSUME PromotionInv, PromotionTyped, ReordersAgree,
           NEW r \in Requests, NEW j, PromotionStarted(r, j)
    PROVE  ReordersAgree'
  <1>1. ASSUME NEW u \in reorders' PROVE pc'[u[1]] = "reordering" \/ answer'[u[1]] = "error"
    <2>1. CASE u \in reorders
      <3>1. u[1] \in Arrived /\ (pc[u[1]] = "reordering" \/ answer[u[1]] = "error")
        BY <2>1 DEF ReordersAgree, PromotionTyped
      <3>2. u[1] \in Requests \ {r}
        BY <3>1, NewcomersPromotion DEF Arrived
      <3>3. QED
        BY <3>1, <3>2, NewcomersPromotion
    <2>2. CASE u \notin reorders
      <3>1. u[1] = r /\ pc'[r] = "reordering"
        BY <1>1, <2>2 DEF PromotionStarted
      <3>2. QED
        BY <3>1
    <2>3. QED
      BY <2>1, <2>2
  <1>2. ASSUME NEW p \in Creators, NEW q \in Reordering(p)', <<q, p>> \notin reorders',
               ~OrderExcused(p, q)'
        PROVE  /\ p \in DOMAIN promotions' => promotions'[p].order = job'[q].items[p]
               /\ \A s \in SavesOf(p)' : InProgress(s)' => HeldRow(s)'.order = job'[q].items[p]
    <2>1. q # r
      <3>1. q = r => j.op = "reorder" /\ p \in DOMAIN j.items
        BY <1>2, NewcomersPromotion
      <3>2. j.op = "reorder" /\ p \in DOMAIN j.items => <<r, p>> \in reorders'
        BY DEF PromotionStarted
      <3>3. QED
        BY <1>2, <3>1, <3>2
    <2>2. q \in Reordering(p) /\ q \in Requests \ {r} /\ job'[q] = job[q] /\ q \in Arrived
      BY <1>2, <2>1, NewcomersPromotion DEF Reordering, Arrived
    <2>3. <<q, p>> \notin reorders /\ ~OrderExcused(p, q)
      <3>1. reorders \subseteq reorders'
        BY DEF PromotionStarted
      <3>2. QED
        BY <1>2, <2>2, <3>1, NewcomersPromotion, ExcusesStand
    <2>4. /\ p \in DOMAIN promotions => promotions[p].order = job[q].items[p]
          /\ \A s \in SavesOf(p) : InProgress(s) => HeldRow(s).order = job[q].items[p]
      BY <2>2, <2>3 DEF ReordersAgree
    <2>5. ASSUME NEW s \in SavesOf(p)', InProgress(s)' PROVE HeldRow(s)'.order = job[q].items[p]
      <3>1. CASE s # r
        BY <2>4, <2>5, <3>1, NewcomersPromotion
      <3>2. CASE s = r
        <4>1. j.op \in SaveOps /\ j.promotion = p /\ job'[r] = j /\ pc'[r] # "answered"
          BY <2>5, <3>2, NewcomersPromotion DEF InProgress
        <4>2. p \in DOMAIN promotions /\ held'[r] = Asked(j, promotions[p]) /\ pc'[r] # "write"
          BY <4>1 DEF PromotionStarted
        <4>3. HeldRow(r)' = Asked(j, promotions[p])
          BY <4>2 DEF HeldRow
        <4>4. promotions[p] \in PromotionRows
          BY <4>2 DEF PromotionTyped, PromotionTypeOK
        <4>5. q \in earlier'[r]
          <5>1. ~Overlap(r, q)'
            BY <1>2, <2>5, <3>2 DEF OrderExcused
          <5>2. ~InProgress(q)
            BY <2>2, <5>1, NewcomersPromotion
          <5>3. q \in Answered
            BY <2>2, <5>2 DEF InProgress, Answered, Arrived
          <5>4. QED
            BY <5>3, StartFacts DEF PromotionInv, PromotionStarted
        <4>6. j.op = "update" => j.dto.order = Nothing
          <5>1. (q \in earlier'[r] /\ job'[r].op = "update" /\ job'[r].dto.order # Nothing) =>
                   OrderExcused(p, q)'
            BY <2>5, <3>2 DEF OrderExcused
          <5>2. QED
            BY <1>2, <4>1, <4>5, <5>1
        <4>7. Asked(j, promotions[p]).order = promotions[p].order
          BY <4>1, <4>4, <4>6 DEF Asked, Inverted, Updated, PromotionRows, SaveOps
        <4>8. QED
          BY <2>4, <3>2, <4>2, <4>3, <4>7
      <3>3. QED
        BY <3>1, <3>2
    <2>6. QED
      BY <2>2, <2>4, <2>5, NewcomersPromotion
  <1>3. QED
    BY <1>1, <1>2 DEF ReordersAgree

LEMMA GoKeepsReorders ==
    ASSUME PromotionInv, PromotionTyped, ReordersAgree, NEW r \in Requests, PromotionWent(r)
    PROVE  ReordersAgree'
  <1>1. ASSUME NEW u \in reorders' PROVE pc'[u[1]] = "reordering" \/ answer'[u[1]] = "error"
    <2>1. u \in reorders
      BY <1>1 DEF PromotionWent
    <2>2. /\ u = <<u[1], u[2]>> /\ u[1] \in Requests
          /\ job[u[1]].op = "reorder" /\ u[2] \in DOMAIN job[u[1]].items
          /\ pc[u[1]] = "reordering" \/ answer[u[1]] = "error"
      BY <2>1 DEF PromotionTyped, PromotionTypeOK, Arrived, ReordersAgree
    <2>3. CASE u[1] # r
      BY <2>2, <2>3, GoersPromotion
    <2>4. CASE u[1] = r
      <3>1. <<r, u[2]>> \in reorders
        BY <2>1, <2>2, <2>4
      <3>2. answer'[r] # "ok" /\ pc'[r] = "answered"
        BY <2>2, <2>4, <3>1 DEF PromotionWent
      <3>3. QED
        BY <2>2, <2>4, <3>2 DEF PromotionWent
    <2>5. QED
      BY <2>3, <2>4
  <1>2. ASSUME NEW p \in Creators, NEW q \in Reordering(p)', <<q, p>> \notin reorders',
               ~OrderExcused(p, q)'
        PROVE  /\ p \in DOMAIN promotions' => promotions'[p].order = job'[q].items[p]
               /\ \A s \in SavesOf(p)' : InProgress(s)' => HeldRow(s)'.order = job'[q].items[p]
    <2>1. /\ q \in Reordering(p) /\ q \in Requests /\ job' = job /\ ~OrderExcused(p, q)
          /\ job[q].op = "reorder" /\ q \in Arrived
      BY <1>2, GoersPromotion, ExcusesStand DEF Reordering, Arrived
    <2>2. <<q, p>> \notin reorders
      <3>1. ASSUME <<q, p>> \in reorders PROVE FALSE
        <4>1. job[r].op = "reorder" /\ answer'[r] = "error"
          BY <1>2, <3>1 DEF PromotionWent
        <4>2. q = r
          BY <1>2, <3>1 DEF PromotionWent
        <4>3. QED
          BY <1>2, <4>1, <4>2 DEF OrderExcused
      <3>2. QED
        BY <3>1
    <2>3. /\ p \in DOMAIN promotions => promotions[p].order = job[q].items[p]
          /\ \A s \in SavesOf(p) : InProgress(s) => HeldRow(s).order = job[q].items[p]
      BY <2>1, <2>2 DEF ReordersAgree
    <2>4. ASSUME NEW s \in SavesOf(p)', InProgress(s)' PROVE HeldRow(s)'.order = job[q].items[p]
      <3>1. CASE s # r
        BY <2>3, <2>4, <3>1, GoersPromotion
      <3>2. CASE s = r
        <4>1. r \in SavesOf(p) /\ job[r].op \in SaveOps /\ pc'[r] # "answered" /\ InProgress(r)
          BY <2>4, <3>2, GoersPromotion DEF InProgress
        <4>2. HeldRow(r)' = HeldRow(r)
          BY <4>1 DEF PromotionWent
        <4>3. QED
          BY <2>3, <3>2, <4>1, <4>2
      <3>3. QED
        BY <3>1, <3>2
    <2>5. ASSUME p \in DOMAIN promotions' PROVE promotions'[p].order = job[q].items[p]
      <3>1. CASE p \in DOMAIN promotions /\ promotions'[p].order = promotions[p].order
        BY <2>3, <3>1
      <3>2. CASE p = r
        <4>1. p \in earlier[q]
          BY <2>1, <3>2 DEF OrderExcused
        <4>2. pc[r] = "answered"
          BY <2>1, <3>2, <4>1 DEF PromotionInv, HttpInv, Answered
        <4>3. QED
          BY <4>2, GoersPromotion DEF InProgress
      <3>3. CASE Written(r, p)
        <4>1. r \in SavesOf(p) /\ InProgress(r) /\ pc[r] = "write"
          BY <3>3, GoersPromotion DEF Written
        <4>2. HeldRow(r).order = job[q].items[p] /\ HeldRow(r) = held[r].entity
          BY <2>3, <4>1 DEF HeldRow
        <4>3. CASE held[r].there
          <5>1. /\ p \in DOMAIN promotions
                /\ promotions'[p] = Merge(promotions[p], held[r].entity, held[r].dirty)
            BY <3>3, <4>3 DEF Written
          <5>2. promotions[p] \in PromotionRows
            BY <5>1 DEF PromotionTyped, PromotionTypeOK
          <5>3. promotions'[p].order \in {held[r].entity.order, promotions[p].order}
            BY <5>1, <5>2 DEF Merge, PromotionRows
          <5>4. QED
            BY <2>3, <4>2, <5>1, <5>3
        <4>4. CASE ~held[r].there
          BY <3>3, <4>2, <4>4 DEF Written
        <4>5. QED
          BY <4>3, <4>4
      <3>4. QED
        BY <2>5, <3>1, <3>2, <3>3 DEF PromotionWent
    <2>6. QED
      BY <2>1, <2>4, <2>5
  <1>3. QED
    BY <1>1, <1>2 DEF ReordersAgree

\* An UPDATE of a reorder writes the order only, and only a reorder that has failed is
\* not waiting for it.
LEMMA ReorderedKeepsHistory ==
    ASSUME PromotionHistory, NEW r \in Requests, NEW p, PromotionReordered(r, p)
    PROVE  DeletedPromotions' /\ TogglesAgree' /\ ReordersAgree'
  <1> USE DEF httpVars
  <1>0. /\ DOMAIN promotions' = DOMAIN promotions /\ UNCHANGED <<pc, job, held, answer, earlier>>
        /\ \A q \in DOMAIN promotions : promotions'[q].active = promotions[q].active
    BY DEF PromotionReordered
  <1>1. /\ \A q : SavesOf(q)' = SavesOf(q) /\ DeletesOf(q)' = DeletesOf(q)
        /\ \A q : Reordering(q)' = Reordering(q)
        /\ \A a, b : Overlap(a, b)' <=> Overlap(a, b)
        /\ \A s : /\ InProgress(s)' <=> InProgress(s)
                  /\ Succeeded(s)' <=> Succeeded(s)
                  /\ HeldRow(s)' = HeldRow(s)
    BY <1>0 DEF SavesOf, DeletesOf, Reordering, AsksOf, Overlap, InProgress, Succeeded, HeldRow
  <1>2. /\ \A d, q : DeletionExcused(d, q)' <=> DeletionExcused(d, q)
        /\ \A q : ToggleExcused(q)' <=> ToggleExcused(q)
        /\ \A q, s : OrderExcused(q, s)' <=> OrderExcused(q, s)
    <2>1. \A d, q : DeletionExcused(d, q)' <=> DeletionExcused(d, q)
      BY <1>0, <1>1 DEF DeletionExcused
    <2>2. \A q : ToggleExcused(q)' <=> ToggleExcused(q)
      BY <1>0, <1>1 DEF ToggleExcused
    <2>3. \A q, s : OrderExcused(q, s)' <=> OrderExcused(q, s)
      BY <1>0, <1>1 DEF OrderExcused
    <2>4. QED
      BY <2>1, <2>2, <2>3
  <1>3. \A q : Wanted(q)' <=> Wanted(q)
    <2>1. \A q : CountedToggles(q)' = CountedToggles(q)
      BY <1>0, <1>1 DEF CountedToggles
    <2>2. QED
      BY <1>0, <2>1 DEF Wanted
  <1>4. DeletedPromotions'
    BY <1>0, <1>1, <1>2 DEF PromotionHistory, DeletedPromotions
  <1>5. TogglesAgree'
    BY <1>0, <1>1, <1>2, <1>3 DEF PromotionHistory, TogglesAgree
  <1>6. ASSUME NEW q \in Creators, NEW s \in Reordering(q), <<s, q>> \notin reorders',
               ~OrderExcused(q, s)
        PROVE  /\ q \in DOMAIN promotions => promotions'[q].order = job[s].items[q]
               /\ \A t \in SavesOf(q) : InProgress(t) => HeldRow(t).order = job[s].items[q]
    <2>0. /\ <<r, p>> \in reorders /\ reorders' = reorders \ {<<r, p>>}
          /\ job[r].op = "reorder" /\ p \in DOMAIN job[r].items /\ r \in Arrived
          /\ pc[r] = "reordering" \/ answer[r] = "error"
      BY DEF PromotionReordered, PromotionHistory, PromotionTyped, PromotionTypeOK, ReordersAgree
    <2>1. r \in Reordering(p) /\ answer[s] # "error" /\ s \in Requests /\ pc[s] # "idle"
      BY <1>6, <2>0 DEF Reordering, Arrived, OrderExcused
    <2>2. CASE q = p /\ s = r
      <3>1. InProgress(r)
        BY <2>0, <2>1, <2>2 DEF InProgress
      <3>2. \A t \in SavesOf(q) : ~InProgress(t)
        <4>1. ASSUME NEW t \in SavesOf(q), InProgress(t) PROVE FALSE
          <5>1. t \in Requests /\ t # r
            BY <2>0, <4>1 DEF SavesOf, AsksOf
          <5>2. Overlap(t, r)
            BY <3>1, <4>1, <5>1, InProgressOverlap DEF PromotionHistory, PromotionInv
          <5>3. QED
            BY <1>6, <2>2, <5>2 DEF OrderExcused
        <4>2. QED
          BY <4>1
      <3>3. QED
        BY <2>2, <3>1, <3>2 DEF PromotionReordered
    <2>3. CASE q = p /\ s # r
      <3>1. ~Overlap(r, s) /\ s \notin earlier[r] /\ answer[r] # "error"
        BY <1>6, <2>1, <2>3 DEF OrderExcused
      <3>2. r \in earlier[s] /\ pc[r] = "reordering"
        BY <2>0, <2>1, <2>3, <3>1 DEF Overlap, Arrived
      <3>3. QED
        BY <2>1, <3>2 DEF PromotionHistory, PromotionInv, HttpInv, Answered
    <2>4. CASE q # p
      <3>1. <<s, q>> \notin reorders
        BY <1>6, <2>0, <2>4
      <3>2. /\ q \in DOMAIN promotions => promotions[q].order = job[s].items[q]
            /\ \A t \in SavesOf(q) : InProgress(t) => HeldRow(t).order = job[s].items[q]
        BY <1>6, <3>1 DEF PromotionHistory, ReordersAgree
      <3>3. q \in DOMAIN promotions => promotions'[q].order = promotions[q].order
        BY <2>4 DEF PromotionReordered
      <3>4. QED
        BY <3>2, <3>3
    <2>5. QED
      BY <2>2, <2>3, <2>4
  <1>7. \A u \in reorders' : pc'[u[1]] = "reordering" \/ answer'[u[1]] = "error"
    BY <1>0 DEF PromotionReordered, PromotionHistory, ReordersAgree
  <1>8. ReordersAgree'
    BY <1>0, <1>1, <1>2, <1>6, <1>7 DEF ReordersAgree
  <1>9. QED
    BY <1>4, <1>5, <1>8
LEMMA PromotionHistoryStarts == PromotionInit => DeletedPromotions /\ TogglesAgree /\ ReordersAgree
  <1> SUFFICES ASSUME PromotionInit PROVE DeletedPromotions /\ TogglesAgree /\ ReordersAgree
    OBVIOUS
  <1>1. \A p : SavesOf(p) = {} /\ DeletesOf(p) = {} /\ Reordering(p) = {}
    BY DEF PromotionInit, HttpInit, SavesOf, DeletesOf, Reordering, AsksOf
  <1>2. /\ reorders = {} /\ DOMAIN promotions = {Nobody} /\ promotions[Nobody].active = TRUE
    BY DEF PromotionInit, PromotionTablesSeeded
  <1>3. DeletedPromotions /\ ReordersAgree
    BY <1>1, <1>2 DEF DeletedPromotions, ReordersAgree
  <1>4. Wanted(Nobody)
    <2>1. CountedToggles(Nobody) = {}
      BY <1>1 DEF CountedToggles
    <2>2. Cardinality(CountedToggles(Nobody)) % 2 = 0
      BY <2>1, FS_EmptySet
    <2>3. QED
      BY <2>2 DEF Wanted
  <1>5. TogglesAgree
    BY <1>1, <1>2, <1>4 DEF TogglesAgree
  <1>6. QED
    BY <1>3, <1>5

LEMMA PromotionNextKeepsHistory ==
    PromotionHistory /\ [PromotionNext]_promotionVars =>
       DeletedPromotions' /\ TogglesAgree' /\ ReordersAgree'
  <1> SUFFICES ASSUME PromotionHistory, [PromotionNext]_promotionVars
               PROVE  DeletedPromotions' /\ TogglesAgree' /\ ReordersAgree'
    OBVIOUS
  <1>1. ASSUME NEW r \in Requests, PromotionRequest(r)
        PROVE  DeletedPromotions' /\ TogglesAgree' /\ ReordersAgree'
    BY <1>1, PromotionStarts, StartKeepsDeletedPromotions, StartKeepsToggles, StartKeepsReorders
       DEF PromotionHistory
  <1>2. ASSUME NEW r \in Requests, PromotionStep(r)
        PROVE  DeletedPromotions' /\ TogglesAgree' /\ ReordersAgree'
    <2>1. CASE PromotionWent(r)
      BY <2>1, GoKeepsDeletedPromotions, GoKeepsToggles, GoKeepsReorders DEF PromotionHistory
    <2>2. CASE \E p : PromotionReordered(r, p)
      BY <2>2, ReorderedKeepsHistory
    <2>3. QED
      BY <1>2, <2>1, <2>2, PromotionGoes DEF PromotionHistory
  <1>3. CASE UNCHANGED promotionVars
    <2> USE <1>3 DEF promotionVars, promotionTables, httpVars
    <2>1. \A p : /\ SavesOf(p)' = SavesOf(p) /\ DeletesOf(p)' = DeletesOf(p)
                 /\ Reordering(p)' = Reordering(p)
      BY DEF SavesOf, DeletesOf, Reordering, AsksOf
    <2>2. /\ \A a, b : Overlap(a, b)' <=> Overlap(a, b)
          /\ \A s : /\ InProgress(s)' <=> InProgress(s)
                    /\ Succeeded(s)' <=> Succeeded(s)
                    /\ HeldRow(s)' = HeldRow(s)
      BY DEF Overlap, InProgress, Succeeded, HeldRow
    <2>3. /\ \A d, q : DeletionExcused(d, q)' <=> DeletionExcused(d, q)
          /\ \A q : ToggleExcused(q)' <=> ToggleExcused(q)
      BY <2>1, <2>2 DEF DeletionExcused, ToggleExcused
    <2>4. \A q, s : OrderExcused(q, s)' <=> OrderExcused(q, s)
      BY <2>1, <2>2 DEF OrderExcused
    <2>5. \A q : Wanted(q)' <=> Wanted(q)
      <3>1. \A q : CountedToggles(q)' = CountedToggles(q)
        BY <2>1, <2>2 DEF CountedToggles
      <3>2. QED
        BY <3>1 DEF Wanted
    <2>6. DeletedPromotions'
      BY <2>1, <2>2, <2>3 DEF PromotionHistory, DeletedPromotions
    <2>7. TogglesAgree'
      BY <2>1, <2>2, <2>3, <2>5 DEF PromotionHistory, TogglesAgree
    <2>8. ReordersAgree'
      BY <2>1, <2>2, <2>4 DEF PromotionHistory, ReordersAgree
    <2>9. QED
      BY <2>6, <2>7, <2>8
  <1>4. QED
    BY <1>1, <1>2, <1>3 DEF PromotionNext

LEMMA PromotionHistoryHolds ==
    PromotionHistory => DeletedPromotionsStayDeleted /\ TogglesCount /\ ReordersStand
  <1> SUFFICES ASSUME PromotionHistory
               PROVE  DeletedPromotionsStayDeleted /\ TogglesCount /\ ReordersStand
    OBVIOUS
  <1>1. DOMAIN promotions \subseteq Creators
    BY DEF PromotionHistory, PromotionTyped, PromotionTypeOK
  <1>2. DeletedPromotionsStayDeleted
    BY <1>1 DEF PromotionHistory, DeletedPromotions, DeletedPromotionsStayDeleted, DeletionExcused
  <1>3. TogglesCount
    <2> SUFFICES ASSUME NEW p \in DOMAIN promotions, ~ToggleExcused(p)
                 PROVE  promotions[p].active = Wanted(p)
      BY DEF TogglesCount, ToggleExcused, Wanted, CountedToggles
    <2>1. promotions[p].active <=> Wanted(p)
      BY <1>1 DEF PromotionHistory, TogglesAgree
    <2>2. promotions[p].active \in BOOLEAN
      BY DEF PromotionHistory, PromotionTyped, PromotionTypeOK, PromotionRows
    <2>3. Wanted(p) \in BOOLEAN
      BY DEF Wanted
    <2>4. QED
      BY <2>1, <2>2, <2>3
  <1>4. ReordersStand
    <2> SUFFICES ASSUME NEW p \in DOMAIN promotions, NEW r \in Reordering(p), Succeeded(r),
                        ~OrderExcused(p, r)
                 PROVE  promotions[p].order = job[r].items[p]
      BY DEF ReordersStand, OrderExcused
    <2>1. <<r, p>> \notin reorders
      <3>1. pc[r] = "answered" /\ answer[r] = "ok"
        BY DEF Succeeded, Reordering, PromotionHistory, PromotionInv, HttpInv
      <3>2. ASSUME NEW u \in reorders, u = <<r, p>> PROVE FALSE
        BY <3>1, <3>2 DEF PromotionHistory, ReordersAgree
      <3>3. QED
        BY <3>2
    <2>2. QED
      BY <1>1, <2>1 DEF PromotionHistory, ReordersAgree
  <1>5. QED
    BY <1>2, <1>3, <1>4

\* However requests about promotions interleave: a deleted one stays deleted, an even
\* number of toggles leaves one as it was, and a reorder stands, but for the overlaps,
\* later requests and failures that the properties name.
THEOREM PromotionsHistoryHolds == PromotionSpec => []PromotionHistory
  <1>1. PromotionSpec => [](PromotionInv /\ PromotionTyped)
    BY PromotionInitInv, PromotionNextInv, PromotionsTyped, PTL DEF PromotionSpec
  <1>2. PromotionHistory <=>
           PromotionInv /\ PromotionTyped /\ DeletedPromotions /\ TogglesAgree /\ ReordersAgree
    BY DEF PromotionHistory
  <1>3. QED
    BY <1>1, <1>2, PromotionHistoryStarts, PromotionNextKeepsHistory, PTL DEF PromotionSpec
-----------------------------------------------------------------------------
(* Portfolios: the inductive invariant.                                    *)

\* The portfolio that the images of a request are for, and whom it is about.
OwnerOf(x) ==
    IF x = Nobody THEN Nobody
    ELSE IF job[x].op = "createPortfolio" THEN x ELSE job[x].portfolio

Owned(images, p) ==
    \A image \in images : image[1] \in Arrived \cup {Nobody} /\ OwnerOf(image[1]) = p

IsPortfolio(row) == DOMAIN row = {"images", "active"}

\* The request will not answer "ok" any more.
Failed(u) == pc[u] = "cleanUp" \/ (pc[u] = "answered" /\ answer[u] # "ok")

\* Nothing has happened to the portfolio that would excuse a missing image.
Trusted(p) ==
    /\ \A u \in Replacing(p) : ~Failed(u) /\ \A s \in SavesOfPortfolio(p) : ~Overlap(u, s)
    /\ p \in Requests => ~Failed(p)

FailedWith(what) == what \in {"refused", "error"}

Creating(r) ==
    /\ job[r].op = "createPortfolio"
    /\ pc[r] \in {"upload", "insert", "cleanUp", "reread"}
    /\ pc[r] = "insert" => NewImages(r) \subseteq stored
    /\ pc[r] = "cleanUp" => held[r].images \subseteq NewImages(r) /\ FailedWith(held[r].answer)

\* What a request that saves a portfolio holds belongs to that portfolio.
SavingPortfolio(r) ==
    /\ job[r].op \in {"updatePortfolio", "deletePortfolio"}
    /\ job[r].portfolio \in DOMAIN portfolios
    /\ pc[r] \in {"upload", "replace", "cleanUp", "load", "write", "reread"}
    /\ pc[r] \in {"upload", "replace", "cleanUp"} => r \in Replacing(job[r].portfolio)
    /\ pc[r] \in {"upload", "replace"} =>
          /\ IsPortfolio(held[r])
          /\ \A image \in held[r].images : image[1] # r
    /\ pc[r] \in {"upload", "replace", "cleanUp", "load"} =>
          Owned(held[r].images, job[r].portfolio)
    /\ pc[r] = "cleanUp" => FailedWith(held[r].answer)
    /\ pc[r] = "load" => IsPortfolio(held[r])
    /\ pc[r] = "write" => /\ IsPortfolio(held[r].entity)
                          /\ Owned(held[r].entity.images, job[r].portfolio)

\* The images the request holds for its UPDATE, before save()'s load and after.
ImagesToSave(s) == IF pc[s] = "write" THEN held[s].entity.images ELSE held[s].images

\* The images of the row are stored, or it is about to name the stored ones of a
\* request; and other saves hold the images of the row.
Sound(p) ==
    /\ \/ portfolios[p].images \subseteq stored
       \/ \E u \in Replacing(p) : pc[u] \in {"load", "write"}
    /\ \A u \in Replacing(p) :
          /\ pc[u] \in {"replace", "load", "write"} => NewImages(u) \subseteq stored
          /\ pc[u] \in {"load", "write"} => ImagesToSave(u) = NewImages(u)
          /\ pc[u] = "write" =>
                "images" \in held[u].dirty \/ portfolios[p].images = NewImages(u)
    /\ \A s \in SavesOfPortfolio(p) \ Replacing(p) :
          pc[s] \in {"load", "write"} => ImagesToSave(s) = portfolios[p].images

PortfolioInv ==
    /\ HttpInv
    /\ DOMAIN portfolios \subseteq Arrived \cup {Nobody}
    /\ \A p \in DOMAIN portfolios :
          /\ IsPortfolio(portfolios[p])
          /\ Owned(portfolios[p].images, p)
          /\ OwnerOf(p) = p
          /\ p \in Requests => pc[p] \in {"cleanUp", "reread", "answered"}
    /\ \A r \in Requests : InProgress(r) => Creating(r) \/ SavingPortfolio(r)
    /\ \A p \in DOMAIN portfolios : Trusted(p) => Sound(p)

LEMMA PortfolioInvExplains == PortfolioInv => BrokenImagesAreExplained
  <1> SUFFICES ASSUME PortfolioInv, NEW p \in DOMAIN portfolios,
                      \A u \in Replacing(p) : Succeeded(u),
                      \A u \in Replacing(p), s \in SavesOfPortfolio(p) : ~Overlap(u, s),
                      p \in Requests => Succeeded(p)
               PROVE  portfolios[p].images \subseteq stored
    BY DEF BrokenImagesAreExplained
  <1>1. \A u \in Requests : Succeeded(u) => pc[u] = "answered" /\ ~Failed(u)
    BY DEF PortfolioInv, HttpInv, Succeeded, Failed
  <1>2. \A u \in Replacing(p) : u \in Requests
    BY DEF Replacing, SavesOfPortfolio
  <1>3. Trusted(p)
    BY <1>1, <1>2 DEF Trusted
  <1>4. QED
    BY <1>1, <1>2, <1>3 DEF PortfolioInv, Sound

LEMMA PortfolioInitInv == PortfolioInit => PortfolioInv
  <1> SUFFICES ASSUME PortfolioInit PROVE PortfolioInv
    OBVIOUS
  <1>1. HttpInv /\ Arrived = {}
    BY HttpStarts DEF PortfolioInit, HttpInit, Arrived
  <1>2. /\ DOMAIN portfolios = {Nobody} /\ IsPortfolio(portfolios[Nobody])
        /\ portfolios[Nobody].images = {<<Nobody, 1>>} /\ stored = {<<Nobody, 1>>}
    BY DEF PortfolioInit, PortfolioTablesSeeded, IsPortfolio
  <1>3. Owned(portfolios[Nobody].images, Nobody) /\ OwnerOf(Nobody) = Nobody
    BY <1>2 DEF Owned, OwnerOf
  <1>4. \A r \in Requests : ~InProgress(r)
    BY DEF PortfolioInit, HttpInit, InProgress
  <1>5. \A p : SavesOfPortfolio(p) = {} /\ Replacing(p) = {}
    BY DEF PortfolioInit, HttpInit, SavesOfPortfolio, SavesPortfolio, Replacing
  <1>6. Sound(Nobody)
    BY <1>2, <1>5 DEF Sound
  <1>7. Nobody \notin Requests
    BY RequestConstants
  <1>8. QED
    BY <1>1, <1>2, <1>3, <1>4, <1>6, <1>7 DEF PortfolioInv

\* A later step leaves the requests about a portfolio as they are, and no portfolio
\* gains trust.
LEMMA GoKeepsSaves ==
    ASSUME PortfolioInv, NEW r \in Requests, Goes(r),
           pc[r] = "cleanUp" => pc'[r] = "answered" /\ answer'[r] # "ok"
    PROVE  /\ Arrived' = Arrived
           /\ \A x : OwnerOf(x)' = OwnerOf(x)
           /\ \A x : NewImages(x)' = NewImages(x)
           /\ \A p : /\ SavesOfPortfolio(p)' = SavesOfPortfolio(p)
                     /\ Replacing(p)' = Replacing(p)
                     /\ Trusted(p)' => Trusted(p)
           /\ \A q \in Requests \ {r} :
                 pc'[q] = pc[q] /\ held'[q] = held[q] /\ answer'[q] = answer[q]
  <1>1. HttpInv
    BY DEF PortfolioInv
  <1>2. /\ job' = job /\ Arrived' = Arrived
        /\ \A q \in Requests : pc'[q] = "idle" <=> pc[q] = "idle"
        /\ \A q \in Requests \ {r} :
              pc'[q] = pc[q] /\ held'[q] = held[q] /\ answer'[q] = answer[q]
        /\ pc[r] # "answered"
    BY <1>1, GoFacts, GoKeepsHttpInv
  <1>3. (\A x : OwnerOf(x)' = OwnerOf(x)) /\ \A x : NewImages(x)' = NewImages(x)
    BY <1>2 DEF OwnerOf, NewImages
  <1>4. \A p : SavesOfPortfolio(p)' = SavesOfPortfolio(p)
    BY <1>2 DEF SavesOfPortfolio, SavesPortfolio
  <1>5. \A p : Replacing(p)' = Replacing(p)
    BY <1>2, <1>4 DEF Replacing
  <1>6. \A q \in Requests : Failed(q) => Failed(q)'
    BY <1>2 DEF Failed
  <1>7. \A p : \A u \in Replacing(p) : u \in Requests
    BY DEF Replacing, SavesOfPortfolio
  <1>8. \A p : Trusted(p)' => Trusted(p)
    BY <1>1, <1>4, <1>5, <1>6, <1>7, GoOverlaps DEF Trusted
  <1>9. QED
    BY <1>2, <1>3, <1>4, <1>5, <1>8

\* A portfolio whose images stay what they are, and stay stored, stays sound.
LEMMA GoKeepsSound ==
    ASSUME PortfolioInv, NEW r \in Requests, Goes(r),
           pc[r] = "cleanUp" => pc'[r] = "answered" /\ answer'[r] # "ok",
           NEW p \in DOMAIN portfolios, Sound(p),
           portfolios'[p].images = portfolios[p].images,
           \A image \in stored \ stored' : OwnerOf(image[1]) # p,
           r \in Replacing(p) =>
              /\ pc[r] \in {"load", "write"} => pc'[r] \in {"load", "write"}
              /\ pc'[r] \in {"replace", "load", "write"} => NewImages(r) \subseteq stored'
              /\ pc'[r] \in {"load", "write"} => ImagesToSave(r)' = NewImages(r)
              /\ pc'[r] = "write" =>
                    "images" \in held'[r].dirty \/ portfolios[p].images = NewImages(r),
           r \in SavesOfPortfolio(p) \ Replacing(p) =>
              (pc'[r] \in {"load", "write"} => ImagesToSave(r)' = portfolios[p].images)
    PROVE  Sound(p)'
  <1>1. /\ \A x : NewImages(x)' = NewImages(x)
        /\ SavesOfPortfolio(p)' = SavesOfPortfolio(p) /\ Replacing(p)' = Replacing(p)
        /\ \A q \in Requests \ {r} : pc'[q] = pc[q] /\ held'[q] = held[q]
    BY GoKeepsSaves
  <1>2. \A q \in Requests \ {r} : ImagesToSave(q)' = ImagesToSave(q)
    BY <1>1 DEF ImagesToSave
  <1>3. SavesOfPortfolio(p) \subseteq Requests /\ Replacing(p) \subseteq SavesOfPortfolio(p)
    BY DEF SavesOfPortfolio, Replacing
  <1>4. ASSUME portfolios[p].images \subseteq stored
        PROVE  portfolios'[p].images \subseteq stored'
    BY <1>4 DEF PortfolioInv, Owned
  <1>5. ASSUME NEW u \in Replacing(p), NewImages(u) \subseteq stored
        PROVE  NewImages(u) \subseteq stored'
    <2>1. \A image \in NewImages(u) : image[1] = u
      BY DEF NewImages
    <2>2. u # Nobody
      BY <1>3, RequestConstants
    <2>3. OwnerOf(u) = p
      BY <2>2 DEF Replacing, SavesOfPortfolio, OwnerOf
    <2>4. QED
      BY <1>5, <2>1, <2>3
  <1>6. portfolios'[p].images \subseteq stored'
        \/ \E u \in Replacing(p) : pc'[u] \in {"load", "write"}
    <2>1. CASE portfolios[p].images \subseteq stored
      BY <1>4, <2>1
    <2>2. ASSUME NEW u \in Replacing(p), pc[u] \in {"load", "write"}
          PROVE  pc'[u] \in {"load", "write"}
      BY <1>1, <1>3, <2>2
    <2>3. QED
      BY <2>1, <2>2 DEF Sound
  <1>7. ASSUME NEW u \in Replacing(p)
        PROVE  /\ pc'[u] \in {"replace", "load", "write"} => NewImages(u) \subseteq stored'
               /\ pc'[u] \in {"load", "write"} => ImagesToSave(u)' = NewImages(u)
               /\ pc'[u] = "write" =>
                     "images" \in held'[u].dirty \/ portfolios'[p].images = NewImages(u)
    <2>1. CASE u = r
      BY <1>7, <2>1
    <2>2. CASE u # r
      <3>1. pc'[u] = pc[u] /\ held'[u] = held[u] /\ ImagesToSave(u)' = ImagesToSave(u)
        BY <1>1, <1>2, <1>3, <2>2
      <3>2. QED
        BY <1>5, <3>1 DEF Sound
    <2>3. QED
      BY <2>1, <2>2
  <1>8. ASSUME NEW s \in SavesOfPortfolio(p) \ Replacing(p), pc'[s] \in {"load", "write"}
        PROVE  ImagesToSave(s)' = portfolios'[p].images
    <2>1. CASE s = r
      BY <1>8, <2>1
    <2>2. CASE s # r
      BY <1>1, <1>2, <1>3, <1>8, <2>2 DEF Sound
    <2>3. QED
      BY <2>1, <2>2
  <1>9. QED
    BY <1>1, <1>6, <1>7, <1>8 DEF Sound

\* A later step, if the one portfolio it is about is left as the invariant demands.
LEMMA GoKeepsPortfolioInv ==
    ASSUME PortfolioInv, NEW r \in Requests, Goes(r), NEW t, t = OwnerOf(r),
           pc[r] = "cleanUp" => pc'[r] = "answered" /\ answer'[r] # "ok",
           DOMAIN portfolios' \in {DOMAIN portfolios, DOMAIN portfolios \cup {t}},
           \A p \in DOMAIN portfolios : p # t => portfolios'[p] = portfolios[p],
           \A image \in stored \ stored' : OwnerOf(image[1]) = t,
           InProgress(r)' => Creating(r)' \/ SavingPortfolio(r)',
           t \in DOMAIN portfolios' =>
              /\ IsPortfolio(portfolios'[t]) /\ Owned(portfolios'[t].images, t)
              /\ t = r => pc'[r] \in {"cleanUp", "reread", "answered"}
              /\ Trusted(t)' => Sound(t)'
    PROVE  PortfolioInv'
  <1>1. HttpInv'
    BY GoKeepsHttpInv DEF PortfolioInv
  <1>2. /\ Arrived' = Arrived
        /\ \A x : OwnerOf(x)' = OwnerOf(x) /\ NewImages(x)' = NewImages(x)
        /\ \A p : SavesOfPortfolio(p)' = SavesOfPortfolio(p) /\ Replacing(p)' = Replacing(p)
        /\ \A p : Trusted(p)' => Trusted(p)
        /\ \A q \in Requests \ {r} : pc'[q] = pc[q] /\ held'[q] = held[q]
    BY GoKeepsSaves
  <1>3. r \in Arrived /\ r # Nobody /\ job' = job /\ InProgress(r)
    BY RequestConstants, GoFacts DEF PortfolioInv, Arrived, Goes, InProgress
  <1>4. (t = r /\ job[r].op = "createPortfolio") \/ t \in DOMAIN portfolios
    BY <1>3 DEF PortfolioInv, OwnerOf, Creating, SavingPortfolio
  <1>5. t \in Arrived \cup {Nobody} /\ OwnerOf(t) = t
    BY <1>3, <1>4 DEF PortfolioInv, OwnerOf
  <1>6. DOMAIN portfolios' \subseteq Arrived' \cup {Nobody}
    BY <1>2, <1>5 DEF PortfolioInv
  <1>7. ASSUME NEW p \in DOMAIN portfolios', p # t
        PROVE  /\ IsPortfolio(portfolios'[p]) /\ Owned(portfolios'[p].images, p)
               /\ OwnerOf(p) = p
               /\ p \in Requests => pc'[p] \in {"cleanUp", "reread", "answered"}
               /\ Trusted(p)' => Sound(p)'
    <2>1. p \in DOMAIN portfolios /\ portfolios'[p] = portfolios[p]
      BY <1>7
    <2>2. r \notin SavesOfPortfolio(p) /\ r \notin Replacing(p)
      BY <1>3, <1>7 DEF SavesOfPortfolio, SavesPortfolio, Replacing, OwnerOf
    <2>3. p = r => pc[r] \in {"cleanUp", "reread", "answered"} /\ OwnerOf(r) = r
      BY <2>1 DEF PortfolioInv
    <2>4. p # r
      BY <1>7, <2>3
    <2>5. Trusted(p)' => Sound(p)'
      BY <1>2, <1>7, <2>1, <2>2, GoKeepsSound DEF PortfolioInv
    <2>6. QED
      BY <1>2, <2>1, <2>4, <2>5 DEF PortfolioInv
  <1>8. ASSUME t \in DOMAIN portfolios', t \in Requests
        PROVE  pc'[t] \in {"cleanUp", "reread", "answered"}
    BY <1>2, <1>4, <1>8 DEF PortfolioInv
  <1>9. ASSUME NEW q \in Requests, InProgress(q)'
         PROVE  Creating(q)' \/ SavingPortfolio(q)'
    <2>1. CASE q = r
      BY <1>9, <2>1
    <2>2. CASE q # r
      <3>1. pc'[q] = pc[q] /\ held'[q] = held[q] /\ job'[q] = job[q] /\ InProgress(q)
        BY <1>2, <1>3, <1>9, <2>2 DEF InProgress
      <3>2. CASE Creating(q)
        <4>1. ASSUME pc[q] = "insert" PROVE NewImages(q) \subseteq stored'
          <5>1. t # q
            BY <1>4, <2>2, <4>1 DEF PortfolioInv
          <5>2. q # Nobody
            BY RequestConstants
          <5>3. OwnerOf(q) = q
            BY <3>2, <5>2 DEF Creating, OwnerOf
          <5>4. \A image \in NewImages(q) : image[1] = q
            BY DEF NewImages
          <5>5. QED
            BY <3>2, <4>1, <5>1, <5>3, <5>4 DEF Creating
        <4>2. QED
          BY <1>2, <3>1, <3>2, <4>1 DEF Creating
      <3>3. CASE SavingPortfolio(q)
        <4>1. job[q].portfolio \in DOMAIN portfolios'
          BY <3>3 DEF SavingPortfolio
        <4>2. QED
          BY <1>2, <3>1, <3>3, <4>1 DEF SavingPortfolio, Owned
      <3>4. QED
        BY <3>1, <3>2, <3>3 DEF PortfolioInv
    <2>3. QED
      BY <2>1, <2>2
  <1>10. \A p \in DOMAIN portfolios' :
            /\ IsPortfolio(portfolios'[p]) /\ Owned(portfolios'[p].images, p)
            /\ OwnerOf(p) = p
            /\ p \in Requests => pc'[p] \in {"cleanUp", "reread", "answered"}
            /\ Trusted(p)' => Sound(p)'
    BY <1>5, <1>7, <1>8
  <1>11. QED
    BY <1>1, <1>2, <1>6, <1>9, <1>10 DEF PortfolioInv, IsPortfolio, Owned

\* A start: whoever is to save a portfolio has read its row.
LEMMA StartKeepsPortfolioInv ==
    ASSUME PortfolioInv, NEW r \in Requests, NEW j, Starts(r, j), UNCHANGED portfolioTables,
           InProgress(r)' =>
              \/ j.op = "createPortfolio" /\ pc'[r] = "upload"
              \/ /\ j.op = "updatePortfolio" /\ j.portfolio \in DOMAIN portfolios
                 /\ pc'[r] = IF j.count > 0 THEN "upload" ELSE "load"
                 /\ held'[r] = portfolios[j.portfolio]
              \/ /\ j.op = "deletePortfolio" /\ j.portfolio \in DOMAIN portfolios
                 /\ pc'[r] = "load" /\ IsPortfolio(held'[r])
                 /\ held'[r].images = portfolios[j.portfolio].images
    PROVE  PortfolioInv'
  <1>1. HttpInv'
    BY StartKeepsHttpInv DEF PortfolioInv
  <1>2. /\ pc[r] = "idle" /\ pc'[r] # "idle" /\ job'[r] = j /\ r # Nobody
        /\ \A q \in Requests \ {r} :
              /\ pc'[q] = pc[q] /\ job'[q] = job[q] /\ held'[q] = held[q]
              /\ answer'[q] = answer[q]
    BY StartFacts, RequestConstants DEF PortfolioInv
  <1>3. Arrived' = Arrived \cup {r} /\ r \notin Arrived
    BY <1>2 DEF Arrived
  <1>4. /\ portfolios' = portfolios /\ stored' = stored
        /\ \A p \in DOMAIN portfolios : p # r /\ p \in Arrived \cup {Nobody}
    BY <1>2, <1>3 DEF PortfolioInv, portfolioTables
  <1>5. \A x \in Arrived \cup {Nobody} : OwnerOf(x)' = OwnerOf(x)
    <2>1. \A x \in Arrived : x \in Requests \ {r}
      BY <1>3 DEF Arrived
    <2>2. QED
      BY <1>2, <2>1 DEF OwnerOf
  <1>6. \A x \in Arrived \cup {Nobody} : x \in Arrived' \cup {Nobody} /\ OwnerOf(x)' = OwnerOf(x)
    BY <1>3, <1>5
  <1>7. \A q \in Requests \ {r} :
           /\ NewImages(q)' = NewImages(q) /\ ImagesToSave(q)' = ImagesToSave(q)
           /\ Failed(q)' <=> Failed(q)
    BY <1>2 DEF NewImages, ImagesToSave, Failed
  <1>8. \A p : \A q \in Requests \ {r} :
           /\ q \in SavesOfPortfolio(p)' <=> q \in SavesOfPortfolio(p)
           /\ q \in Replacing(p)' <=> q \in Replacing(p)
    BY <1>2 DEF SavesOfPortfolio, SavesPortfolio, Replacing
  <1>9. \A p : /\ r \notin SavesOfPortfolio(p) /\ r \notin Replacing(p)
               /\ SavesOfPortfolio(p) \subseteq Requests /\ Replacing(p) \subseteq Requests
    BY <1>2 DEF SavesOfPortfolio, SavesPortfolio, Replacing
  <1>10. ASSUME NEW p \in DOMAIN portfolios, Trusted(p)' PROVE Trusted(p)
    <2>1. \A u \in Replacing(p) : ~Failed(u)
      BY <1>7, <1>8, <1>9, <1>10 DEF Trusted
    <2>2. ASSUME NEW u \in Replacing(p), NEW s \in SavesOfPortfolio(p) PROVE ~Overlap(u, s)
      BY <1>8, <1>9, <1>10, StartOverlaps DEF Trusted, PortfolioInv
    <2>3. p \in Requests => ~Failed(p)
      BY <1>4, <1>7, <1>10 DEF Trusted
    <2>4. QED
      BY <2>1, <2>2, <2>3 DEF Trusted
  <1>11. ASSUME NEW p \in DOMAIN portfolios, Sound(p) PROVE Sound(p)'
    <2>1. portfolios'[p].images \subseteq stored'
          \/ \E u \in Replacing(p)' : pc'[u] \in {"load", "write"}
      BY <1>2, <1>4, <1>8, <1>9, <1>11 DEF Sound
    <2>2. ASSUME NEW u \in Replacing(p)'
          PROVE  /\ pc'[u] \in {"replace", "load", "write"} => NewImages(u)' \subseteq stored'
                 /\ pc'[u] \in {"load", "write"} => ImagesToSave(u)' = NewImages(u)'
                 /\ pc'[u] = "write" =>
                       "images" \in held'[u].dirty \/ portfolios'[p].images = NewImages(u)'
      <3>1. CASE u = r
        <4>1. j.op = "updatePortfolio" /\ j.count > 0
          BY <1>2, <2>2, <3>1 DEF Replacing
        <4>2. pc'[r] \in {"upload", "answered"}
          BY <1>2, <4>1 DEF InProgress
        <4>3. QED
          BY <3>1, <4>2
      <3>2. CASE u # r
        <4>1. u \in Requests \ {r} /\ u \in Replacing(p)
          BY <1>8, <2>2, <3>2 DEF Replacing, SavesOfPortfolio
        <4>2. QED
          BY <1>2, <1>4, <1>7, <1>11, <4>1 DEF Sound
      <3>3. QED
        BY <3>1, <3>2
    <2>3. ASSUME NEW s \in SavesOfPortfolio(p)' \ Replacing(p)', pc'[s] \in {"load", "write"}
          PROVE  ImagesToSave(s)' = portfolios'[p].images
      <3>1. CASE s = r
        <4>1. j.op # "createPortfolio" /\ j.portfolio = p
          BY <1>2, <2>3, <3>1 DEF SavesOfPortfolio, SavesPortfolio
        <4>2. InProgress(r)' /\ pc'[r] # "write"
          BY <2>3, <3>1 DEF InProgress
        <4>3. QED
          BY <1>4, <3>1, <4>1, <4>2 DEF ImagesToSave
      <3>2. CASE s # r
        <4>1. s \in Requests \ {r} /\ s \in SavesOfPortfolio(p) \ Replacing(p)
          BY <1>8, <2>3, <3>2 DEF SavesOfPortfolio
        <4>2. QED
          BY <1>2, <1>4, <1>7, <1>11, <2>3, <4>1 DEF Sound
      <3>3. QED
        BY <3>1, <3>2
    <2>4. QED
      BY <2>1, <2>2, <2>3 DEF Sound
  <1>12. ASSUME NEW q \in Requests, InProgress(q)' PROVE Creating(q)' \/ SavingPortfolio(q)'
    <2>1. CASE q = r
      <3>1. CASE j.op = "createPortfolio" /\ pc'[r] = "upload"
        BY <1>2, <2>1, <3>1 DEF Creating
      <3>2. ASSUME j.op \in {"updatePortfolio", "deletePortfolio"},
                   j.portfolio \in DOMAIN portfolios,
                   pc'[r] \in {"upload", "load"},
                   pc'[r] = "upload" => j.op = "updatePortfolio" /\ j.count > 0,
                   IsPortfolio(held'[r]),
                   held'[r].images = portfolios[j.portfolio].images
            PROVE  SavingPortfolio(r)'
        <4>1. pc'[r] = "upload" => r \in Replacing(j.portfolio)'
          BY <1>2, <3>2 DEF Replacing, SavesOfPortfolio, SavesPortfolio
        <4>2. Owned(portfolios[j.portfolio].images, j.portfolio)
          BY <3>2 DEF PortfolioInv
        <4>3. Owned(held[r].images, job[r].portfolio)'
          BY <1>2, <1>6, <3>2, <4>2 DEF Owned
        <4>4. \A image \in held'[r].images : image[1] # r
          BY <1>2, <1>3, <3>2, <4>2 DEF Owned
        <4>5. QED
          BY <1>2, <1>4, <3>2, <4>1, <4>3, <4>4 DEF SavingPortfolio, IsPortfolio
      <3>3. QED
        BY <1>12, <2>1, <3>1, <3>2 DEF PortfolioInv
    <2>2. CASE q # r
      <3>1. /\ pc'[q] = pc[q] /\ job'[q] = job[q] /\ held'[q] = held[q] /\ InProgress(q)
            /\ NewImages(q)' = NewImages(q)
        BY <1>2, <1>7, <1>12, <2>2 DEF InProgress
      <3>2. CASE Creating(q)
        BY <1>4, <3>1, <3>2 DEF Creating
      <3>3. CASE SavingPortfolio(q)
        BY <1>4, <1>6, <1>8, <2>2, <3>1, <3>3 DEF SavingPortfolio, IsPortfolio, Owned
      <3>4. QED
        BY <3>1, <3>2, <3>3 DEF PortfolioInv
    <2>3. QED
      BY <2>1, <2>2
  <1>13. ASSUME NEW p \in DOMAIN portfolios'
         PROVE  /\ IsPortfolio(portfolios'[p]) /\ Owned(portfolios[p].images, p)'
                /\ OwnerOf(p)' = p
                /\ p \in Requests => pc'[p] \in {"cleanUp", "reread", "answered"}
                /\ Trusted(p)' => Sound(p)'
    <2>1. p \in DOMAIN portfolios /\ portfolios'[p] = portfolios[p] /\ p # r
      BY <1>4, <1>13
    <2>2. Owned(portfolios[p].images, p)'
      BY <1>6, <2>1 DEF PortfolioInv, Owned
    <2>3. OwnerOf(p)' = p
      BY <1>4, <1>6, <2>1 DEF PortfolioInv
    <2>4. QED
      BY <1>2, <1>10, <1>11, <2>1, <2>2, <2>3 DEF PortfolioInv
  <1>14. DOMAIN portfolios' \subseteq Arrived' \cup {Nobody}
    BY <1>3, <1>4
  <1>15. QED
    BY <1>1, <1>12, <1>13, <1>14 DEF PortfolioInv
-----------------------------------------------------------------------------
(* Portfolios: every action keeps the invariant.                           *)

LEMMA PortfolioRequestKeeps ==
    ASSUME PortfolioInv, NEW r \in Requests, PortfolioRequest(r)
    PROVE  PortfolioInv'
  <1> USE DEF Starts, Begin, Serve, Arrive, Answers, InProgress, KnownPortfolios
  <1>1. ASSUME NEW n \in ImageCounts, CreatePortfolio(r, n) PROVE PortfolioInv'
    <2> DEFINE j == [op |-> "createPortfolio", count |-> n]
    <2>1. Starts(r, j) /\ UNCHANGED portfolioTables
      BY <1>1 DEF CreatePortfolio
    <2>2. InProgress(r)' => j.op = "createPortfolio" /\ pc'[r] = "upload"
      BY <1>1 DEF CreatePortfolio, PortfolioInv, HttpInv
    <2>3. QED
      BY <2>1, <2>2, StartKeepsPortfolioInv
  <1>2. ASSUME NEW p, NEW n \in ImageCounts, UpdatePortfolio(r, p, n) PROVE PortfolioInv'
    <2> DEFINE j == [op |-> "updatePortfolio", portfolio |-> p, count |-> n]
    <2>1. Starts(r, j) /\ UNCHANGED portfolioTables
      BY <1>2 DEF UpdatePortfolio
    <2>2. InProgress(r)' =>
             /\ j.op = "updatePortfolio" /\ j.portfolio \in DOMAIN portfolios
             /\ pc'[r] = IF j.count > 0 THEN "upload" ELSE "load"
             /\ held'[r] = portfolios[j.portfolio]
      BY <1>2 DEF UpdatePortfolio, PortfolioInv, HttpInv
    <2>3. QED
      BY <2>1, <2>2, StartKeepsPortfolioInv
  <1>3. ASSUME NEW p, DeletePortfolio(r, p) PROVE PortfolioInv'
    <2> DEFINE j == [op |-> "deletePortfolio", portfolio |-> p]
    <2>1. Starts(r, j) /\ UNCHANGED portfolioTables
      BY <1>3 DEF DeletePortfolio
    <2>2. InProgress(r)' =>
             /\ j.op = "deletePortfolio" /\ j.portfolio \in DOMAIN portfolios
             /\ pc'[r] = "load" /\ IsPortfolio(held'[r])
             /\ held'[r].images = portfolios[j.portfolio].images
      BY <1>3 DEF DeletePortfolio, PortfolioInv, HttpInv, IsPortfolio
    <2>3. QED
      BY <2>1, <2>2, StartKeepsPortfolioInv
  <1>4. QED
    BY <1>1, <1>2, <1>3 DEF PortfolioRequest

\* While a request that replaces the images of a trusted portfolio is in progress, no
\* other save of it is.
LEMMA ReplacesAlone ==
    ASSUME PortfolioInv, NEW t, Trusted(t), NEW r \in SavesOfPortfolio(t), InProgress(r),
           NEW s \in SavesOfPortfolio(t), InProgress(s), s # r
    PROVE  r \notin Replacing(t) /\ s \notin Replacing(t)
  <1>1. r \in Requests /\ s \in Requests
    BY DEF SavesOfPortfolio
  <1>2. Overlap(r, s) /\ Overlap(s, r)
    BY <1>1, InProgressOverlap DEF PortfolioInv
  <1>3. QED
    BY <1>2 DEF Trusted

\* What a later step of each kind of request is about.
LEMMA TargetFacts ==
    ASSUME PortfolioInv, NEW r \in Requests, InProgress(r)
    PROVE  /\ r # Nobody /\ r \in Arrived
           /\ SavesPortfolio(r) =>
                 /\ SavingPortfolio(r) /\ OwnerOf(r) = job[r].portfolio
                 /\ OwnerOf(r) \in DOMAIN portfolios /\ r \in SavesOfPortfolio(OwnerOf(r))
           /\ ~SavesPortfolio(r) => Creating(r) /\ OwnerOf(r) = r
           /\ r \in DOMAIN portfolios => pc[r] \in {"cleanUp", "reread"}
           /\ \A p : r \in SavesOfPortfolio(p) => p = OwnerOf(r) /\ SavesPortfolio(r)
           /\ \A image \in NewImages(r) : image[1] = r
           /\ Owned(NewImages(r), OwnerOf(r))
  <1>1. r # Nobody /\ r \in Arrived /\ pc[r] # "idle"
    BY RequestConstants DEF Arrived, InProgress
  <1>2. Creating(r) \/ SavingPortfolio(r)
    BY DEF PortfolioInv
  <1>3. Creating(r) => ~SavesPortfolio(r) /\ OwnerOf(r) = r
    BY <1>1 DEF Creating, SavesPortfolio, OwnerOf
  <1>4. SavingPortfolio(r) => SavesPortfolio(r) /\ OwnerOf(r) = job[r].portfolio
    BY <1>1 DEF SavingPortfolio, SavesPortfolio, OwnerOf
  <1>5. \A p : r \in SavesOfPortfolio(p) => p = OwnerOf(r) /\ SavesPortfolio(r)
    BY <1>1 DEF SavesOfPortfolio, SavesPortfolio, OwnerOf
  <1>6. SavesPortfolio(r) => r \in SavesOfPortfolio(OwnerOf(r))
    BY <1>2, <1>3, <1>4 DEF SavesOfPortfolio
  <1>7. \A image \in NewImages(r) : image[1] = r
    BY DEF NewImages
  <1>8. Owned(NewImages(r), OwnerOf(r))
    BY <1>1, <1>7 DEF Owned
  <1>9. r \in DOMAIN portfolios => pc[r] \in {"cleanUp", "reread"}
    BY DEF PortfolioInv, InProgress
  <1>10. QED
    BY <1>1, <1>2, <1>3, <1>4, <1>5, <1>6, <1>7, <1>8, <1>9 DEF SavingPortfolio
\* Whoever was to replace the images, or to insert the portfolio, and fails, takes the
\* trust away.
LEMMA FailureIsDistrusted ==
    ASSUME PortfolioInv, NEW r \in Requests, Goes(r), Failed(r)',
           pc[r] = "cleanUp" => pc'[r] = "answered" /\ answer'[r] # "ok",
           NEW t, r \in Replacing(t) \/ r = t
    PROVE  ~Trusted(t)'
  <1>1. Replacing(t)' = Replacing(t)
    BY GoKeepsSaves
  <1>2. QED
    BY <1>1 DEF Trusted

LEMMA UploadKeeps ==
    ASSUME PortfolioInv, NEW r \in Requests, Upload(r)
    PROVE  PortfolioInv'
  <1>0. PICK t : t = OwnerOf(r)
    OBVIOUS
  <1>1. /\ Goes(r) /\ InProgress(r) /\ pc[r] = "upload" /\ job' = job
        /\ portfolios' = portfolios /\ stored' = stored \cup NewImages(r)
        /\ pc'[r] = IF job[r].op = "createPortfolio" THEN "insert" ELSE "replace"
        /\ held'[r] = held[r]
    BY DEF Upload, Goes, Continue, InProgress, PortfolioInv, HttpInv
  <1>2. NewImages(r)' = NewImages(r) /\ \A p : Replacing(p)' = Replacing(p)
    BY <1>1, GoKeepsSaves
  <1>3. Creating(r)' \/ SavingPortfolio(r)'
    <2>1. CASE Creating(r)
      BY <1>1, <1>2, <2>1 DEF Creating
    <2>2. CASE SavingPortfolio(r)
      <3>1. Arrived' = Arrived /\ \A x : OwnerOf(x)' = OwnerOf(x)
        BY <1>1, GoKeepsSaves
      <3>2. pc'[r] = "replace"
        BY <1>1, <2>2 DEF SavingPortfolio
      <3>3. QED
        BY <1>1, <1>2, <2>2, <3>1, <3>2 DEF SavingPortfolio, Owned, IsPortfolio
    <2>3. QED
      BY <1>1, <2>1, <2>2 DEF PortfolioInv
  <1>4. ASSUME t \in DOMAIN portfolios
        PROVE  /\ t # r
               /\ IsPortfolio(portfolios[t]) /\ Owned(portfolios[t].images, t)
               /\ Trusted(t)' => Sound(t)'
    <2>1. t # r
      BY <1>0, <1>1, <1>4, TargetFacts
    <2>2. r \in Replacing(t)
      BY <1>0, <1>1, <2>1, TargetFacts DEF SavingPortfolio
    <2>3. Trusted(t)' => Sound(t)
      BY <1>1, <1>4, GoKeepsSaves DEF PortfolioInv
    <2>4. Sound(t) => Sound(t)'
      BY <1>0, <1>1, <1>4, <2>2, TargetFacts, GoKeepsSound
    <2>5. QED
      BY <1>4, <2>1, <2>3, <2>4 DEF PortfolioInv
  <1>5. QED
    BY <1>0, <1>1, <1>3, <1>4, GoKeepsPortfolioInv

\* A step that fails, cleans up or only answers, and leaves the rows alone.
LEMMA EndKeeps ==
    ASSUME PortfolioInv, NEW r \in Requests,
           UploadFails(r) \/ CleanUp(r) \/ RereadPortfolio(r)
    PROVE  PortfolioInv'
  <1>0. PICK t : t = OwnerOf(r)
    OBVIOUS
  <1>1. /\ Goes(r) /\ InProgress(r) /\ portfolios' = portfolios /\ job' = job
        /\ pc[r] \in {"upload", "cleanUp", "reread"}
        /\ pc[r] = "upload" => /\ stored \subseteq stored'
                               /\ IF job[r].op = "createPortfolio"
                                     THEN pc'[r] = "answered" /\ answer'[r] = "refused"
                                     ELSE /\ pc'[r] = "cleanUp"
                                          /\ held'[r] = [images |-> held[r].images,
                                                         answer |-> "refused"]
        /\ pc[r] = "cleanUp" => /\ stored \ stored' \subseteq held[r].images
                                /\ pc'[r] = "answered" /\ answer'[r] = held[r].answer
        /\ pc[r] = "reread" => stored' = stored /\ pc'[r] = "answered"
    <2> USE DEF Goes, Continue, Answer, InProgress, Answers, PortfolioInv, HttpInv, Creating,
            SavingPortfolio, FailedWith
    <2>1. CASE UploadFails(r)
      BY <2>1 DEF UploadFails
    <2>2. CASE CleanUp(r)
      <3>1. pc[r] = "cleanUp" /\ InProgress(r) /\ UNCHANGED portfolios
        BY <2>2 DEF CleanUp
      <3>2. \E gone \in SUBSET held[r].images : stored' = stored \ gone
        BY <2>2 DEF CleanUp
      <3>3. stored \ stored' \subseteq held[r].images
        BY <3>2
      <3>4. Answer(r, held[r].answer) /\ pc'[r] = "answered" /\ answer'[r] = held[r].answer
        BY <2>2 DEF CleanUp
      <3>5. held[r].answer \in Answers \ {"none"}
        BY <3>1
      <3>6. QED
        BY <3>1, <3>3, <3>4, <3>5
    <2>3. CASE RereadPortfolio(r)
      BY <2>3 DEF RereadPortfolio, portfolioTables
    <2>4. QED
      BY <2>1, <2>2, <2>3
  <1>2. pc[r] = "cleanUp" => pc'[r] = "answered" /\ answer'[r] # "ok"
    BY <1>1 DEF PortfolioInv, Creating, SavingPortfolio, FailedWith
  <1>3. \A image \in stored \ stored' : OwnerOf(image[1]) = t
    <2>1. CASE pc[r] = "cleanUp"
      <3>1. Owned(held[r].images, t)
        BY <1>0, <1>1, <2>1, TargetFacts DEF PortfolioInv, Creating, SavingPortfolio, Owned
      <3>2. QED
        BY <1>1, <2>1, <3>1 DEF Owned
    <2>2. QED
      BY <1>1, <2>1
  <1>4. InProgress(r)' => SavingPortfolio(r)'
    <2>1. SUFFICES ASSUME pc[r] = "upload", job[r].op # "createPortfolio" PROVE SavingPortfolio(r)'
      BY <1>1 DEF InProgress
    <2>2. SavingPortfolio(r)
      BY <1>1, <2>1 DEF PortfolioInv, Creating
    <2>3. /\ Arrived' = Arrived /\ \A x : OwnerOf(x)' = OwnerOf(x)
          /\ \A p : Replacing(p)' = Replacing(p)
      BY <1>1, <1>2, GoKeepsSaves
    <2>4. QED
      BY <1>1, <2>1, <2>2, <2>3 DEF SavingPortfolio, Owned, FailedWith
  <1>5. ASSUME t \in DOMAIN portfolios
        PROVE  /\ IsPortfolio(portfolios[t]) /\ Owned(portfolios[t].images, t)
               /\ t = r => pc'[r] \in {"cleanUp", "reread", "answered"}
               /\ Trusted(t)' => Sound(t)'
    <2>1. CASE pc[r] = "reread"
      <3>1. Sound(t) => Sound(t)'
        BY <1>0, <1>1, <1>5, <2>1, TargetFacts, GoKeepsSound
      <3>2. QED
        BY <1>1, <1>2, <1>5, <2>1, <3>1, GoKeepsSaves DEF PortfolioInv
    <2>2. CASE pc[r] \in {"upload", "cleanUp"}
      <3>1. r \in Replacing(t) \/ r = t
        BY <1>0, <1>1, <2>2, TargetFacts DEF SavingPortfolio
      <3>2. pc[r] = "upload" => job[r].op # "createPortfolio" /\ r # t
        BY <1>0, <1>1, <1>5, TargetFacts DEF Creating, SavesPortfolio
      <3>3. Failed(r)'
        BY <1>1, <1>2, <2>2, <3>2 DEF Failed
      <3>4. ~Trusted(t)'
        BY <1>0, <1>1, <1>2, <3>1, <3>3, FailureIsDistrusted
      <3>5. QED
        BY <1>1, <1>5, <2>2, <3>2, <3>4 DEF PortfolioInv
    <2>3. QED
      BY <1>1, <2>1, <2>2
  <1>6. QED
    BY <1>0, <1>1, <1>2, <1>3, <1>4, <1>5, GoKeepsPortfolioInv

LEMMA InsertPortfolioKeeps ==
    ASSUME PortfolioInv, NEW r \in Requests, InsertPortfolio(r) \/ InsertPortfolioFails(r)
    PROVE  PortfolioInv'
  <1> DEFINE row == [images |-> NewImages(r), active |-> TRUE]
  <1>1. /\ Goes(r) /\ InProgress(r) /\ pc[r] = "insert" /\ job[r].op = "createPortfolio"
        /\ stored' = stored /\ job' = job
        /\ PutPortfolio(r, row) \/ (portfolios' = portfolios /\ pc'[r] = "cleanUp")
        /\ \/ pc'[r] = "reread"
           \/ pc'[r] = "cleanUp" /\ held'[r] = [images |-> NewImages(r), answer |-> "error"]
    BY DEF InsertPortfolio, InsertPortfolioFails, At, Goes, Continue, InProgress, PortfolioInv,
           HttpInv
  <1>2. /\ r # Nobody /\ Creating(r) /\ OwnerOf(r) = r /\ r \notin DOMAIN portfolios
        /\ Owned(NewImages(r), r) /\ \A p : r \notin SavesOfPortfolio(p)
    BY <1>1, TargetFacts DEF SavesPortfolio
  <1>3. /\ NewImages(r)' = NewImages(r) /\ SavesOfPortfolio(r)' = SavesOfPortfolio(r)
        /\ Replacing(r)' = Replacing(r)
        /\ \A q \in Requests \ {r} : pc'[q] = pc[q]
    BY <1>1, GoKeepsSaves
  <1>4. Creating(r)'
    BY <1>1, <1>3 DEF Creating, FailedWith
  <1>5. /\ DOMAIN portfolios' = DOMAIN portfolios \/ DOMAIN portfolios' = DOMAIN portfolios \cup {r}
        /\ \A p \in DOMAIN portfolios : p # r => portfolios'[p] = portfolios[p]
        /\ r \in DOMAIN portfolios' => portfolios'[r] = row
    BY <1>1, <1>2 DEF PutPortfolio
  <1>6. Trusted(r)' /\ r \in DOMAIN portfolios' => Sound(r)'
    <2>1. SUFFICES ASSUME Trusted(r)', r \in DOMAIN portfolios' PROVE Sound(r)'
      OBVIOUS
    <2>2. pc'[r] = "reread"
      BY <1>1, <2>1, FailureIsDistrusted DEF Failed
    <2>3. portfolios'[r].images \subseteq stored'
      BY <1>1, <1>2, <1>5, <2>1 DEF Creating
    <2>4. ASSUME NEW s \in SavesOfPortfolio(r)
          PROVE  pc'[s] \notin {"replace", "load", "write"}
      <3>1. s \in Requests \ {r} /\ SavesPortfolio(s) /\ job[s].portfolio = r
        BY <1>2, <2>4 DEF SavesOfPortfolio
      <3>2. ~InProgress(s)
        BY <1>2, <3>1, TargetFacts
      <3>3. QED
        BY <1>3, <3>1, <3>2 DEF InProgress
    <2>5. Replacing(r) \subseteq SavesOfPortfolio(r)
      BY DEF Replacing
    <2>6. QED
      BY <1>3, <2>3, <2>4, <2>5 DEF Sound
  <1>7. r \in DOMAIN portfolios' => IsPortfolio(portfolios'[r]) /\ Owned(portfolios'[r].images, r)
    BY <1>2, <1>5 DEF IsPortfolio
  <1>8. QED
    BY <1>1, <1>2, <1>4, <1>5, <1>6, <1>7, GoKeepsPortfolioInv

\* Where the images of the only request that replaces them are stored and named, or are
\* about to be named, the portfolio is sound.
LEMMA SoundAlone ==
    ASSUME PortfolioInv, NEW r \in Requests, Goes(r), pc[r] # "cleanUp",
           NEW t, Trusted(t), r \in Replacing(t), NewImages(r) \subseteq stored',
           \/ portfolios'[t].images \subseteq stored' /\ pc'[r] \notin {"replace", "load", "write"}
           \/ pc'[r] = "load" /\ held'[r].images = NewImages(r)
    PROVE  Sound(t)'
  <1>1. /\ NewImages(r)' = NewImages(r) /\ SavesOfPortfolio(t)' = SavesOfPortfolio(t)
        /\ Replacing(t)' = Replacing(t)
        /\ \A q \in Requests \ {r} : pc'[q] = pc[q]
    BY GoKeepsSaves
  <1>2. /\ Replacing(t) \subseteq SavesOfPortfolio(t) /\ SavesOfPortfolio(t) \subseteq Requests
        /\ InProgress(r)
    BY DEF Replacing, SavesOfPortfolio, Goes
  <1>3. \A s \in SavesOfPortfolio(t) \ {r} : pc'[s] \notin {"replace", "load", "write"}
    BY <1>1, <1>2, ReplacesAlone DEF InProgress
  <1>4. pc'[r] \in {"load", "write"} => pc'[r] = "load" /\ ImagesToSave(r)' = NewImages(r)
    BY DEF ImagesToSave
  <1>5. \A u \in Replacing(t) : pc'[u] \in {"replace", "load", "write"} => u = r
    BY <1>2, <1>3
  <1>6. QED
    BY <1>1, <1>2, <1>3, <1>4, <1>5 DEF Sound

LEMMA ReplaceKeeps ==
    ASSUME PortfolioInv, NEW r \in Requests, Replace(r)
    PROVE  PortfolioInv'
  <1>0. PICK t : t = OwnerOf(r)
    OBVIOUS
  <1>1. /\ Goes(r) /\ InProgress(r) /\ pc[r] = "replace" /\ job' = job
        /\ job[r].op = "updatePortfolio" /\ portfolios' = portfolios
        /\ stored \ stored' \subseteq held[r].images
        /\ pc'[r] = "load" /\ held'[r] = [held[r] EXCEPT !.images = NewImages(r)]
    BY DEF Replace, At, Goes, Continue, InProgress, PortfolioInv, HttpInv
  <1>2. /\ SavingPortfolio(r) /\ t = job[r].portfolio /\ t \in DOMAIN portfolios /\ t # r
        /\ r \in Replacing(t) /\ Owned(NewImages(r), t)
        /\ \A image \in NewImages(r) : image[1] = r
    BY <1>0, <1>1, TargetFacts DEF SavingPortfolio, SavesPortfolio
  <1>3. \A image \in stored \ stored' : OwnerOf(image[1]) = t /\ image[1] # r
    BY <1>1, <1>2 DEF SavingPortfolio, Owned
  <1>4. held'[r].images = NewImages(r) /\ IsPortfolio(held'[r])
    BY <1>1, <1>2 DEF SavingPortfolio, IsPortfolio
  <1>5. /\ NewImages(r)' = NewImages(r) /\ Replacing(t)' = Replacing(t) /\ Arrived' = Arrived
        /\ \A x : OwnerOf(x)' = OwnerOf(x)
        /\ Trusted(t)' => Trusted(t)
    BY <1>1, GoKeepsSaves
  <1>6. SavingPortfolio(r)'
    BY <1>1, <1>2, <1>4, <1>5 DEF SavingPortfolio, Owned, IsPortfolio
  <1>7. ASSUME Trusted(t)' PROVE Sound(t)'
    <2>1. Trusted(t) /\ Sound(t)
      BY <1>2, <1>5, <1>7 DEF PortfolioInv
    <2>2. NewImages(r) \subseteq stored'
      BY <1>1, <1>2, <1>3, <2>1 DEF Sound
    <2>3. QED
      BY <1>1, <1>2, <1>4, <2>1, <2>2, SoundAlone
  <1>8. IsPortfolio(portfolios[t]) /\ Owned(portfolios[t].images, t)
    BY <1>2 DEF PortfolioInv
  <1>9. QED
    BY <1>0, <1>1, <1>2, <1>3, <1>6, <1>7, <1>8, GoKeepsPortfolioInv

LEMMA LoadPortfolioKeeps ==
    ASSUME PortfolioInv, NEW r \in Requests, LoadPortfolio(r)
    PROVE  PortfolioInv'
  <1>0. PICK t : t = OwnerOf(r)
    OBVIOUS
  <1>1. /\ Goes(r) /\ InProgress(r) /\ pc[r] = "load" /\ pc'[r] = "write" /\ job' = job
        /\ SavesPortfolio(r) /\ UNCHANGED portfolioTables
        /\ held'[r].entity = held[r]
        /\ held'[r].dirty = Dirty(held[r], portfolios[job[r].portfolio])
    BY DEF LoadPortfolio, Goes, Continue, InProgress, PortfolioInv, HttpInv
  <1>2. /\ SavingPortfolio(r) /\ t = job[r].portfolio /\ t \in DOMAIN portfolios /\ t # r
        /\ IsPortfolio(held[r]) /\ \A p : r \in SavesOfPortfolio(p) => p = t
    BY <1>0, <1>1, TargetFacts DEF SavingPortfolio
  <1>3. /\ \A x : OwnerOf(x)' = OwnerOf(x) /\ Arrived' = Arrived
        /\ Trusted(t)' => Trusted(t)
    BY <1>1, GoKeepsSaves
  <1>4. portfolios' = portfolios /\ stored' = stored
    BY <1>1 DEF portfolioTables
  <1>5. SavingPortfolio(r)'
    BY <1>1, <1>2, <1>3, <1>4 DEF SavingPortfolio, Owned, IsPortfolio
  <1>6. ASSUME Sound(t) PROVE Sound(t)'
    <2>1. ImagesToSave(r)' = ImagesToSave(r) /\ ImagesToSave(r) = held[r].images
      BY <1>1 DEF ImagesToSave
    <2>2. "images" \in held'[r].dirty \/ portfolios[t].images = held[r].images
      BY <1>1, <1>2 DEF Dirty, IsPortfolio
    <2>3. r \in Replacing(t) => NewImages(r) \subseteq stored /\ held[r].images = NewImages(r)
      BY <1>1, <1>6, <2>1 DEF Sound
    <2>4. r \in SavesOfPortfolio(t) \ Replacing(t) => held[r].images = portfolios[t].images
      BY <1>1, <1>6, <2>1 DEF Sound
    <2>5. QED
      BY <1>1, <1>2, <1>4, <1>6, <2>1, <2>2, <2>3, <2>4, GoKeepsSound
  <1>7. IsPortfolio(portfolios[t]) /\ Owned(portfolios[t].images, t) /\ (Trusted(t) => Sound(t))
    BY <1>2 DEF PortfolioInv
  <1>8. QED
    BY <1>0, <1>1, <1>2, <1>3, <1>4, <1>5, <1>6, <1>7, GoKeepsPortfolioInv

\* The UPDATE of save(), acknowledged or not, and a save() that fails before it.
LEMMA SavePortfolioKeeps ==
    ASSUME PortfolioInv, NEW r \in Requests, WritePortfolio(r) \/ SavePortfolioFails(r)
    PROVE  PortfolioInv'
  <1>0. PICK t : t = OwnerOf(r)
    OBVIOUS
  <1>1. /\ Goes(r) /\ InProgress(r) /\ pc[r] \in {"load", "write"} /\ job' = job
        /\ SavesPortfolio(r) /\ stored' = stored
        /\ portfolios' = portfolios \/ (pc[r] = "write" /\ WritesPortfolio(r))
        /\ pc'[r] = "reread" => pc[r] = "write" /\ WritesPortfolio(r)
    BY DEF WritePortfolio, SavePortfolioFails, Goes, Continue, Answer, InProgress, Answers,
           SavesPortfolio, PortfolioInv, HttpInv
  <1>2. /\ pc'[r] \in {"reread", "cleanUp", "answered"}
        /\ pc'[r] = "cleanUp" => /\ job[r].op = "updatePortfolio" /\ job[r].count > 0
                                 /\ held'[r] = [images |-> NewImages(r), answer |-> "error"]
        /\ pc'[r] = "answered" =>
              \/ job[r].op = "deletePortfolio"
              \/ ~(job[r].op = "updatePortfolio" /\ job[r].count > 0)
    BY DEF WritePortfolio, SavePortfolioFails, Continue, Answer, SavesPortfolio, PortfolioInv,
           HttpInv
  <1>3. /\ SavingPortfolio(r) /\ t = job[r].portfolio /\ t \in DOMAIN portfolios /\ t # r
        /\ r # Nobody /\ r \in SavesOfPortfolio(t) /\ Owned(NewImages(r), t)
        /\ \A p : r \in SavesOfPortfolio(p) => p = t
    BY <1>0, <1>1, TargetFacts
  <1>4. /\ NewImages(r)' = NewImages(r) /\ Arrived' = Arrived
        /\ \A x : OwnerOf(x)' = OwnerOf(x)
        /\ \A p : Replacing(p)' = Replacing(p)
        /\ Trusted(t)' => Trusted(t)
    BY <1>1, GoKeepsSaves
  <1>5. r \in Replacing(t) <=> job[r].op = "updatePortfolio" /\ job[r].count > 0
    BY <1>3 DEF Replacing
  <1>6. IsPortfolio(portfolios[t]) /\ Owned(portfolios[t].images, t) /\ (Trusted(t) => Sound(t))
    BY <1>3 DEF PortfolioInv
  <1>7. /\ DOMAIN portfolios' = DOMAIN portfolios
        /\ \A p \in DOMAIN portfolios : p # t => portfolios'[p] = portfolios[p]
    BY <1>1, <1>3 DEF WritesPortfolio, PutPortfolio
  <1>8. ASSUME WritesPortfolio(r)
        PROVE  /\ IsPortfolio(portfolios'[t])
               /\ portfolios'[t].images = IF "images" \in held[r].dirty
                                             THEN held[r].entity.images
                                             ELSE portfolios[t].images
    <2>1. portfolios'[t] = Merge(portfolios[t], held[r].entity, held[r].dirty)
      BY <1>3, <1>8 DEF WritesPortfolio, PutPortfolio
    <2>2. QED
      BY <1>6, <2>1 DEF Merge, IsPortfolio
  <1>9. IsPortfolio(portfolios'[t]) /\ Owned(portfolios'[t].images, t)
    BY <1>1, <1>3, <1>6, <1>8 DEF SavingPortfolio, Owned
  <1>10. SavingPortfolio(r)' \/ ~InProgress(r)'
    <2>1. pc'[r] = "cleanUp" => r \in Replacing(t)
      BY <1>2, <1>5
    <2>2. QED
      BY <1>1, <1>2, <1>3, <1>4, <1>7, <2>1
         DEF SavingPortfolio, Owned, FailedWith, InProgress
  <1>11. ASSUME Trusted(t)' PROVE Sound(t)'
    <2>1. Trusted(t) /\ Sound(t)
      BY <1>4, <1>6, <1>11
    <2>2. CASE r \in Replacing(t)
      <3>1. pc'[r] = "reread"
        <4>1. pc'[r] # "answered"
          BY <1>2, <1>5, <2>2
        <4>2. pc'[r] # "cleanUp"
          BY <1>1, <1>11, <2>2, FailureIsDistrusted DEF Failed
        <4>3. QED
          BY <1>2, <4>1, <4>2
      <3>2. portfolios'[t].images = NewImages(r) /\ NewImages(r) \subseteq stored
        BY <1>1, <1>8, <2>1, <2>2, <3>1 DEF Sound, ImagesToSave
      <3>3. QED
        BY <1>1, <2>1, <2>2, <3>1, <3>2, SoundAlone
    <2>3. CASE r \notin Replacing(t)
      <3>1. portfolios'[t].images = portfolios[t].images
        BY <1>1, <1>3, <1>8, <2>1, <2>3 DEF Sound, ImagesToSave
      <3>2. QED
        BY <1>1, <1>2, <1>3, <2>1, <2>3, <3>1, GoKeepsSound
    <2>4. QED
      BY <2>2, <2>3
  <1>12. QED
    BY <1>0, <1>1, <1>3, <1>7, <1>9, <1>10, <1>11, GoKeepsPortfolioInv

LEMMA PortfolioNextInv == PortfolioInv /\ [PortfolioNext]_portfolioVars => PortfolioInv'
  <1> SUFFICES ASSUME PortfolioInv, [PortfolioNext]_portfolioVars PROVE PortfolioInv'
    OBVIOUS
  <1>1. ASSUME NEW r \in Requests, PortfolioStep(r) PROVE PortfolioInv'
    BY <1>1, UploadKeeps, EndKeeps, InsertPortfolioKeeps, ReplaceKeeps, LoadPortfolioKeeps,
       SavePortfolioKeeps DEF PortfolioStep
  <1>2. CASE UNCHANGED portfolioVars
    BY <1>2 DEF portfolioVars, portfolioTables, httpVars, PortfolioInv, HttpInv, Arrived,
       Answered, InProgress, Owned, OwnerOf, IsPortfolio, Trusted, Failed, Sound, Creating,
       SavingPortfolio, ImagesToSave, NewImages, Replacing, SavesOfPortfolio, SavesPortfolio,
       Overlap
  <1>3. QED
    BY <1>1, <1>2, PortfolioRequestKeeps DEF PortfolioNext

\* However uploads, deletes and saves of portfolios interleave, a portfolio names a
\* missing image only after a failure or an overlap that says so.
THEOREM PortfolioImagesExplained == PortfolioSpec => []BrokenImagesAreExplained
  <1>1. PortfolioSpec => []PortfolioInv
    BY PortfolioInitInv, PortfolioNextInv, PTL DEF PortfolioSpec
  <1>2. QED
    BY <1>1, PortfolioInvExplains, PTL
-----------------------------------------------------------------------------
(* Portfolios: types.                                                      *)

\* The images that x brought were all stored, as far as x knows.
Brought(x) ==
    x # Nobody =>
       /\ pc[x] \notin {"idle", "upload"} /\ answer[x] # "refused"
       /\ pc[x] = "cleanUp" => held[x].answer # "refused"

RowOfBrought(row) == row \in PortfolioRows /\ \A image \in row.images : Brought(image[1])

\* What a request that saves a portfolio holds from one statement to the next.
PortfolioWork(r) ==
    /\ pc[r] \in {"replace", "load"} \/ (pc[r] = "upload" /\ job[r].op # "createPortfolio") =>
          RowOfBrought(held[r])
    /\ pc[r] = "write" => RowOfBrought(held[r].entity)

PortfolioTyped ==
    /\ HttpTypeOK
    /\ DOMAIN portfolios \subseteq Creators
    /\ stored \subseteq Images
    /\ \A p \in DOMAIN portfolios : RowOfBrought(portfolios[p])
    /\ \A r \in Arrived : job[r] \in PortfolioJobs
    /\ \A r \in Requests : PortfolioWork(r)

LEMMA PortfolioTypedIsTypeOK == PortfolioTyped => PortfolioTypeOK
  BY DEF PortfolioTyped, PortfolioTypeOK, RowOfBrought, Brought

LEMMA NewImagesAreImages ==
    ASSUME PortfolioTyped, NEW r \in Arrived
    PROVE  job[r].op # "deletePortfolio" => NewImages(r) \subseteq Images
  <1>1. job[r] \in PortfolioJobs /\ r \in Creators
    BY DEF PortfolioTyped, Arrived, Creators
  <1>2. job[r].op # "deletePortfolio" => job[r].count \in 0 .. 10
    BY <1>1, PortfolioConstants DEF PortfolioJobs
  <1>3. QED
    BY <1>1, <1>2 DEF NewImages, Images

\* Who has got past the uploads stays past them.
LEMMA StartKeepsBrought ==
    ASSUME HttpInv, NEW r \in Requests, NEW j, Starts(r, j)
    PROVE  /\ \A row : RowOfBrought(row) => RowOfBrought(row)'
  <1>1. \A x \in Creators : Brought(x) => Brought(x)'
    BY StartFacts, RequestConstants DEF Brought, Creators
  <1>2. \A row \in PortfolioRows : \A image \in row.images : image[1] \in Creators
    BY DEF PortfolioRows, Images
  <1>3. QED
    BY <1>1, <1>2 DEF RowOfBrought

LEMMA StartKeepsPortfolioTypes ==
    ASSUME PortfolioInv, PortfolioTyped, NEW r \in Requests, NEW j \in PortfolioJobs,
           Starts(r, j), UNCHANGED portfolioTables, PortfolioWork(r)'
    PROVE  PortfolioTyped'
  <1>1. HttpTypeOK' /\ HttpInv
    BY NothingIsNoPortfolioJob, StartKeepsHttpTypes DEF PortfolioInv, PortfolioTyped
  <1>2. \A row : RowOfBrought(row) => RowOfBrought(row)'
    BY <1>1, StartKeepsBrought
  <1>3. \A q \in Arrived' : job'[q] \in PortfolioJobs
    BY <1>1, StartFacts DEF PortfolioTyped, Arrived
  <1>4. ASSUME NEW q \in Requests \ {r} PROVE PortfolioWork(q)'
    <2>1. /\ pc'[q] = pc[q] /\ job'[q] = job[q] /\ held'[q] = held[q]
          /\ PortfolioWork(q)
      BY <1>1, StartFacts DEF PortfolioTyped
    <2>2. /\ RowOfBrought(held[q]) => RowOfBrought(held[q])'
          /\ RowOfBrought(held[q].entity) => RowOfBrought(held[q].entity)'
      BY <1>2, <2>1
    <2>3. QED
      BY <2>1, <2>2 DEF PortfolioWork
  <1>5. QED
    BY <1>1, <1>2, <1>3, <1>4 DEF PortfolioTyped, portfolioTables

\* A request that goes on past its uploads has brought its images.
LEMMA GoKeepsBrought ==
    ASSUME PortfolioInv, PortfolioTyped, NEW r \in Requests, Goes(r),
           Brought(r) => Brought(r)'
    PROVE  \A row : RowOfBrought(row) => RowOfBrought(row)'
  <1>1. \A x \in Creators : Brought(x) => Brought(x)'
    BY GoFacts, RequestConstants DEF Brought, Creators, PortfolioInv
  <1>2. \A row \in PortfolioRows : \A image \in row.images : image[1] \in Creators
    BY DEF PortfolioRows, Images
  <1>3. QED
    BY <1>1, <1>2 DEF RowOfBrought

LEMMA GoKeepsPortfolioTypes ==
    ASSUME PortfolioInv, PortfolioTyped, NEW r \in Requests, Goes(r),
           Brought(r) => Brought(r)',
           PortfolioWork(r)', stored' \subseteq Images,
           \/ UNCHANGED portfolios
           \/ \E row : \E p \in Creators : RowOfBrought(row)' /\ PutPortfolio(p, row)
    PROVE  PortfolioTyped'
  <1>1. HttpTypeOK' /\ HttpInv /\ Arrived' = Arrived
    BY GoKeepsHttpTypes, GoKeepsHttpInv DEF PortfolioInv, PortfolioTyped
  <1>2. \A row : RowOfBrought(row) => RowOfBrought(row)'
    BY GoKeepsBrought
  <1>3. \A q \in Arrived' : job'[q] \in PortfolioJobs
    BY <1>1, GoFacts DEF PortfolioTyped
  <1>4. ASSUME NEW q \in Requests \ {r} PROVE PortfolioWork(q)'
    <2>1. /\ pc'[q] = pc[q] /\ job' = job /\ held'[q] = held[q]
          /\ PortfolioWork(q)
      BY <1>1, GoFacts DEF PortfolioTyped
    <2>2. /\ RowOfBrought(held[q]) => RowOfBrought(held[q])'
          /\ RowOfBrought(held[q].entity) => RowOfBrought(held[q].entity)'
      BY <1>2, <2>1
    <2>3. QED
      BY <2>1, <2>2 DEF PortfolioWork
  <1>5. \A p \in DOMAIN portfolios' : p \in Creators /\ RowOfBrought(portfolios[p])'
    <2>1. \A p \in DOMAIN portfolios : p \in Creators /\ RowOfBrought(portfolios[p])
      BY DEF PortfolioTyped
    <2>2. CASE UNCHANGED portfolios
      BY <1>2, <2>1, <2>2
    <2>3. ASSUME NEW p \in Creators, NEW row, RowOfBrought(row)', PutPortfolio(p, row)
          PROVE  \A q \in DOMAIN portfolios' : q \in Creators /\ RowOfBrought(portfolios[q])'
      <3>1. /\ DOMAIN portfolios' = DOMAIN portfolios \cup {p} /\ portfolios'[p] = row
            /\ \A q \in DOMAIN portfolios \ {p} : portfolios'[q] = portfolios[q]
        BY <2>3 DEF PutPortfolio
      <3>2. QED
        BY <1>2, <2>1, <2>3, <3>1
    <2>4. QED
      BY <2>2, <2>3
  <1>6. QED
    BY <1>1, <1>3, <1>4, <1>5 DEF PortfolioTyped

LEMMA PortfolioRequestTypes ==
    ASSUME PortfolioInv, PortfolioTyped, NEW r \in Requests, PortfolioRequest(r)
    PROVE  PortfolioTyped'
  <1> USE DEF Starts, Begin, Serve, Arrive, Answers, PortfolioJobs
  <1>0. KnownPortfolios \subseteq Creators
    BY DEF KnownPortfolios, Creators, PortfolioTyped
  <1>1. ASSUME NEW n \in ImageCounts, CreatePortfolio(r, n) PROVE PortfolioTyped'
    <2> DEFINE j == [op |-> "createPortfolio", count |-> n]
    <2>1. j \in PortfolioJobs /\ Starts(r, j) /\ UNCHANGED portfolioTables
      BY <1>1 DEF CreatePortfolio
    <2>2. pc'[r] \in {"upload", "answered"} /\ job'[r] = j
      BY <1>1 DEF CreatePortfolio, PortfolioInv, HttpInv
    <2>3. PortfolioWork(r)'
      BY <2>2 DEF PortfolioWork
    <2>4. QED
      BY <2>1, <2>3, StartKeepsPortfolioTypes
  <1>2. ASSUME NEW p \in KnownPortfolios, NEW n \in ImageCounts, UpdatePortfolio(r, p, n)
        PROVE  PortfolioTyped'
    <2> DEFINE j == [op |-> "updatePortfolio", portfolio |-> p, count |-> n]
    <2>1. j \in PortfolioJobs /\ Starts(r, j) /\ UNCHANGED portfolioTables
      BY <1>0, <1>2 DEF UpdatePortfolio
    <2>2. /\ pc'[r] \in {"upload", "load", "answered"}
          /\ pc'[r] # "answered" => p \in DOMAIN portfolios /\ held'[r] = portfolios[p]
      BY <1>2 DEF UpdatePortfolio, PortfolioInv, HttpInv
    <2>3. p \in DOMAIN portfolios => RowOfBrought(portfolios[p])
      BY DEF PortfolioTyped
    <2>4. \A row : RowOfBrought(row) => RowOfBrought(row)'
      BY <2>1, StartKeepsBrought DEF PortfolioInv
    <2>5. PortfolioWork(r)'
      BY <2>2, <2>3, <2>4 DEF PortfolioWork
    <2>6. QED
      BY <2>1, <2>5, StartKeepsPortfolioTypes
  <1>3. ASSUME NEW p \in KnownPortfolios, DeletePortfolio(r, p) PROVE PortfolioTyped'
    <2> DEFINE j == [op |-> "deletePortfolio", portfolio |-> p]
               row == [portfolios[p] EXCEPT !.active = FALSE]
    <2>1. j \in PortfolioJobs /\ Starts(r, j) /\ UNCHANGED portfolioTables
      BY <1>0, <1>3 DEF DeletePortfolio
    <2>2. /\ pc'[r] \in {"load", "answered"}
          /\ pc'[r] # "answered" => p \in DOMAIN portfolios /\ held'[r] = row
      BY <1>3 DEF DeletePortfolio, PortfolioInv, HttpInv
    <2>3. p \in DOMAIN portfolios => RowOfBrought(row)
      BY DEF PortfolioTyped, RowOfBrought, PortfolioRows
    <2>4. \A x : RowOfBrought(x) => RowOfBrought(x)'
      BY <2>1, StartKeepsBrought DEF PortfolioInv
    <2>5. PortfolioWork(r)'
      BY <2>2, <2>3, <2>4 DEF PortfolioWork
    <2>6. QED
      BY <2>1, <2>5, StartKeepsPortfolioTypes
  <1>4. QED
    BY <1>1, <1>2, <1>3 DEF PortfolioRequest

LEMMA NewImagesMakeRows ==
    ASSUME PortfolioTyped, NEW r \in Arrived, job[r].op # "deletePortfolio", Brought(r)',
           NEW active \in BOOLEAN, NEW row, row = [images |-> NewImages(r), active |-> active]
    PROVE  RowOfBrought(row)'
  <1>1. NewImages(r) \subseteq Images
    BY NewImagesAreImages
  <1>2. \A image \in NewImages(r) : image[1] = r
    BY DEF NewImages
  <1>3. QED
    BY <1>1, <1>2 DEF RowOfBrought, PortfolioRows

LEMMA PortfolioStepTypes ==
    ASSUME PortfolioInv, PortfolioTyped, NEW r \in Requests, PortfolioStep(r)
    PROVE  PortfolioTyped'
  <1> USE DEF Goes, Continue, Answer, Answers, At, InProgress, portfolioTables
  <1>0. /\ \A p \in DOMAIN portfolios : p \in Creators /\ RowOfBrought(portfolios[p])
        /\ r \in Creators /\ stored \subseteq Images /\ PortfolioWork(r)
        /\ pc[r] # "idle" => r \in Arrived /\ job[r] \in PortfolioJobs
    BY DEF Creators, PortfolioTyped, Arrived
  <1>1. CASE Upload(r)
    <2>1. Goes(r) /\ UNCHANGED portfolios /\ stored' = stored \cup NewImages(r)
      BY <1>1 DEF Upload
    <2>2. ~Brought(r) /\ r \in Arrived /\ job[r].op # "deletePortfolio"
      BY <1>0, <1>1, RequestConstants DEF Upload, Brought, PortfolioInv, Creating, SavingPortfolio,
                                          Replacing
    <2>3. \A row : RowOfBrought(row) => RowOfBrought(row)'
      BY <2>1, <2>2, GoKeepsBrought
    <2>4. /\ pc'[r] = IF job[r].op = "createPortfolio" THEN "insert" ELSE "replace"
          /\ held'[r] = held[r] /\ job' = job
      BY <1>1 DEF Upload, PortfolioInv, HttpInv
    <2>5. PortfolioWork(r)'
      BY <1>0, <1>1, <2>3, <2>4 DEF Upload, PortfolioWork
    <2>6. QED
      BY <1>0, <2>1, <2>2, <2>5, NewImagesAreImages, GoKeepsPortfolioTypes
  <1>2. CASE UploadFails(r)
    <2>1. Goes(r) /\ UNCHANGED portfolios /\ stored' \subseteq stored \cup NewImages(r)
      BY <1>2 DEF UploadFails
    <2>2. ~Brought(r) /\ r \in Arrived /\ job[r].op # "deletePortfolio"
      BY <1>0, <1>2, RequestConstants DEF UploadFails, Brought, PortfolioInv, Creating,
                                          SavingPortfolio, Replacing
    <2>3. pc'[r] \in {"answered", "cleanUp"}
      BY <1>2 DEF UploadFails, PortfolioInv, HttpInv
    <2>4. PortfolioWork(r)'
      BY <2>3 DEF PortfolioWork
    <2>5. QED
      BY <1>0, <2>1, <2>2, <2>4, NewImagesAreImages, GoKeepsPortfolioTypes
  <1>3. CASE CleanUp(r)
    <2>1. held[r].answer \in {"refused", "error"}
      BY <1>3 DEF CleanUp, PortfolioInv, Creating, SavingPortfolio, FailedWith
    <2>2. Goes(r) /\ UNCHANGED portfolios /\ stored' \subseteq stored
      BY <1>3, <2>1 DEF CleanUp
    <2>3. pc'[r] = "answered" /\ answer'[r] = held[r].answer
      BY <1>3 DEF CleanUp, PortfolioInv, HttpInv
    <2>4. (Brought(r) => Brought(r)') /\ PortfolioWork(r)'
      BY <1>3, <2>1, <2>3, RequestConstants DEF CleanUp, Brought, PortfolioWork
    <2>5. QED
      BY <1>0, <2>2, <2>4, GoKeepsPortfolioTypes
  <1>4. CASE InsertPortfolio(r) \/ InsertPortfolioFails(r)
    <2>0. PICK row : row = [images |-> NewImages(r), active |-> TRUE]
      OBVIOUS
    <2>1. Goes(r) /\ stored' = stored /\ (UNCHANGED portfolios \/ PutPortfolio(r, row))
      BY <1>4, <2>0 DEF InsertPortfolio, InsertPortfolioFails
    <2>2. /\ pc'[r] \in {"reread", "cleanUp"} /\ answer'[r] = "none"
          /\ pc'[r] = "cleanUp" => held'[r].answer = "error"
      BY <1>4, <2>1, GoFacts DEF InsertPortfolio, InsertPortfolioFails, PortfolioInv, HttpInv
    <2>3. Brought(r)' /\ PortfolioWork(r)'
      BY <2>2 DEF Brought, PortfolioWork
    <2>4. RowOfBrought(row)'
      <3>1. r \in Arrived /\ job[r].op # "deletePortfolio"
        BY <1>0, <1>4 DEF InsertPortfolio, InsertPortfolioFails
      <3>2. QED
        BY <2>0, <2>1, <2>3, <3>1, NewImagesMakeRows
    <2>5. QED
      BY <1>0, <2>1, <2>3, <2>4, GoKeepsPortfolioTypes
  <1>5. CASE Replace(r)
    <2>1. Goes(r) /\ UNCHANGED portfolios /\ stored' \subseteq stored
      BY <1>5 DEF Replace
    <2>2. RowOfBrought(held[r]) /\ r \in Arrived /\ job[r].op # "deletePortfolio"
      BY <1>0, <1>5 DEF Replace, PortfolioWork
    <2>3. /\ pc'[r] = "load" /\ answer'[r] = "none"
          /\ held'[r] = [images |-> NewImages(r), active |-> held[r].active]
      BY <1>5, <2>1, <2>2, GoFacts DEF Replace, PortfolioInv, HttpInv, RowOfBrought, PortfolioRows
    <2>4. Brought(r)'
      BY <2>3 DEF Brought
    <2>5. held[r].active \in BOOLEAN
      BY <2>2 DEF RowOfBrought, PortfolioRows
    <2>6. PICK row : row = [images |-> NewImages(r), active |-> held[r].active]
      OBVIOUS
    <2>7. RowOfBrought(row)'
      BY <2>1, <2>2, <2>4, <2>5, <2>6, NewImagesMakeRows
    <2>8. PortfolioWork(r)'
      BY <2>3, <2>6, <2>7 DEF PortfolioWork
    <2>9. QED
      BY <1>0, <2>1, <2>4, <2>8, GoKeepsPortfolioTypes
  <1>6. CASE LoadPortfolio(r)
    <2>1. Goes(r) /\ UNCHANGED portfolioTables
      BY <1>6 DEF LoadPortfolio
    <2>2. pc'[r] = "write" /\ answer'[r] = "none" /\ held'[r].entity = held[r]
      BY <1>6, <2>1, GoFacts DEF LoadPortfolio, PortfolioInv, HttpInv
    <2>3. Brought(r)' /\ RowOfBrought(held[r])
      BY <1>0, <1>6, <2>2 DEF Brought, LoadPortfolio, PortfolioWork
    <2>4. PortfolioWork(r)'
      BY <2>1, <2>2, <2>3, GoKeepsBrought DEF PortfolioWork
    <2>5. QED
      BY <1>0, <2>1, <2>3, <2>4, GoKeepsPortfolioTypes
  <1>7. CASE WritePortfolio(r) \/ SavePortfolioFails(r)
    <2> DEFINE p == job[r].portfolio
    <2>0. PICK row : row = Merge(portfolios[p], held[r].entity, held[r].dirty)
      OBVIOUS
    <2>1. /\ Goes(r) /\ stored' = stored
          /\ UNCHANGED portfolios \/ (pc[r] = "write" /\ PutPortfolio(p, row))
      BY <1>7, <2>0 DEF WritePortfolio, SavePortfolioFails, WritesPortfolio, SavesPortfolio
    <2>2. /\ pc'[r] \in {"reread", "cleanUp", "answered"} /\ answer'[r] # "refused"
          /\ pc'[r] = "cleanUp" => held'[r].answer = "error"
      BY <1>7, <2>1, GoFacts DEF WritePortfolio, SavePortfolioFails, PortfolioInv, HttpInv
    <2>3. Brought(r)' /\ PortfolioWork(r)'
      BY <2>2 DEF Brought, PortfolioWork
    <2>4. p \in DOMAIN portfolios
      BY <1>7, <2>1 DEF PortfolioInv, Creating, SavingPortfolio, WritePortfolio,
                        SavePortfolioFails, SavesPortfolio
    <2>5. pc[r] = "write" => RowOfBrought(row)
      BY <1>0, <2>0, <2>4 DEF PortfolioWork, RowOfBrought, Merge, PortfolioRows
    <2>6. UNCHANGED portfolios \/ (RowOfBrought(row)' /\ PutPortfolio(p, row))
      BY <2>1, <2>3, <2>5, GoKeepsBrought
    <2>7. p \in Creators
      BY <1>0, <2>4
    <2>8. QED
      BY <1>0, <2>1, <2>3, <2>6, <2>7, GoKeepsPortfolioTypes
  <1>8. CASE RereadPortfolio(r)
    <2>1. Goes(r) /\ UNCHANGED portfolioTables
      BY <1>8 DEF RereadPortfolio
    <2>2. pc'[r] = "answered" /\ answer'[r] # "refused"
      BY <1>8 DEF RereadPortfolio, PortfolioInv, HttpInv
    <2>3. Brought(r)' /\ PortfolioWork(r)'
      BY <2>2 DEF Brought, PortfolioWork
    <2>4. QED
      BY <1>0, <2>1, <2>3, GoKeepsPortfolioTypes
  <1>9. QED
    BY <1>1, <1>2, <1>3, <1>4, <1>5, <1>6, <1>7, <1>8 DEF PortfolioStep

LEMMA PortfoliosTyped == PortfolioSpec => []PortfolioTyped
  <1>1. PortfolioInit => PortfolioTyped
    <2> SUFFICES ASSUME PortfolioInit PROVE PortfolioTyped
      OBVIOUS
    <2>1. HttpTypeOK
      BY HttpTypesStart DEF PortfolioInit
    <2>2. Arrived = {} /\ \A r \in Requests : pc[r] = "idle"
      BY DEF PortfolioInit, HttpInit, Arrived
    <2>3. /\ DOMAIN portfolios = {Nobody} /\ stored = {<<Nobody, 1>>}
          /\ portfolios[Nobody] = [images |-> {<<Nobody, 1>>}, active |-> TRUE]
      BY DEF PortfolioInit, PortfolioTablesSeeded
    <2>4. <<Nobody, 1>> \in Images
      BY DEF Images, Creators
    <2>5. RowOfBrought(portfolios[Nobody])
      BY <2>3, <2>4 DEF RowOfBrought, PortfolioRows, Brought
    <2>6. QED
      BY <2>1, <2>2, <2>3, <2>4, <2>5 DEF PortfolioTyped, PortfolioWork, Creators
  <1>2. PortfolioInv /\ PortfolioTyped /\ [PortfolioNext]_portfolioVars => PortfolioTyped'
    <2>1. PortfolioTyped /\ UNCHANGED portfolioVars => PortfolioTyped'
      BY DEF portfolioVars, portfolioTables, httpVars, PortfolioTyped, HttpTypeOK, Arrived,
             Answered, InProgress, PortfolioWork, RowOfBrought, Brought
    <2>2. QED
      BY <2>1, PortfolioRequestTypes, PortfolioStepTypes DEF PortfolioNext
  <1>3. QED
    BY <1>1, <1>2, PortfolioInitInv, PortfolioNextInv, PTL DEF PortfolioSpec

\* Portfolios are of their types, and no portfolio shows an image of a request that has
\* not uploaded it yet, or that was refused.
THEOREM PortfoliosTypeCorrect == PortfolioSpec => []PortfolioTypeOK
  BY PortfoliosTyped, PortfolioTypedIsTypeOK, PTL
-----------------------------------------------------------------------------
(* Portfolios: what was deleted.                                           *)

Deletions(p) == {d \in SavesOfPortfolio(p) : job[d].op = "deletePortfolio"}

HoldsPortfolio(s) == pc[s] \in {"upload", "replace", "load", "write"}

\* The state that a save under way holds, before save()'s load and after.
HeldActive(s) == IF pc[s] = "write" THEN held[s].entity.active ELSE held[s].active

ShowingExcused(d, p) == \E s \in SavesOfPortfolio(p) : Overlap(d, s)

\* A deletion that nothing overlapped holds the portfolio hidden until its write, and
\* once it was answered the row is hidden, as is every copy of it that a save holds.
DeletedPortfolios ==
    \A p \in Creators : \A d \in Deletions(p) :
       /\ InProgress(d) => HoldsPortfolio(d)
       /\ Succeeded(d) => p \in DOMAIN portfolios
       /\ p \in DOMAIN portfolios => ShowingExcused(d, p) \/
             /\ InProgress(d) =>
                   /\ ~HeldActive(d)
                   /\ pc[d] = "write" => "active" \in held[d].dirty \/ ~portfolios[p].active
             /\ Succeeded(d) =>
                   /\ ~portfolios[p].active
                   /\ \A s \in SavesOfPortfolio(p) : HoldsPortfolio(s) => ~HeldActive(s)

PortfolioHistory == PortfolioInv /\ PortfolioTyped /\ DeletedPortfolios

\* A request that arrives writes nothing, and one that is to save a portfolio holds the
\* row, hidden if it is to delete it.
PortfolioStarted(r, j) ==
    /\ Starts(r, j) /\ UNCHANGED portfolios /\ answer'[r] # "ok"
    /\ (j.op # "createPortfolio" /\ InProgress(r)') =>
          /\ j.portfolio \in DOMAIN portfolios /\ pc'[r] \in {"upload", "load"}
          /\ IF j.op = "deletePortfolio" THEN ~held'[r].active
                ELSE held'[r].active = portfolios[j.portfolio].active

\* The save's UPDATE comes to the row.
WroteActive(r, p) ==
    /\ pc[r] = "write" /\ SavesPortfolio(r) /\ job[r].portfolio = p
    /\ portfolios'[p].active =
          IF "active" \in held[r].dirty THEN held[r].entity.active ELSE portfolios[p].active

\* A later step inserts the request's own row or writes the one it saves; on its way there
\* a save keeps the state it holds.
PortfolioWent(r) ==
    /\ Goes(r)
    /\ DOMAIN portfolios \subseteq DOMAIN portfolios'
    /\ \A p \in DOMAIN portfolios' \ DOMAIN portfolios : p = r
    /\ \A p \in DOMAIN portfolios :
          portfolios'[p].active = portfolios[p].active \/ WroteActive(r, p)
    /\ (job[r].op = "deletePortfolio" /\ answer'[r] = "ok") => WroteActive(r, job[r].portfolio)
    /\ (SavesPortfolio(r) /\ HoldsPortfolio(r)') =>
          /\ HoldsPortfolio(r) /\ pc[r] # "write" /\ HeldActive(r)' = HeldActive(r)
          /\ pc'[r] = "write" =>
                LET p == job[r].portfolio
                IN  /\ portfolios'[p].active = portfolios[p].active
                    /\ "active" \in held'[r].dirty \/ HeldActive(r) = portfolios[p].active
    /\ (job[r].op = "deletePortfolio" /\ InProgress(r)') => HoldsPortfolio(r)'

LEMMA PortfolioStarts ==
    ASSUME PortfolioInv, PortfolioTyped, NEW r \in Requests, PortfolioRequest(r)
    PROVE  \E j : PortfolioStarted(r, j)
  <1> USE DEF Starts, Begin, Serve, Arrive, Answers, InProgress, portfolioTables
  <1>0. answer[r] # "ok" \/ pc[r] # "idle"
    BY DEF PortfolioInv, HttpInv
  <1>1. ASSUME NEW n \in ImageCounts, CreatePortfolio(r, n) PROVE \E j : PortfolioStarted(r, j)
    <2> DEFINE j == [op |-> "createPortfolio", count |-> n]
    <2>1. Starts(r, j) /\ UNCHANGED portfolios /\ j.op = "createPortfolio"
      BY <1>1 DEF CreatePortfolio
    <2>2. answer'[r] # "ok"
      BY <1>0, <1>1 DEF CreatePortfolio, PortfolioInv, HttpInv
    <2> HIDE DEF j
    <2>3. QED
      BY <2>1, <2>2 DEF PortfolioStarted
  <1>2. ASSUME NEW p, NEW n \in ImageCounts, UpdatePortfolio(r, p, n)
        PROVE  \E j : PortfolioStarted(r, j)
    <2> DEFINE j == [op |-> "updatePortfolio", portfolio |-> p, count |-> n]
    <2>1. Starts(r, j) /\ UNCHANGED portfolios
      BY <1>2 DEF UpdatePortfolio
    <2>2. /\ answer'[r] # "ok" /\ pc'[r] \in {"upload", "load", "answered"}
          /\ pc'[r] # "answered" => p \in DOMAIN portfolios /\ held'[r] = portfolios[p]
      BY <1>0, <1>2 DEF UpdatePortfolio, PortfolioInv, HttpInv
    <2>3. j.op = "updatePortfolio" /\ j.portfolio = p
      OBVIOUS
    <2> HIDE DEF j
    <2>4. QED
      BY <2>1, <2>2, <2>3 DEF PortfolioStarted
  <1>3. ASSUME NEW p, DeletePortfolio(r, p) PROVE \E j : PortfolioStarted(r, j)
    <2> DEFINE j == [op |-> "deletePortfolio", portfolio |-> p]
    <2>1. Starts(r, j) /\ UNCHANGED portfolios
      BY <1>3 DEF DeletePortfolio
    <2>2. /\ answer'[r] # "ok" /\ pc'[r] \in {"load", "answered"}
          /\ pc'[r] # "answered" =>
                p \in DOMAIN portfolios /\ held'[r] = [portfolios[p] EXCEPT !.active = FALSE]
      BY <1>0, <1>3 DEF DeletePortfolio, PortfolioInv, HttpInv
    <2>3. p \in DOMAIN portfolios => "active" \in DOMAIN portfolios[p]
      BY DEF PortfolioInv, IsPortfolio
    <2>4. j.op = "deletePortfolio" /\ j.portfolio = p
      OBVIOUS
    <2>5. pc'[r] # "answered" => ~held'[r].active
      BY <2>2, <2>3
    <2> HIDE DEF j
    <2>6. QED
      BY <2>1, <2>2, <2>4, <2>5 DEF PortfolioStarted
  <1>4. QED
    BY <1>1, <1>2, <1>3 DEF PortfolioRequest

LEMMA PortfolioGoes ==
    ASSUME PortfolioHistory, NEW r \in Requests, PortfolioStep(r)
    PROVE  PortfolioWent(r)
  <1> USE DEF Goes, Continue, Answer, Answers, At, InProgress, portfolioTables, PortfolioHistory
  <1>1. CASE Upload(r)
    <2>1. Goes(r) /\ UNCHANGED portfolios
      BY <1>1 DEF Upload
    <2>2. /\ pc[r] = "upload" /\ pc'[r] = IF job[r].op = "createPortfolio" THEN "insert" ELSE "replace"
          /\ held'[r] = held[r] /\ answer'[r] # "ok"
      BY <1>1 DEF Upload, PortfolioInv, HttpInv
    <2>3. job[r].op # "deletePortfolio"
      BY <2>2, TargetFacts DEF SavingPortfolio, Replacing, Creating
    <2>4. QED
      BY <2>1, <2>2, <2>3 DEF PortfolioWent, HoldsPortfolio, HeldActive, SavesPortfolio
  <1>2. CASE UploadFails(r)
    <2>1. Goes(r) /\ UNCHANGED portfolios
      BY <1>2 DEF UploadFails
    <2>2. pc[r] = "upload" /\ pc'[r] \in {"cleanUp", "answered"} /\ answer'[r] # "ok"
      BY <1>2 DEF UploadFails, PortfolioInv, HttpInv
    <2>3. job[r].op # "deletePortfolio"
      BY <2>2, TargetFacts DEF SavingPortfolio, Replacing, Creating
    <2>4. QED
      BY <2>1, <2>2, <2>3 DEF PortfolioWent, HoldsPortfolio
  <1>3. CASE CleanUp(r)
    <2>1. pc[r] = "cleanUp" /\ held[r].answer \in {"refused", "error"}
      BY <1>3 DEF CleanUp, PortfolioInv, Creating, SavingPortfolio, FailedWith
    <2>2. Goes(r) /\ UNCHANGED portfolios
      BY <1>3, <2>1 DEF CleanUp
    <2>3. pc'[r] = "answered" /\ answer'[r] # "ok"
      BY <1>3, <2>1 DEF CleanUp, PortfolioInv, HttpInv
    <2>4. QED
      BY <2>1, <2>2, <2>3 DEF PortfolioWent, HoldsPortfolio
  <1>4. CASE InsertPortfolio(r) \/ InsertPortfolioFails(r)
    <2>1. /\ Goes(r) /\ pc[r] = "insert" /\ job[r].op = "createPortfolio"
          /\ \/ UNCHANGED portfolios
             \/ PutPortfolio(r, [images |-> NewImages(r), active |-> TRUE])
      BY <1>4 DEF InsertPortfolio, InsertPortfolioFails
    <2>2. pc'[r] \in {"reread", "cleanUp"} /\ answer'[r] # "ok"
      BY <1>4 DEF InsertPortfolio, InsertPortfolioFails, PortfolioInv, HttpInv
    <2>3. r \notin DOMAIN portfolios
      BY <2>1, TargetFacts
    <2>4. /\ DOMAIN portfolios \subseteq DOMAIN portfolios'
          /\ \A p \in DOMAIN portfolios' \ DOMAIN portfolios : p = r
          /\ \A p \in DOMAIN portfolios : portfolios'[p] = portfolios[p]
      BY <2>1, <2>3 DEF PutPortfolio
    <2>5. QED
      BY <2>1, <2>2, <2>4 DEF PortfolioWent, HoldsPortfolio
  <1>5. CASE Replace(r)
    <2>1. Goes(r) /\ UNCHANGED portfolios
      BY <1>5 DEF Replace
    <2>2. /\ pc[r] = "replace" /\ pc'[r] = "load" /\ answer'[r] # "ok"
          /\ job[r].op = "updatePortfolio"
          /\ held'[r] = [held[r] EXCEPT !.images = NewImages(r)]
      BY <1>5 DEF Replace, PortfolioInv, HttpInv
    <2>3. "active" \in DOMAIN held[r]
      BY <2>2, TargetFacts DEF SavesPortfolio, SavingPortfolio, IsPortfolio
    <2>4. held'[r].active = held[r].active
      BY <2>2, <2>3
    <2>5. QED
      BY <2>1, <2>2, <2>4 DEF PortfolioWent, HoldsPortfolio, HeldActive
  <1>6. CASE LoadPortfolio(r)
    <2> DEFINE p == job[r].portfolio
    <2>1. Goes(r) /\ UNCHANGED portfolios
      BY <1>6 DEF LoadPortfolio
    <2>2. /\ pc[r] = "load" /\ pc'[r] = "write" /\ answer'[r] # "ok"
          /\ held'[r].entity = held[r] /\ held'[r].dirty = Dirty(held[r], portfolios[p])
      BY <1>6 DEF LoadPortfolio, PortfolioInv, HttpInv
    <2>3. "active" \in DOMAIN held[r]
      BY <1>6, <2>2, TargetFacts DEF LoadPortfolio, SavingPortfolio, IsPortfolio
    <2>4. "active" \in held'[r].dirty \/ held[r].active = portfolios[p].active
      BY <2>2, <2>3 DEF Dirty
    <2>5. HeldActive(r) = held[r].active /\ HeldActive(r)' = held[r].active
      BY <2>2 DEF HeldActive
    <2>6. QED
      BY <2>1, <2>2, <2>4, <2>5 DEF PortfolioWent, HoldsPortfolio
  <1>7. CASE WritePortfolio(r) \/ SavePortfolioFails(r)
    <2>0. PICK p, row : p = job[r].portfolio
                        /\ row = Merge(portfolios[p], held[r].entity, held[r].dirty)
      OBVIOUS
    <2>1. /\ Goes(r) /\ SavesPortfolio(r)
          /\ UNCHANGED portfolios \/ (pc[r] = "write" /\ PutPortfolio(p, row))
      BY <1>7, <2>0 DEF WritePortfolio, SavePortfolioFails, WritesPortfolio, SavesPortfolio
    <2>2. /\ pc'[r] \in {"reread", "cleanUp", "answered"}
          /\ job[r].op = "deletePortfolio" => pc'[r] = "answered"
          /\ answer'[r] = "ok" => WritePortfolio(r)
      BY <1>7, <2>1 DEF WritePortfolio, SavePortfolioFails, SavesPortfolio, PortfolioInv, HttpInv
    <2>3. p \in DOMAIN portfolios /\ "active" \in DOMAIN portfolios[p]
      BY <2>0, <2>1, TargetFacts DEF SavingPortfolio, PortfolioInv, IsPortfolio
    <2>4. PutPortfolio(p, row) =>
             /\ DOMAIN portfolios' = DOMAIN portfolios /\ portfolios'[p] = row
             /\ \A q \in DOMAIN portfolios \ {p} : portfolios'[q] = portfolios[q]
      BY <2>3 DEF PutPortfolio
    <2>5. row.active = IF "active" \in held[r].dirty THEN held[r].entity.active
                          ELSE portfolios[p].active
      BY <2>0, <2>3 DEF Merge
    <2>6. pc[r] = "write" /\ PutPortfolio(p, row) => WroteActive(r, p)
      BY <2>0, <2>1, <2>4, <2>5 DEF WroteActive
    <2>7. WritePortfolio(r) => pc[r] = "write" /\ PutPortfolio(p, row)
      BY <2>0 DEF WritePortfolio, WritesPortfolio
    <2>8. DOMAIN portfolios' = DOMAIN portfolios
      BY <2>1, <2>4
    <2>9. \A q \in DOMAIN portfolios :
             portfolios'[q].active = portfolios[q].active \/ WroteActive(r, q)
      BY <2>1, <2>4, <2>6
    <2>10. answer'[r] = "ok" => WroteActive(r, p)
      BY <2>2, <2>6, <2>7
    <2>11. ~HoldsPortfolio(r)' /\ (job[r].op = "deletePortfolio" => ~InProgress(r)')
      BY <2>2 DEF HoldsPortfolio
    <2>12. QED
      BY <2>0, <2>1, <2>8, <2>9, <2>10, <2>11 DEF PortfolioWent
  <1>8. CASE RereadPortfolio(r)
    <2>1. Goes(r) /\ UNCHANGED portfolios /\ pc[r] = "reread" /\ pc'[r] = "answered"
      BY <1>8 DEF RereadPortfolio, PortfolioInv, HttpInv
    <2>2. job[r].op # "deletePortfolio"
      <3>1. SUFFICES ASSUME job[r].op = "deletePortfolio" PROVE FALSE
        OBVIOUS
      <3>2. /\ r \in SavesOfPortfolio(job[r].portfolio) /\ InProgress(r)
            /\ job[r].portfolio \in Creators
        BY <2>1, <3>1, TargetFacts DEF SavesPortfolio, PortfolioTyped
      <3>3. HoldsPortfolio(r)
        BY <3>1, <3>2 DEF DeletedPortfolios, Deletions
      <3>4. QED
        BY <2>1, <3>3 DEF HoldsPortfolio
    <2>3. QED
      BY <2>1, <2>2 DEF PortfolioWent, HoldsPortfolio
  <1>9. QED
    BY <1>1, <1>2, <1>3, <1>4, <1>5, <1>6, <1>7, <1>8 DEF PortfolioStep

\* Who saves what after a start, and after a later step.
LEMMA NewcomersPortfolio ==
    ASSUME PortfolioInv, NEW r \in Requests, NEW j, PortfolioStarted(r, j)
    PROVE  /\ ArrivedStay /\ UNCHANGED portfolios /\ ~Succeeded(r)'
           /\ \A q \in Requests \ {r} :
                 /\ pc'[q] = pc[q] /\ held'[q] = held[q]
                 /\ InProgress(q)' <=> InProgress(q)
                 /\ Succeeded(q)' <=> Succeeded(q)
                 /\ HoldsPortfolio(q)' <=> HoldsPortfolio(q)
                 /\ HeldActive(q)' = HeldActive(q)
           /\ \A p : /\ SavesOfPortfolio(p)' \subseteq Requests
                     /\ \A q \in Requests \ {r} :
                           /\ q \in SavesOfPortfolio(p)' <=> q \in SavesOfPortfolio(p)
                           /\ q \in Deletions(p)' <=> q \in Deletions(p)
                     /\ r \in SavesOfPortfolio(p)' =>
                           j.op \in {"updatePortfolio", "deletePortfolio"} /\ j.portfolio = p
                     /\ r \in Deletions(p)' => j.op = "deletePortfolio" /\ j.portfolio = p
                     /\ Deletions(p)' \subseteq SavesOfPortfolio(p)'
           /\ \A q \in Requests : InProgress(q) => Overlap(q, r)' /\ Overlap(r, q)'
  <1>1. HttpInv /\ ArrivedStay /\ UNCHANGED portfolios /\ Starts(r, j)
    BY StepsLeaveArrived DEF PortfolioInv, PortfolioStarted
  <1>2. /\ pc[r] = "idle" /\ pc'[r] # "idle" /\ job'[r] = j
        /\ \A q \in Requests \ {r} :
              /\ pc'[q] = pc[q] /\ job'[q] = job[q] /\ held'[q] = held[q]
              /\ answer'[q] = answer[q] /\ earlier'[q] = earlier[q]
    BY <1>1, StartFacts
  <1>3. \A p : \A q \in Requests \ {r} :
           /\ q \in SavesOfPortfolio(p)' <=> q \in SavesOfPortfolio(p)
           /\ q \in Deletions(p)' <=> q \in Deletions(p)
    BY <1>2 DEF SavesOfPortfolio, SavesPortfolio, Deletions
  <1>4. \A q \in Requests \ {r} :
           /\ InProgress(q)' <=> InProgress(q)
           /\ Succeeded(q)' <=> Succeeded(q)
           /\ HoldsPortfolio(q)' <=> HoldsPortfolio(q)
           /\ HeldActive(q)' = HeldActive(q)
    BY <1>2 DEF InProgress, Succeeded, HoldsPortfolio, HeldActive
  <1>5. ~Succeeded(r)'
    BY DEF Succeeded, PortfolioStarted
  <1>6. \A p : /\ SavesOfPortfolio(p)' \subseteq Requests
               /\ Deletions(p)' \subseteq SavesOfPortfolio(p)'
               /\ r \in SavesOfPortfolio(p)' =>
                     j.op \in {"updatePortfolio", "deletePortfolio"} /\ j.portfolio = p
               /\ r \in Deletions(p)' => j.op = "deletePortfolio" /\ j.portfolio = p
    BY <1>2 DEF SavesOfPortfolio, SavesPortfolio, Deletions
  <1>7. QED
    BY <1>1, <1>2, <1>3, <1>4, <1>5, <1>6, StartOverlaps

LEMMA GoersPortfolio ==
    ASSUME PortfolioInv, NEW r \in Requests, PortfolioWent(r)
    PROVE  /\ ArrivedStay /\ InProgress(r) /\ ~Succeeded(r)
           /\ \A q \in Requests \ {r} :
                 /\ pc'[q] = pc[q] /\ held'[q] = held[q]
                 /\ InProgress(q)' <=> InProgress(q)
                 /\ Succeeded(q)' <=> Succeeded(q)
                 /\ HoldsPortfolio(q)' <=> HoldsPortfolio(q)
                 /\ HeldActive(q)' = HeldActive(q)
           /\ \A p : /\ SavesOfPortfolio(p)' = SavesOfPortfolio(p)
                     /\ Deletions(p)' = Deletions(p)
                     /\ SavesOfPortfolio(p) \subseteq Requests
                     /\ Deletions(p) \subseteq SavesOfPortfolio(p)
                     /\ r \in SavesOfPortfolio(p) => SavesPortfolio(r) /\ job[r].portfolio = p
                     /\ r \in Deletions(p) => job[r].op = "deletePortfolio"
           /\ r \in DOMAIN portfolios' \ DOMAIN portfolios => r \in Requests
           /\ \A q \in Requests \ {r} : InProgress(q) => Overlap(q, r) /\ Overlap(r, q)
  <1>1. HttpInv /\ ArrivedStay /\ Goes(r) /\ InProgress(r)
    BY StepsLeaveArrived DEF PortfolioInv, PortfolioWent, Goes
  <1>2. /\ job' = job /\ answer[r] = "none" /\ pc[r] # "idle" /\ pc'[r] # "idle"
        /\ \A q \in Requests \ {r} :
              pc'[q] = pc[q] /\ held'[q] = held[q] /\ answer'[q] = answer[q]
    BY <1>1, GoFacts
  <1>3. \A p : /\ SavesOfPortfolio(p)' = SavesOfPortfolio(p)
               /\ Deletions(p)' = Deletions(p)
               /\ SavesOfPortfolio(p) \subseteq Requests
               /\ Deletions(p) \subseteq SavesOfPortfolio(p)
               /\ r \in SavesOfPortfolio(p) => SavesPortfolio(r) /\ job[r].portfolio = p
               /\ r \in Deletions(p) => job[r].op = "deletePortfolio"
    BY <1>2 DEF SavesOfPortfolio, SavesPortfolio, Deletions
  <1>4. \A q \in Requests \ {r} :
           /\ InProgress(q)' <=> InProgress(q)
           /\ Succeeded(q)' <=> Succeeded(q)
           /\ HoldsPortfolio(q)' <=> HoldsPortfolio(q)
           /\ HeldActive(q)' = HeldActive(q)
    BY <1>2 DEF InProgress, Succeeded, HoldsPortfolio, HeldActive
  <1>5. ~Succeeded(r)
    BY <1>2 DEF Succeeded
  <1>6. QED
    BY <1>1, <1>2, <1>3, <1>4, <1>5, InProgressOverlap

LEMMA ShowingsStayExcused ==
    ASSUME ArrivedStay
    PROVE  \A d, p : ShowingExcused(d, p) => ShowingExcused(d, p)'
  <1>1. \A p : SavesOfPortfolio(p) \subseteq SavesOfPortfolio(p)'
    BY DEF ArrivedStay, SavesOfPortfolio, SavesPortfolio, Arrived
  <1>2. QED
    BY <1>1 DEF ArrivedStay, ShowingExcused

LEMMA StartKeepsDeletedPortfolios ==
    ASSUME PortfolioHistory, NEW r \in Requests, NEW j, PortfolioStarted(r, j)
    PROVE  DeletedPortfolios'
  <1> USE DEF PortfolioHistory
  <1>1. ASSUME NEW p \in Creators, NEW d \in Deletions(p)'
        PROVE  /\ InProgress(d)' => HoldsPortfolio(d)'
               /\ Succeeded(d)' => p \in DOMAIN portfolios'
    <2>1. d = r \/ (d \in Deletions(p) /\ d \in Requests \ {r})
      BY <1>1, NewcomersPortfolio
    <2>2. CASE d = r
      BY <1>1, <2>2, NewcomersPortfolio DEF PortfolioStarted, HoldsPortfolio
    <2>3. CASE d # r
      BY <1>1, <2>1, <2>3, NewcomersPortfolio DEF DeletedPortfolios
    <2>4. QED
      BY <2>2, <2>3
  <1>2. ASSUME NEW p \in Creators, NEW d \in Deletions(p)', p \in DOMAIN portfolios',
               ~ShowingExcused(d, p)'
        PROVE  /\ InProgress(d)' =>
                     /\ ~HeldActive(d)'
                     /\ pc'[d] = "write" =>
                           "active" \in held'[d].dirty \/ ~portfolios'[p].active
               /\ Succeeded(d)' =>
                     /\ ~portfolios'[p].active
                     /\ \A s \in SavesOfPortfolio(p)' : HoldsPortfolio(s)' => ~HeldActive(s)'
    <2>1. CASE d = r
      BY <1>2, <2>1, NewcomersPortfolio DEF PortfolioStarted, HeldActive
    <2>2. CASE d # r
      <3>1. d \in Deletions(p) /\ d \in Requests \ {r}
        BY <1>2, <2>2, NewcomersPortfolio
      <3>2. p \in DOMAIN portfolios /\ ~ShowingExcused(d, p)
        BY <1>2, NewcomersPortfolio, ShowingsStayExcused
      <3>3. ASSUME Succeeded(d)', NEW s \in SavesOfPortfolio(p)', HoldsPortfolio(s)'
            PROVE  ~HeldActive(s)'
        <4>1. CASE s = r
          <5>1. j.portfolio = p /\ j.op # "createPortfolio" /\ InProgress(r)'
            BY <3>3, <4>1, NewcomersPortfolio DEF HoldsPortfolio, InProgress
          <5>2. ~portfolios[p].active
            BY <3>1, <3>2, <3>3, NewcomersPortfolio DEF DeletedPortfolios
          <5>3. QED
            BY <4>1, <5>1, <5>2 DEF PortfolioStarted, HeldActive
        <4>2. CASE s # r
          <5>1. s \in SavesOfPortfolio(p) /\ s \in Requests \ {r}
            BY <3>3, <4>2, NewcomersPortfolio
          <5>2. HoldsPortfolio(s) /\ HeldActive(s)' = HeldActive(s) /\ Succeeded(d)
            BY <3>1, <3>3, <5>1, NewcomersPortfolio
          <5>3. QED
            BY <3>1, <3>2, <5>1, <5>2 DEF DeletedPortfolios
        <4>3. QED
          BY <4>1, <4>2
      <3>4. QED
        BY <3>1, <3>2, <3>3, NewcomersPortfolio DEF DeletedPortfolios
    <2>3. QED
      BY <2>1, <2>2
  <1>3. QED
    BY <1>1, <1>2 DEF DeletedPortfolios

LEMMA GoKeepsDeletedPortfolios ==
    ASSUME PortfolioHistory, NEW r \in Requests, PortfolioWent(r)
    PROVE  DeletedPortfolios'
  <1> USE DEF PortfolioHistory
  <1>1. ASSUME NEW p \in Creators, NEW d \in Deletions(p)'
        PROVE  /\ d \in Deletions(p) /\ d \in Requests
               /\ d # r => (InProgress(d)' <=> InProgress(d)) /\ (Succeeded(d)' <=> Succeeded(d))
               /\ InProgress(d)' => HoldsPortfolio(d)'
               /\ Succeeded(d)' => p \in DOMAIN portfolios
    <2>1. d \in Deletions(p) /\ d \in Requests
      BY <1>1, GoersPortfolio
    <2>2. CASE d = r
      <3>1. p = job[r].portfolio /\ SavesPortfolio(r) /\ job[r].op = "deletePortfolio"
        BY <2>1, <2>2, GoersPortfolio
      <3>2. p \in DOMAIN portfolios
        BY <3>1, GoersPortfolio, TargetFacts
      <3>3. QED
        BY <2>1, <2>2, <3>1, <3>2 DEF PortfolioWent
    <2>3. CASE d # r
      BY <2>1, <2>3, GoersPortfolio DEF DeletedPortfolios
    <2>4. QED
      BY <2>1, <2>2, <2>3
  <1>2. ASSUME NEW p \in Creators, NEW d \in Deletions(p)', p \in DOMAIN portfolios',
               ~ShowingExcused(d, p)'
        PROVE  /\ InProgress(d)' =>
                     /\ ~HeldActive(d)'
                     /\ pc'[d] = "write" =>
                           "active" \in held'[d].dirty \/ ~portfolios'[p].active
               /\ Succeeded(d)' =>
                     /\ ~portfolios'[p].active
                     /\ \A s \in SavesOfPortfolio(p)' : HoldsPortfolio(s)' => ~HeldActive(s)'
    <2>1. ~ShowingExcused(d, p) /\ d \in Deletions(p) /\ d \in Requests
      BY <1>1, <1>2, GoersPortfolio, ShowingsStayExcused
    <2>2. InProgress(d)' \/ Succeeded(d)' => p \in DOMAIN portfolios
      <3>1. CASE d = r
        BY <2>1, <3>1, GoersPortfolio, TargetFacts
      <3>2. CASE d # r
        <4>1. InProgress(d) => p \in DOMAIN portfolios
          BY <2>1, GoersPortfolio, TargetFacts DEF Deletions, SavesOfPortfolio
        <4>2. QED
          BY <1>1, <1>2, <3>2, <4>1
      <3>3. QED
        BY <3>1, <3>2
    <2>3. CASE d = r /\ p \in DOMAIN portfolios
      <3>1. p = job[r].portfolio /\ SavesPortfolio(r) /\ job[r].op = "deletePortfolio"
            /\ InProgress(r)
        BY <2>1, <2>3, GoersPortfolio
      <3>2. /\ ~HeldActive(r)
            /\ pc[r] = "write" => "active" \in held[r].dirty \/ ~portfolios[p].active
        BY <2>1, <2>3, <3>1 DEF DeletedPortfolios
      <3>3. ASSUME InProgress(r)'
            PROVE  /\ ~HeldActive(r)'
                   /\ pc'[r] = "write" => "active" \in held'[r].dirty \/ ~portfolios'[p].active
        BY <3>1, <3>2, <3>3 DEF PortfolioWent
      <3>4. ASSUME Succeeded(r)'
            PROVE  /\ ~portfolios'[p].active
                   /\ \A s \in SavesOfPortfolio(p)' : ~HoldsPortfolio(s)'
        <4>1. WroteActive(r, p)
          BY <3>1, <3>4 DEF PortfolioWent, Succeeded
        <4>2. ~portfolios'[p].active
          BY <3>2, <4>1 DEF WroteActive, HeldActive
        <4>3. pc'[r] = "answered"
          BY <3>4, GoFacts DEF Succeeded, PortfolioWent, PortfolioInv
        <4>4. ASSUME NEW s \in SavesOfPortfolio(p), HoldsPortfolio(s)' PROVE FALSE
          <5>1. s \in Requests \ {r} /\ InProgress(s)
            BY <4>3, <4>4, GoersPortfolio DEF HoldsPortfolio, InProgress
          <5>2. QED
            BY <2>1, <2>3, <4>4, <5>1, GoersPortfolio DEF ShowingExcused
        <4>5. QED
          BY <4>2, <4>4, GoersPortfolio
      <3>5. QED
        BY <2>3, <3>3, <3>4
    <2>4. CASE d # r /\ p \in DOMAIN portfolios /\ r \in SavesOfPortfolio(p)
      <3>1. ~InProgress(d)
        BY <2>1, <2>4, GoersPortfolio DEF ShowingExcused
      <3>2. ASSUME Succeeded(d)
            PROVE  /\ ~portfolios'[p].active
                   /\ \A s \in SavesOfPortfolio(p) : HoldsPortfolio(s)' => ~HeldActive(s)'
        <4>1. /\ ~portfolios[p].active
              /\ \A s \in SavesOfPortfolio(p) : HoldsPortfolio(s) => ~HeldActive(s)
          BY <2>1, <2>4, <3>2 DEF DeletedPortfolios
        <4>2. ~portfolios'[p].active
          <5>1. CASE WroteActive(r, p)
            BY <2>4, <4>1, <5>1 DEF WroteActive, HeldActive, HoldsPortfolio
          <5>2. QED
            BY <2>4, <4>1, <5>1 DEF PortfolioWent
        <4>3. \A s \in SavesOfPortfolio(p) : HoldsPortfolio(s)' => ~HeldActive(s)'
          <5>1. HoldsPortfolio(r)' => ~HeldActive(r)'
            BY <2>4, <4>1, GoersPortfolio DEF PortfolioWent
          <5>2. QED
            BY <4>1, <5>1, GoersPortfolio
        <4>4. QED
          BY <4>2, <4>3
      <3>3. QED
        BY <2>1, <2>4, <3>1, <3>2, GoersPortfolio
    <2>5. CASE d # r /\ p \in DOMAIN portfolios /\ r \notin SavesOfPortfolio(p)
      <3>1. portfolios'[p].active = portfolios[p].active
        BY <2>5, GoersPortfolio DEF PortfolioWent, WroteActive, SavesOfPortfolio
      <3>2. \A s \in SavesOfPortfolio(p) : /\ HoldsPortfolio(s)' <=> HoldsPortfolio(s)
                                          /\ HeldActive(s)' = HeldActive(s)
        BY <2>5, GoersPortfolio
      <3>3. QED
        BY <2>1, <2>5, <3>1, <3>2, GoersPortfolio DEF DeletedPortfolios
    <2>6. QED
      BY <2>2, <2>3, <2>4, <2>5
  <1>3. ASSUME NEW p \in Creators, NEW d \in Deletions(p)', Succeeded(d)'
        PROVE  p \in DOMAIN portfolios'
    BY <1>1, <1>3 DEF PortfolioWent
  <1>4. QED
    BY <1>1, <1>2, <1>3 DEF DeletedPortfolios

\* However requests about portfolios interleave, one that was deleted stays hidden,
\* but for the overlaps that the property names.
THEOREM PortfoliosHistoryHolds == PortfolioSpec => []PortfolioHistory
  <1>1. PortfolioInit => DeletedPortfolios
    BY DEF PortfolioInit, HttpInit, DeletedPortfolios, Deletions, SavesOfPortfolio, SavesPortfolio
  <1>2. PortfolioHistory /\ [PortfolioNext]_portfolioVars => DeletedPortfolios'
    <2> SUFFICES ASSUME PortfolioHistory, [PortfolioNext]_portfolioVars PROVE DeletedPortfolios'
      OBVIOUS
    <2>1. ASSUME NEW r \in Requests, PortfolioRequest(r) PROVE DeletedPortfolios'
      BY <2>1, PortfolioStarts, StartKeepsDeletedPortfolios DEF PortfolioHistory
    <2>2. ASSUME NEW r \in Requests, PortfolioStep(r) PROVE DeletedPortfolios'
      BY <2>2, PortfolioGoes, GoKeepsDeletedPortfolios
    <2>3. CASE UNCHANGED portfolioVars
      BY <2>3 DEF portfolioVars, portfolioTables, httpVars, PortfolioHistory, DeletedPortfolios,
         Deletions, SavesOfPortfolio, SavesPortfolio, HoldsPortfolio, HeldActive, ShowingExcused,
         Overlap, InProgress, Succeeded
    <2>4. QED
      BY <2>1, <2>2, <2>3 DEF PortfolioNext
  <1>3. PortfolioHistory <=> PortfolioInv /\ PortfolioTyped /\ DeletedPortfolios
    BY DEF PortfolioHistory
  <1>4. PortfolioSpec => [](PortfolioInv /\ PortfolioTyped)
    BY PortfolioInitInv, PortfolioNextInv, PortfoliosTyped, PTL DEF PortfolioSpec
  <1>5. QED
    BY <1>1, <1>2, <1>3, <1>4, PTL DEF PortfolioSpec

LEMMA PortfolioHistoryHolds == PortfolioHistory => DeletedPortfoliosStayDeleted
  <1>1. PortfolioHistory => DOMAIN portfolios \subseteq Creators
    BY DEF PortfolioHistory, PortfolioTyped
  <1>2. QED
    BY <1>1 DEF PortfolioHistory, DeletedPortfolios, DeletedPortfoliosStayDeleted, Deletions,
       ShowingExcused
-----------------------------------------------------------------------------
(* The back office and its areas.                                          *)

\* A step is one of a single area and leaves the others' tables alone.
LEMMA AreaSteps ==
    ASSUME [Next]_backOfficeVars
    PROVE  /\ area' = area
           /\ area = "films" => [FilmNext]_filmVars
           /\ area = "promotions" => [PromotionNext]_promotionVars
           /\ area = "portfolios" => [PortfolioNext]_portfolioVars
           /\ area = "services" => [ServiceNext]_serviceVars
           /\ area = "icons" => [IconNext]_iconVars
           /\ area = "accounts" => [AccountNext]_accountVars
           /\ area # "films" => UNCHANGED filmTables
           /\ area # "promotions" => UNCHANGED promotionTables
           /\ area # "portfolios" => UNCHANGED portfolioTables
           /\ area # "services" => UNCHANGED serviceTables
           /\ area # "icons" => UNCHANGED icons
           /\ area # "accounts" => UNCHANGED accounts
  <1>1. ASSUME NEW r \in Requests, Films(r)
        PROVE  /\ area = "films" /\ area' = area /\ FilmNext
               /\ UNCHANGED promotionTables /\ UNCHANGED portfolioTables
               /\ UNCHANGED serviceTables /\ UNCHANGED icons /\ UNCHANGED accounts
    BY <1>1 DEF Films, FilmNext
  <1>2. ASSUME NEW r \in Requests, PromotionsArea(r)
        PROVE  /\ area = "promotions" /\ area' = area /\ PromotionNext
               /\ UNCHANGED filmTables /\ UNCHANGED portfolioTables
               /\ UNCHANGED serviceTables /\ UNCHANGED icons /\ UNCHANGED accounts
    BY <1>2 DEF PromotionsArea, PromotionNext
  <1>3. ASSUME NEW r \in Requests, Portfolios(r)
        PROVE  /\ area = "portfolios" /\ area' = area /\ PortfolioNext
               /\ UNCHANGED filmTables /\ UNCHANGED promotionTables
               /\ UNCHANGED serviceTables /\ UNCHANGED icons /\ UNCHANGED accounts
    BY <1>3 DEF Portfolios, PortfolioNext
  <1>4. ASSUME NEW r \in Requests, Services(r)
        PROVE  /\ area = "services" /\ area' = area /\ ServiceNext
               /\ UNCHANGED filmTables /\ UNCHANGED promotionTables
               /\ UNCHANGED portfolioTables /\ UNCHANGED icons /\ UNCHANGED accounts
    BY <1>4 DEF Services, ServiceNext
  <1>5. ASSUME NEW r \in Requests, IconsArea(r)
        PROVE  /\ area = "icons" /\ area' = area /\ IconNext
               /\ UNCHANGED filmTables /\ UNCHANGED promotionTables
               /\ UNCHANGED portfolioTables /\ UNCHANGED serviceTables /\ UNCHANGED accounts
    BY <1>5 DEF IconsArea, IconNext
  <1>6. ASSUME NEW r \in Requests, Accounts(r)
        PROVE  /\ area = "accounts" /\ area' = area /\ AccountNext
               /\ UNCHANGED filmTables /\ UNCHANGED promotionTables
               /\ UNCHANGED portfolioTables /\ UNCHANGED serviceTables /\ UNCHANGED icons
    BY <1>6 DEF Accounts, AccountNext
  <1>7. CASE UNCHANGED backOfficeVars
    BY <1>7 DEF backOfficeVars, filmVars, promotionVars, portfolioVars, serviceVars, iconVars,
                accountVars
  <1>8. QED
    BY <1>1, <1>2, <1>3, <1>4, <1>5, <1>6, <1>7 DEF Next

Is(name) == area = name

\* The areas a behaviour is not about, and where they stay.
NoFilms == area # "films" /\ FilmTablesEmpty
NoPromotions == area # "promotions" /\ PromotionTablesEmpty
NoPortfolios == area # "portfolios" /\ PortfolioTablesEmpty
NoServices == area # "services" /\ ServiceTablesEmpty
NoIcons == area # "icons" /\ IconTablesEmpty
NoAccounts == area # "accounts" /\ AccountTablesEmpty

LEMMA AreaStarts ==
    Init => /\ area \in Areas
            /\ area = "films" => FilmInit
            /\ area = "promotions" => PromotionInit
            /\ area = "portfolios" => PortfolioInit
            /\ area = "services" => ServiceInit
            /\ area = "icons" => IconInit
            /\ area = "accounts" => AccountInit
            /\ area = "films" \/ NoFilms
            /\ area = "promotions" \/ NoPromotions
            /\ area = "portfolios" \/ NoPortfolios
            /\ area = "services" \/ NoServices
            /\ area = "icons" \/ NoIcons
            /\ area = "accounts" \/ NoAccounts
  BY DEF Init, FilmInit, PromotionInit, PortfolioInit, ServiceInit, IconInit, AccountInit,
         NoFilms, NoPromotions, NoPortfolios, NoServices, NoIcons, NoAccounts

LEMMA EmptyAreasStayEmpty ==
    ASSUME [Next]_backOfficeVars
    PROVE  /\ NoFilms => NoFilms'
           /\ NoPromotions => NoPromotions'
           /\ NoPortfolios => NoPortfolios'
           /\ NoServices => NoServices'
           /\ NoIcons => NoIcons'
           /\ NoAccounts => NoAccounts'
  <1>1. area' = area
    BY AreaSteps
  <1>2. NoFilms => NoFilms'
    BY AreaSteps DEF NoFilms, FilmTablesEmpty, filmTables
  <1>3. NoPromotions => NoPromotions'
    BY AreaSteps DEF NoPromotions, PromotionTablesEmpty, promotionTables
  <1>4. NoPortfolios => NoPortfolios'
    BY AreaSteps DEF NoPortfolios, PortfolioTablesEmpty, portfolioTables
  <1>5. NoServices => NoServices'
    BY AreaSteps DEF NoServices, ServiceTablesEmpty, serviceTables
  <1>6. NoIcons => NoIcons'
    BY AreaSteps DEF NoIcons, IconTablesEmpty
  <1>7. NoAccounts => NoAccounts'
    BY AreaSteps DEF NoAccounts, AccountTablesEmpty
  <1>8. QED
    BY <1>2, <1>3, <1>4, <1>5, <1>6, <1>7

\* A behaviour of the back office is one of the area it is about, by that area's own
\* specification: the requests of the other areas make no difference to it.
THEOREM BackOfficeIsItsArea ==
    Spec => /\ Is("films") => FilmSpec
            /\ Is("promotions") => PromotionSpec
            /\ Is("portfolios") => PortfolioSpec
            /\ Is("services") => ServiceSpec
            /\ Is("icons") => IconSpec
            /\ Is("accounts") => AccountSpec
  <1>1. Init => /\ Is("films") => FilmInit
                /\ Is("promotions") => PromotionInit
                /\ Is("portfolios") => PortfolioInit
                /\ Is("services") => ServiceInit
                /\ Is("icons") => IconInit
                /\ Is("accounts") => AccountInit
    BY AreaStarts DEF Is
  <1>2. [Next]_backOfficeVars =>
           /\ Is("films") => Is("films")' /\ [FilmNext]_filmVars
           /\ Is("promotions") => Is("promotions")' /\ [PromotionNext]_promotionVars
           /\ Is("portfolios") => Is("portfolios")' /\ [PortfolioNext]_portfolioVars
           /\ Is("services") => Is("services")' /\ [ServiceNext]_serviceVars
           /\ Is("icons") => Is("icons")' /\ [IconNext]_iconVars
           /\ Is("accounts") => Is("accounts")' /\ [AccountNext]_accountVars
    BY AreaSteps DEF Is
  <1>3. QED
    BY <1>1, <1>2, PTL DEF Spec, FilmSpec, PromotionSpec, PortfolioSpec, ServiceSpec, IconSpec,
                           AccountSpec

\* However many clicks, saves and reorders of promotions interleave in the back
\* office, a count is wrong only where a save overlapped a click.
THEOREM LostClicksExplained == Spec => []LostClicksAreExplained
  <1>1. Init => Is("promotions") \/ NoPromotions
    BY AreaStarts DEF Is
  <1>2. NoPromotions /\ [Next]_backOfficeVars => NoPromotions'
    BY EmptyAreasStayEmpty
  <1>3. NoPromotions => LostClicksAreExplained
    BY DEF LostClicksAreExplained, NoPromotions, PromotionTablesEmpty
  <1>4. QED
    BY <1>1, <1>2, <1>3, BackOfficeIsItsArea, PromotionClicks, PTL DEF Spec

\* However uploads, deletes and saves of portfolios interleave in the back office, a
\* portfolio names a missing image only after a failure or an overlap that says so.
THEOREM BrokenImagesExplained == Spec => []BrokenImagesAreExplained
  <1>1. Init => Is("portfolios") \/ NoPortfolios
    BY AreaStarts DEF Is
  <1>2. NoPortfolios /\ [Next]_backOfficeVars => NoPortfolios'
    BY EmptyAreasStayEmpty
  <1>3. NoPortfolios => BrokenImagesAreExplained
    BY DEF BrokenImagesAreExplained, NoPortfolios, PortfolioTablesEmpty
  <1>4. QED
    BY <1>1, <1>2, <1>3, BackOfficeIsItsArea, PortfolioImagesExplained, PTL DEF Spec

\* However the saves of pieces and the deletes of films, projects and pieces interleave
\* in the back office, two pieces of a project stand at one place in its order only when
\* requests that write the order overlapped.
THEOREM EqualOrdersExplained == Spec => []EqualOrdersOverlap
  <1>1. Init => Is("films") \/ NoFilms
    BY AreaStarts DEF Is
  <1>2. NoFilms /\ [Next]_backOfficeVars => NoFilms'
    BY EmptyAreasStayEmpty
  <1>3. NoFilms => EqualOrdersOverlap
    BY DEF EqualOrdersOverlap, NoFilms, FilmTablesEmpty
  <1>4. FilmHistory => EqualOrdersOverlap
    BY FilmHistoryHolds
  <1>5. QED
    BY <1>1, <1>2, <1>3, <1>4, BackOfficeIsItsArea, FilmsHistoryHolds, PTL DEF Spec

\* A film, a project or a piece that was created is only lost to a request that was asked
\* to delete it, or the film of a project under creation.
THEOREM LostRowsExplained == Spec => []LostRowsAreExplained
  <1>1. Init => Is("films") \/ NoFilms
    BY AreaStarts DEF Is
  <1>2. NoFilms /\ [Next]_backOfficeVars => NoFilms'
    BY EmptyAreasStayEmpty
  <1>3. NoFilms => LostRowsAreExplained
    BY DEF LostRowsAreExplained, NoFilms
  <1>4. FilmHistory => LostRowsAreExplained
    BY FilmHistoryHolds DEF LostRowsAreExplained
  <1>5. QED
    BY <1>1, <1>2, <1>3, <1>4, BackOfficeIsItsArea, FilmsHistoryHolds, PTL DEF Spec

\* The regions of a service are those of the last list a request wrote whole, but where two
\* replacements of the list overlapped, or a writer without a transaction stopped half-way.
THEOREM RegionsStayExplained == Spec => []RegionsAreExplained
  <1>1. Init => Is("services") \/ NoServices
    BY AreaStarts DEF Is
  <1>2. NoServices /\ [Next]_backOfficeVars => NoServices'
    BY EmptyAreasStayEmpty
  <1>3. NoServices => RegionsAreExplained
    BY DEF RegionsAreExplained, NoServices, ServiceTablesEmpty
  <1>4. ServiceHistory => RegionsAreExplained
    BY ServiceHistoryHolds
  <1>5. QED
    BY <1>1, <1>2, <1>3, <1>4, BackOfficeIsItsArea, ServicesHistoryHolds, PTL DEF Spec

\* A service created without an order comes after every service that was there before its
\* creation began, as long as no update was asked to give one of the two an order.
THEOREM ServicesStayInOrder == Spec => []LaterServicesComeLater
  <1>1. Init => Is("services") \/ NoServices
    BY AreaStarts DEF Is
  <1>2. NoServices /\ [Next]_backOfficeVars => NoServices'
    BY EmptyAreasStayEmpty
  <1>3. NoServices => LaterServicesComeLater
    BY DEF LaterServicesComeLater, NoServices, ServiceTablesEmpty
  <1>4. ServiceHistory => LaterServicesComeLater
    BY ServiceHistoryHolds
  <1>5. QED
    BY <1>1, <1>2, <1>3, <1>4, BackOfficeIsItsArea, ServicesHistoryHolds, PTL DEF Spec

\* The fee the public list shows of a city is that of the city's row, or of its province's row
\* if the city has none, and only rows beside another province's or of the lowest level are
\* left out.
THEOREM FeesShownAreStored == Spec => []ShownFeesAreStored
  <1>1. Init => Is("services") \/ NoServices
    BY AreaStarts DEF Is
  <1>2. NoServices /\ [Next]_backOfficeVars => NoServices'
    BY EmptyAreasStayEmpty
  <1>3. NoServices => ShownFeesAreStored
    BY DEF ShownFeesAreStored, NoServices, ServiceTablesEmpty
  <1>4. ServiceInv => ShownFeesAreStored
    BY ServiceInvShowsFees
  <1>5. QED
    BY <1>1, <1>2, <1>3, <1>4, BackOfficeIsItsArea, ServicesKeepInv, PTL DEF Spec

\* Accounts are only updated where there are some.
LEMMA UpdatesOfAccountsAreTheirs ==
    (/\ DOMAIN pc = Requests
     /\ \A q \in Arrived : job[q].op # "updateUser") => DeactivationsHold
  BY DEF DeactivationsHold, UpdatesOf, AsksAbout, Arrived

\* In every area, what was deleted with success is back only when a save of it overlapped
\* the deletion, for any rows and any number of requests.
THEOREM DeletionsStand == Spec => []DeletedStaysDeleted
  <1>1. Init => /\ Is("films") \/ NoFilms
                /\ Is("promotions") \/ NoPromotions
                /\ Is("portfolios") \/ NoPortfolios
                /\ Is("accounts") \/ NoAccounts
    BY AreaStarts DEF Is
  <1>2. [Next]_backOfficeVars => /\ NoFilms => NoFilms'
                                 /\ NoPromotions => NoPromotions'
                                 /\ NoPortfolios => NoPortfolios'
                                 /\ NoAccounts => NoAccounts'
    BY EmptyAreasStayEmpty
  <1>3. Spec => []DeletedFilmRowsStayDeleted
    <2>1. NoFilms => DeletedFilmRowsStayDeleted
      BY DEF NoFilms, FilmTablesEmpty, DeletedFilmRowsStayDeleted
    <2>2. QED
      BY <1>1, <1>2, <2>1, FilmHistoryHolds, BackOfficeIsItsArea, FilmsHistoryHolds, PTL DEF Spec
  <1>4. Spec => []DeletedPromotionsStayDeleted
    <2>1. NoPromotions => DeletedPromotionsStayDeleted
      BY DEF NoPromotions, PromotionTablesEmpty, DeletedPromotionsStayDeleted
    <2>2. QED
      BY <1>1, <1>2, <2>1, PromotionHistoryHolds, BackOfficeIsItsArea, PromotionsHistoryHolds, PTL
      DEF Spec
  <1>5. Spec => []DeletedPortfoliosStayDeleted
    <2>1. NoPortfolios => DeletedPortfoliosStayDeleted
      BY DEF NoPortfolios, PortfolioTablesEmpty, DeletedPortfoliosStayDeleted
    <2>2. QED
      BY <1>1, <1>2, <2>1, PortfolioHistoryHolds, BackOfficeIsItsArea, PortfoliosHistoryHolds, PTL
      DEF Spec
  <1>6. Spec => []DeletedAccountsStayDeleted
    <2>1. NoAccounts => DeletedAccountsStayDeleted
      BY DEF NoAccounts, AccountTablesEmpty, DeletedAccountsStayDeleted
    <2>2. QED
      BY <1>1, <1>2, <2>1, AccountHistoryHolds, BackOfficeIsItsArea, AccountsHistoryHolds, PTL
      DEF Spec
  <1>7. QED
    BY <1>3, <1>4, <1>5, <1>6, PTL DEF DeletedStaysDeleted

\* In every area, what was saved with success stands until it is written again or the save
\* was overlapped in one of the ways the properties name.
THEOREM SavesStand == Spec => []WritesStand
  <1>1. Init => /\ \/ Is("films") \/ Is("promotions") \/ Is("portfolios")
                   \/ Is("services") \/ Is("icons") \/ Is("accounts")
                /\ Is("films") \/ NoFilms
                /\ Is("promotions") \/ NoPromotions
                /\ Is("icons") \/ NoIcons
                /\ Is("accounts") \/ NoAccounts
    BY AreaStarts DEF Is, Areas
  <1>2. [Next]_backOfficeVars => /\ NoFilms => NoFilms'
                                 /\ NoPromotions => NoPromotions'
                                 /\ NoIcons => NoIcons'
                                 /\ NoAccounts => NoAccounts'
    BY EmptyAreasStayEmpty
  <1>3. Spec => [](TogglesCount /\ ReordersStand)
    <2>1. NoPromotions => TogglesCount /\ ReordersStand
      BY DEF NoPromotions, PromotionTablesEmpty, TogglesCount, ReordersStand
    <2>2. QED
      BY <1>1, <1>2, <2>1, PromotionHistoryHolds, BackOfficeIsItsArea, PromotionsHistoryHolds, PTL
      DEF Spec
  <1>4. Spec => []FixedOnlyWhenCut
    <2>1. NoFilms => FixedOnlyWhenCut
      BY DEF NoFilms, FilmTablesEmpty, FixedOnlyWhenCut
    <2>2. QED
      BY <1>1, <1>2, <2>1, FilmHistoryHolds, BackOfficeIsItsArea, FilmsHistoryHolds, PTL DEF Spec
  <1>5. Spec => []NamesStand
    <2>1. NoIcons => NamesStand
      BY DEF NoIcons, IconTablesEmpty, NamesStand
    <2>2. QED
      BY <1>1, <1>2, <2>1, IconHistoryHolds, BackOfficeIsItsArea, IconsHistoryHolds, PTL DEF Spec
  <1>6. Spec => []LastLoginsAreKept
    <2>1. NoAccounts => LastLoginsAreKept
      BY DEF NoAccounts, AccountTablesEmpty, LastLoginsAreKept
    <2>2. QED
      BY <1>1, <1>2, <2>1, AccountHistoryHolds, BackOfficeIsItsArea, AccountsHistoryHolds, PTL
      DEF Spec
  <1>7. Spec => []DeactivationsHold
    <2>1. FilmHistory => DeactivationsHold
      BY UpdatesOfAccountsAreTheirs DEF FilmHistory, FilmInv, HttpInv, FilmJobs
    <2>2. PromotionHistory => DeactivationsHold
      BY UpdatesOfAccountsAreTheirs
      DEF PromotionHistory, PromotionTyped, PromotionInv, HttpInv, PromotionJobs
    <2>3. PortfolioHistory => DeactivationsHold
      BY UpdatesOfAccountsAreTheirs
      DEF PortfolioHistory, PortfolioTyped, PortfolioInv, HttpInv, PortfolioJobs
    <2>4. ServiceInv => DeactivationsHold
      BY UpdatesOfAccountsAreTheirs DEF ServiceInv, HttpInv, ServiceJobs
    <2>5. IconHistory => DeactivationsHold
      BY UpdatesOfAccountsAreTheirs DEF IconHistory, IconInv, HttpInv, IconsMade
    <2>6. AccountHistory => DeactivationsHold
      BY AccountHistoryHolds
    <2>7. QED
      BY <1>1, <2>1, <2>2, <2>3, <2>4, <2>5, <2>6, BackOfficeIsItsArea, FilmsHistoryHolds,
         PromotionsHistoryHolds, PortfoliosHistoryHolds, ServicesKeepInv, IconsHistoryHolds,
         AccountsHistoryHolds, PTL DEF Spec
  <1>8. QED
    BY <1>3, <1>4, <1>5, <1>6, <1>7, PTL DEF WritesStand

\* Every row of every table of the back office is of its type, whatever is asked of its
\* areas and however the handlers interleave.
THEOREM BackOfficeTypeCorrect == Spec => []BackOfficeTypeOK
  <1>1. Init => /\ area \in Areas
                /\ \/ Is("films") \/ Is("promotions") \/ Is("portfolios")
                   \/ Is("services") \/ Is("icons") \/ Is("accounts")
                /\ Is("films") \/ NoFilms
                /\ Is("promotions") \/ NoPromotions
                /\ Is("portfolios") \/ NoPortfolios
                /\ Is("services") \/ NoServices
                /\ Is("icons") \/ NoIcons
                /\ Is("accounts") \/ NoAccounts
    BY AreaStarts DEF Is, Areas
  <1>2. Spec => []HttpTypeOK
    <2>1. /\ FilmTypeOK => HttpTypeOK
          /\ PromotionTypeOK => HttpTypeOK
          /\ PortfolioTypeOK => HttpTypeOK
          /\ ServiceTypeOK => HttpTypeOK
          /\ IconTypeOK => HttpTypeOK
          /\ AccountTypeOK => HttpTypeOK
      BY DEF FilmTypeOK, PromotionTypeOK, PortfolioTypeOK, ServiceTypeOK, IconTypeOK, AccountTypeOK
    <2>2. QED
      BY <1>1, <2>1, BackOfficeIsItsArea, FilmsTypeCorrect, PromotionsTypeCorrect,
         PortfoliosTypeCorrect, ServicesTypeCorrect, IconsTypeCorrect, AccountsTypeCorrect, PTL
      DEF Spec
  <1>3. Spec => [](area \in Areas)
    <2>1. area \in Areas /\ [Next]_backOfficeVars => (area \in Areas)'
      BY AreaSteps
    <2>2. QED
      BY <1>1, <2>1, PTL DEF Spec
  <1>4. Spec => []FilmTypeOK
    <2>1. NoFilms /\ [Next]_backOfficeVars => NoFilms'
      BY EmptyAreasStayEmpty
    <2>2. HttpTypeOK /\ NoFilms => FilmTypeOK
      BY DEF FilmTypeOK, NoFilms, FilmTablesEmpty
    <2>3. QED
      BY <1>1, <1>2, <2>1, <2>2, BackOfficeIsItsArea, FilmsTypeCorrect, PTL DEF Spec
  <1>5. Spec => []PromotionTypeOK
    <2>1. NoPromotions /\ [Next]_backOfficeVars => NoPromotions'
      BY EmptyAreasStayEmpty
    <2>2. HttpTypeOK /\ NoPromotions => PromotionTypeOK
      BY DEF PromotionTypeOK, NoPromotions, PromotionTablesEmpty
    <2>3. QED
      BY <1>1, <1>2, <2>1, <2>2, BackOfficeIsItsArea, PromotionsTypeCorrect, PTL DEF Spec
  <1>6. Spec => []PortfolioTypeOK
    <2>1. NoPortfolios /\ [Next]_backOfficeVars => NoPortfolios'
      BY EmptyAreasStayEmpty
    <2>2. HttpTypeOK /\ NoPortfolios => PortfolioTypeOK
      BY DEF PortfolioTypeOK, NoPortfolios, PortfolioTablesEmpty
    <2>3. QED
      BY <1>1, <1>2, <2>1, <2>2, BackOfficeIsItsArea, PortfoliosTypeCorrect, PTL DEF Spec
  <1>7. Spec => []ServiceTypeOK
    <2>1. NoServices /\ [Next]_backOfficeVars => NoServices'
      BY EmptyAreasStayEmpty
    <2>2. HttpTypeOK /\ NoServices => ServiceTypeOK
      BY DEF ServiceTypeOK, NoServices, ServiceTablesEmpty
    <2>3. QED
      BY <1>1, <1>2, <2>1, <2>2, BackOfficeIsItsArea, ServicesTypeCorrect, PTL DEF Spec
  <1>8. Spec => []IconTypeOK
    <2>1. NoIcons /\ [Next]_backOfficeVars => NoIcons'
      BY EmptyAreasStayEmpty
    <2>2. HttpTypeOK /\ NoIcons => IconTypeOK
      BY DEF IconTypeOK, NoIcons, IconTablesEmpty
    <2>3. QED
      BY <1>1, <1>2, <2>1, <2>2, BackOfficeIsItsArea, IconsTypeCorrect, PTL DEF Spec
  <1>9. Spec => []AccountTypeOK
    <2>1. NoAccounts /\ [Next]_backOfficeVars => NoAccounts'
      BY EmptyAreasStayEmpty
    <2>2. HttpTypeOK /\ NoAccounts => AccountTypeOK
      BY DEF AccountTypeOK, NoAccounts, AccountTablesEmpty
    <2>3. QED
      BY <1>1, <1>2, <2>1, <2>2, BackOfficeIsItsArea, AccountsTypeCorrect, PTL DEF Spec
  <1>10. area \in Areas /\ FilmTypeOK /\ PromotionTypeOK /\ PortfolioTypeOK /\ ServiceTypeOK
         /\ IconTypeOK /\ AccountTypeOK => BackOfficeTypeOK
    BY DEF BackOfficeTypeOK
  <1>11. QED
    BY <1>3, <1>4, <1>5, <1>6, <1>7, <1>8, <1>9, <1>10, PTL
=============================================================================
