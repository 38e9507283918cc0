-------------------------------- MODULE Icons --------------------------------
(***************************************************************************)
(* IconsService (icons.service.ts): administrators create and change the   *)
(* icons of services and promotions.  A name is looked for before it is    *)
(* written, and is unique in the table too.  Icons are never deleted.      *)
(***************************************************************************)
EXTENDS HttpRequests, OrmSave

CONSTANTS
    Names,       \* of icons
    NewIcons,    \* what a create may bring
    IconChanges  \* what an update may bring

IconTypes == {"FILL", "MONO", "COLOR"}

CreateIconDtos == [name : Names, type : IconTypes]

\* Nothing leaves a column alone.
UpdateIconDtos == [name : Names \cup {Nothing}, type : IconTypes \cup {Nothing}]

\* What is asked of the icons.
IconJobs ==
    [op : {"createIcon"}, dto : NewIcons] \cup
    [op : {"updateIcon"}, icon : Creators, dto : IconChanges]

ASSUME NothingIsNoIconJob == Nothing \notin IconJobs

ASSUME IconConstants == NewIcons \subseteq CreateIconDtos /\ IconChanges \subseteq UpdateIconDtos

VARIABLE icons \* icon -> [name, type]

iconVars == <<icons, httpVars>>

IconTablesEmpty == icons = [i \in {} |-> Nobody]

IconTablesSeeded ==
    \E name \in Names : icons = [i \in {Nobody} |-> [name |-> name, type |-> "MONO"]]

IconInit == HttpInit /\ IconTablesSeeded

PutIcon(i, row) == icons' = [k \in DOMAIN icons \cup {i} |-> IF k = i THEN row ELSE icons[k]]

NameTaken(name, others) == \E i \in others : icons[i].name = name
-----------------------------------------------------------------------------
CreateIcon(r, dto) ==
    LET j == [op |-> "createIcon", dto |-> dto] IN
    /\ \/ NameTaken(dto.name, DOMAIN icons) /\ Serve(r, j, "refused")
       \/ ~NameTaken(dto.name, DOMAIN icons) /\ Begin(r, j, "insert", Nothing)
    /\ UNCHANGED icons

InsertIcon(r) ==
    /\ At(r, "insert", "createIcon")
    /\ \/ NameTaken(job[r].dto.name, DOMAIN icons) /\ Answer(r, "error") /\ UNCHANGED icons
       \/ ~NameTaken(job[r].dto.name, DOMAIN icons) /\ Answer(r, "ok") /\ PutIcon(r, job[r].dto)

\* What the request leaves out keeps the value that was read.
Changed(row, dto) ==
    [name |-> IF dto.name = Nothing THEN row.name ELSE dto.name,
     type |-> IF dto.type = Nothing THEN row.type ELSE dto.type]

UpdateIcon(r, i, dto) ==
    LET j == [op |-> "updateIcon", icon |-> i, dto |-> dto] IN
    /\ \/ i \notin DOMAIN icons /\ Serve(r, j, "notFound")
       \/ /\ i \in DOMAIN icons
          /\ Begin(r, j, IF dto.name \in {Nothing, icons[i].name} THEN "load" ELSE "checkName",
                   Changed(icons[i], dto))
    /\ UNCHANGED icons

CheckName(r) ==
    /\ At(r, "checkName", "updateIcon")
    /\ IF NameTaken(held[r].name, DOMAIN icons) THEN Answer(r, "refused")
                                                ELSE Continue(r, "load", held[r])
    /\ UNCHANGED icons

LoadIcon(r) ==
    /\ At(r, "load", "updateIcon")
    /\ Continue(r, "write", [entity |-> held[r], dirty |-> Dirty(held[r], icons[job[r].icon])])
    /\ UNCHANGED icons

WriteIcon(r) ==
    /\ At(r, "write", "updateIcon")
    /\ LET i == job[r].icon
           row == Merge(icons[i], held[r].entity, held[r].dirty)
       IN  IF NameTaken(row.name, DOMAIN icons \ {i}) THEN Answer(r, "error") /\ UNCHANGED icons
                                                      ELSE Answer(r, "ok") /\ PutIcon(i, row)
-----------------------------------------------------------------------------
KnownIcons == DOMAIN icons \cup {Nobody}

IconRequest(r) ==
    \/ \E dto \in NewIcons : CreateIcon(r, dto)
    \/ \E i \in KnownIcons, dto \in IconChanges : UpdateIcon(r, i, dto)

IconStep(r) ==
    \/ InsertIcon(r) \/ CheckName(r) \/ LoadIcon(r) \/ WriteIcon(r)
    \/ StatementFails(r) /\ UNCHANGED icons

IconNext == \E r \in Requests : IconRequest(r) \/ IconStep(r)

IconSpec == IconInit /\ [][IconNext]_iconVars
-----------------------------------------------------------------------------
(* Properties *)

\* Every row is of its type and no two icons share a name, whatever the checks before
\* the writes have seen (icon.entity.ts:17).
IconTypeOK ==
    /\ HttpTypeOK
    /\ DOMAIN icons \subseteq Creators
    /\ \A i \in DOMAIN icons : icons[i] \in CreateIconDtos
    /\ \A i, k \in DOMAIN icons : icons[i].name = icons[k].name => i = k

\* An icon that was made or renamed with success has that name until it is given
\* another one; only another rename, or an update that overlapped it and writes back
\* what it read, can undo it (icons.service.ts:110-124).
NamesStand ==
    \A i \in DOMAIN icons : \A r \in Requests :
       (/\ pc[r] # "idle" /\ Succeeded(r) /\ job[r].dto.name # Nothing
        /\ r = i \/ (job[r].op = "updateIcon" /\ job[r].icon = i)) =>
          \/ icons[i].name = job[r].dto.name
          \/ \E u \in Requests \ {r} :
                /\ pc[u] # "idle" /\ job[u].op = "updateIcon" /\ job[u].icon = i
                /\ Overlap(u, r) \/ (r \in earlier[u] /\ job[u].dto.name # Nothing)
=============================================================================
