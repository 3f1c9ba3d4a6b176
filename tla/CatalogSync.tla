----------------------------- MODULE CatalogSync -----------------------------
(***************************************************************************)
(* The product catalog and its reconciliation against the vendor's          *)
(* inventory: a sync reads the vendor's table and the catalog, and writes   *)
(* in one transaction, later, the columns that differ from what it read.    *)
(* Meanwhile administrators edit products and families, and orders are sold. *)
(***************************************************************************)
EXTENDS Naturals, FiniteSets

CONSTANTS
    Articles,    \* the rows of marticulo, numbered in the order they are read
    Category,    \* per article
    Codigo,      \* per article; two categories may share one
    Handmade,    \* products without external code
    Names,
    Designs,     \* families, by normalized name
    NoDesign,
    Syncers,     \* administrators who may press the button
    MaxMoves     \* BOUND: columns the vendor, the staff and the clients change

ASSUME CatalogAssumption ==
    /\ IsFiniteSet(Articles) /\ Articles \subseteq Nat
    /\ NoDesign \notin Designs
    /\ MaxMoves \in Nat

VARIABLES
    vendor,    \* per article, how its row reads and what it says
    product,   \* per product, its columns; the key is its external code
    families,
    sync,      \* per syncer, what it read
    moves

catalogVars == <<vendor, product, families, sync, moves>>

-----------------------------------------------------------------------------
External(r) == <<Category[r], Codigo[r]>>

Catalogued == DOMAIN product

NotSyncing == [read |-> <<>>, loaded |-> <<>>, known |-> {}, touched |-> {}]

Syncing == {s \in Syncers : sync[s] # NotSyncing}

Move == moves < MaxMoves /\ moves' = moves + 1

\* The keys whose columns change in this step.
Changed == {k \in DOMAIN product \union DOMAIN product' :
               \/ k \notin DOMAIN product \/ k \notin DOMAIN product'
               \/ product[k] # product'[k]}

Witnessed(s) == [sync[s] EXCEPT !.touched = @ \union Changed]

-----------------------------------------------------------------------------
\* _validate, row after row: a MEDIO is skipped, a category nobody knows is an
\* issue with no code to protect, the first of two rows that share the code or
\* the name is taken, and what does not parse is an issue.
Recognized(read) == {r \in Articles : read[r].reads \in {"fine", "garbled"}}

RepeatsCode(read, r) == \E q \in Recognized(read) : q < r /\ Codigo[q] = Codigo[r]

RepeatsName(read, r) ==
    \E q \in Recognized(read) :
        q < r /\ ~RepeatsCode(read, q) /\ read[q].name = read[r].name

ValidRows(read) ==
    {r \in Recognized(read) : /\ read[r].reads = "fine"
                              /\ ~RepeatsCode(read, r) /\ ~RepeatsName(read, r)}

SyncedCodes(read) == {External(r) : r \in ValidRows(read)}

\* Mistake: a row that could not be read shields nothing.
NothingShielded(read) == {}

Unreadable(read) ==
    {External(r) : r \in Recognized(read) \ ValidRows(read)} \ SyncedCodes(read)

\* A name or a code another product owns aborts the sync, with nothing written.
Conflicts(read, loaded) ==
    \E r \in ValidRows(read), k \in DOMAIN loaded :
        \/ loaded[k].name = read[r].name /\ k # External(r)
        \/ External(r) \notin DOMAIN loaded /\ loaded[k].code = Codigo[r]

\* sync_catalog_from_external: a read with no active row aborts.
BeginSync(s) ==
    /\ sync[s] = NotSyncing
    /\ \E r \in Articles : vendor[r].reads # "gone"
    /\ ~Conflicts(vendor, product)
    /\ sync' = [sync EXCEPT ![s] =
           [read |-> vendor, loaded |-> product, known |-> families, touched |-> {}]]
    /\ UNCHANGED <<vendor, product, families, moves>>

-----------------------------------------------------------------------------
RowOf(read, k) == CHOOSE r \in ValidRows(read) : External(r) = k

Created(q, k) == LET r == RowOf(q.read, k) IN
    [name |-> q.read[r].name, code |-> Codigo[r], active |-> TRUE,
     family |-> q.read[r].obs, used |-> FALSE]

\* Only what differs from the columns loaded is written; family and alias never.
Updated(q, k) == LET r == RowOf(q.read, k) IN
    [product[k] EXCEPT !.name = IF q.read[r].name # q.loaded[k].name THEN q.read[r].name ELSE @,
                       !.active = IF q.loaded[k].active THEN @ ELSE TRUE]

Upserted(q) ==
    [k \in Catalogued \union SyncedCodes(q.read) |->
        IF k \notin SyncedCodes(q.read) THEN product[k]
        ELSE IF k \in DOMAIN q.loaded THEN Updated(q, k) ELSE Created(q, k)]

\* Active, synced, of a category this read brought, and not in it.
Stale(q) ==
    {k \in Catalogued \ Handmade :
        /\ product[k].active
        /\ k \notin SyncedCodes(q.read) \union Unreadable(q.read)
        /\ \E r \in ValidRows(q.read) : Category[r] = k[1]}

\* An object loaded inactive is not written when it is set inactive.
Retired(q, p) ==
    IF p \in DOMAIN q.loaded /\ ~q.loaded[p].active THEN product[p]
    ELSE [product[p] EXCEPT !.active = FALSE]

Deleted(q) == {k \in Stale(q) : ~product[k].used}

Reconciled(q) ==
    [k \in DOMAIN Upserted(q) \ Deleted(q) |->
        IF k \in Stale(q) THEN Retired(q, k) ELSE Upserted(q)[k]]

NamedFamilies(q) ==
    {q.read[RowOf(q.read, k)].obs : k \in SyncedCodes(q.read) \ DOMAIN q.loaded} \ {NoDesign}

Distinct(p, column(_)) == \A j, k \in DOMAIN p : j # k => column(p[j]) # column(p[k])

NameColumn(row) == row.name
CodeColumn(row) == row.code

\* What the constraints of the database let through.
Accepted(q) ==
    /\ SyncedCodes(q.read) \intersect DOMAIN q.loaded \subseteq Catalogued
    /\ (SyncedCodes(q.read) \ DOMAIN q.loaded) \intersect Catalogued = {}
    /\ Distinct(Upserted(q), NameColumn) /\ Distinct(Upserted(q), CodeColumn)
    /\ NamedFamilies(q) \intersect q.known \subseteq families
    /\ (NamedFamilies(q) \ q.known) \intersect families = {}

CommitSync(s) ==
    LET q == sync[s] IN
    /\ s \in Syncing
    /\ Accepted(q)
    /\ product' = Reconciled(q)
    /\ families' = families \union NamedFamilies(q)
    /\ sync' = [z \in Syncers |->
           IF z = s THEN NotSyncing ELSE IF z \in Syncing THEN Witnessed(z) ELSE sync[z]]
    /\ UNCHANGED <<vendor, moves>>

\* A constraint refuses it, the server dies, or it was a dry run.
RollBackSync(s) ==
    /\ s \in Syncing
    /\ sync' = [sync EXCEPT ![s] = NotSyncing]
    /\ UNCHANGED <<vendor, product, families, moves>>

-----------------------------------------------------------------------------
\* Somebody else writes the catalog.
Rewrites(p) ==
    /\ Move
    /\ product' = p
    /\ Distinct(p, NameColumn) /\ Distinct(p, CodeColumn)
    /\ sync' = [z \in Syncers |-> IF z \in Syncing THEN Witnessed(z) ELSE sync[z]]

VendorEdits(r, row) ==
    /\ Move
    /\ Cardinality({c \in DOMAIN row : row[c] # vendor[r][c]}) = 1
    /\ vendor' = [vendor EXCEPT ![r] = row]
    /\ UNCHANGED <<product, families, sync>>

\* ProductService.create and update.
CreateByHand(h, name, code) ==
    /\ h \in Handmade \ Catalogued
    /\ Rewrites([k \in Catalogued \union {h} |-> IF k \in Catalogued THEN product[k] ELSE
           [name |-> name, code |-> code, active |-> TRUE, family |-> NoDesign, used |-> FALSE]])
    /\ UNCHANGED <<vendor, families>>

Rename(k, name) ==
    /\ Rewrites([product EXCEPT ![k].name = name])
    /\ UNCHANGED <<vendor, families>>

SetActive(k, active) ==
    /\ Rewrites([product EXCEPT ![k].active = active])
    /\ UNCHANGED <<vendor, families>>

\* ProductFamilyService: create, assign, delete (the key is set to null).
CreateFamily(d) ==
    /\ Move
    /\ d \notin families
    /\ families' = families \union {d}
    /\ UNCHANGED <<vendor, product, sync>>

Assign(k, d) ==
    /\ d \in families \union {NoDesign}
    /\ Rewrites([product EXCEPT ![k].family = d])
    /\ UNCHANGED <<vendor, families>>

DeleteFamily(d) ==
    /\ d \in families
    /\ families' = families \ {d}
    /\ Rewrites([k \in Catalogued |->
           IF product[k].family = d THEN [product[k] EXCEPT !.family = NoDesign] ELSE product[k]])
    /\ UNCHANGED vendor

\* An order freezes a line, a piece or a board with this product.
Sell(k) ==
    /\ product[k].active /\ ~product[k].used
    /\ Rewrites([product EXCEPT ![k].used = TRUE])
    /\ UNCHANGED <<vendor, families>>

-----------------------------------------------------------------------------
Readings == [reads : {"gone", "medio", "strange", "garbled", "fine"},
             name : Names, obs : Designs \union {NoDesign}]

CatalogInit ==
    /\ vendor \in [Articles -> [reads : {"fine"}, name : Names, obs : {NoDesign}]]
    /\ \A r, q \in Articles : r # q => vendor[r].name # vendor[q].name
    /\ product = <<>> /\ families = {} /\ moves = 0
    /\ sync = [s \in Syncers |-> NotSyncing]

CatalogNext ==
    \/ \E s \in Syncers : BeginSync(s) \/ CommitSync(s) \/ RollBackSync(s)
    \/ \E r \in Articles, row \in Readings : VendorEdits(r, row)
    \/ \E h \in Handmade, name \in Names, r \in Articles : CreateByHand(h, name, Codigo[r])
    \/ \E k \in Catalogued :
          \/ \E name \in Names : Rename(k, name)
          \/ \E active \in BOOLEAN : SetActive(k, active)
          \/ \E d \in Designs \union {NoDesign} : Assign(k, d)
          \/ Sell(k)
    \/ \E d \in Designs : CreateFamily(d) \/ DeleteFamily(d)

CatalogSpec == CatalogInit /\ [][CatalogNext]_catalogVars

-----------------------------------------------------------------------------
CatalogTyped ==
    /\ vendor \in [Articles -> Readings]
    /\ Catalogued \subseteq {External(r) : r \in Articles} \union Handmade
    /\ \A k \in Catalogued :
          /\ product[k].name \in Names /\ product[k].code \in {Codigo[r] : r \in Articles}
          /\ product[k].active \in BOOLEAN /\ product[k].used \in BOOLEAN
          /\ product[k].family \in families \union {NoDesign}
    /\ families \subseteq Designs
    /\ DOMAIN sync = Syncers /\ moves \in 0..MaxMoves

\* A sync carries the vendor's word and nobody else's away: what it read is in the
\* catalog and on sale, what its categories no longer have is not; "a row we failed
\* to read is not a row the vendor deleted", a product sold stays, the families stay
\* "ours", what was made by hand is never touched, even with edits in between. Where
\* somebody wrote the same product meanwhile, theirs may stand.
Followed(q) ==
    /\ \A r \in ValidRows(q.read) : External(r) \notin q.touched =>
          /\ External(r) \in DOMAIN product'
          /\ product'[External(r)].active
          /\ product'[External(r)].name = q.read[r].name
    /\ \A k \in DOMAIN product' \ (Handmade \union q.touched) :
          (\E r \in ValidRows(q.read) : Category[r] = k[1]) =>
              \/ ~product'[k].active
              \/ \E r \in Recognized(q.read) : External(r) = k
    /\ \A k \in Catalogued :
          /\ product[k].used => k \in DOMAIN product'
          /\ \/ k \in Handmade
             \/ \E r \in Recognized(q.read) : External(r) = k /\ r \notin ValidRows(q.read)
             => k \in DOMAIN product' /\ (product'[k] = product[k] \/ k \in SyncedCodes(q.read))
          /\ k \in DOMAIN product' => product'[k].family = product[k].family

CatalogFollowsTheVendor ==
    [][\A s \in Syncing : sync'[s] = NotSyncing /\ product' # product => Followed(sync[s])]_catalogVars

=============================================================================
