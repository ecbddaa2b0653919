---------------------------- MODULE ProductSync ----------------------------
(***************************************************************************)
(* The products phase: sync_products reads the templates and variants of   *)
(* Odoo, compares their hashes with the ones stored in product_mappings,   *)
(* creates or updates products of the WooCommerce store, and records what  *)
(* it did in the mappings.                                                 *)
(*                                                                         *)
(* backend/sync/engines/products.py over backend/sync/mappings.py and      *)
(* backend/sync/hashing.py.                                                *)
(*                                                                         *)
(* Store and database cannot be changed together: a call of the store      *)
(* takes effect at once, a row of product_mappings only when the           *)
(* transaction of the whole run commits. Two runs of different jobs share  *)
(* the mappings and are not excluded from one another.                     *)
(*                                                                         *)
(* The content of a template or variant is a version number; an edit that  *)
(* no hash sees (letter case, surrounding blanks, a third decimal) is not  *)
(* an edit here, so that a version stands for its hash. What else depends  *)
(* on the content is whether the record of Odoo passes validation, and the *)
(* SKU the store is sent, which the store takes for one article only.      *)
(***************************************************************************)
EXTENDS Naturals, FiniteSets, Functions

CONSTANTS
    Workers,        \* runs that may be in the products phase
    Templates,      \* ids of product.template
    Variants,       \* ids of product.product
    Skus,
    NoSku,          \* no SKU is sent, or an empty one
    Catalogues,     \* what Odoo may have to offer: variants, SKUs, records
                    \* that do not validate
    TemplateLimit,  \* get_product_templates: limit=1000
    VariantLimit,   \* get_product_variants: limit=500
    NoItem,         \* no template or variant
    MaxVersion,     \* bound: the last version of an item
    MaxEdits,       \* bound: how many edits there are in all
    MaxFaults,      \* bound: how often each kind of fault happens
    MaxAllFaults    \* bound: how many faults happen in all

\* refused: a call of Odoo or of the store fails; lost: the store acts and its
\* answer does not arrive; rollback: the transaction is lost (crash, failed
\* flush, cancellation); deleted: the merchant deletes a product.
FaultKinds == {"refused", "lost", "rollback", "deleted"}

ASSUME ProductAssumption ==
    /\ Templates \cap Variants = {}
    /\ NoItem \notin Templates \cup Variants
    /\ IsFiniteSet(Workers)
    /\ MaxVersion \in Nat
    /\ Catalogues \subseteq [variants: [Templates -> SUBSET Variants],
                              sku: [Templates \cup Variants -> [0..MaxVersion -> Skus \cup {NoSku}]],
                              invalid: SUBSET ((Templates \cup Variants) \X (0..MaxVersion))]
    /\ \A c \in Catalogues : \A t, u \in Templates :
          c.variants[t] \cap c.variants[u] # {} => t = u   \* product_tmpl_id is one template
    /\ MaxEdits \in Nat
    /\ MaxFaults \in [FaultKinds -> Nat]
    /\ MaxAllFaults \in Nat

VARIABLES
    variants,       \* variants[t]: the variants of t, none if t is simple
    sku,            \* sku[i][v]: the SKU in version v of item i
    invalid,        \* <<i, v>>: records that do not validate
    odoo,           \* odoo[i]: the version of the content of an item
    store,          \* the products and variations of the store, by id
    mappings,       \* committed rows of product_mappings
    own,            \* own[w]: rows w has flushed: new rows and new versions
    pc,             \* pc[w]: where the run is
    todo,           \* todo[w]: templates, and variants, still to be visited
    plan,           \* plan[w]: the versions w has read from Odoo
    item,           \* item[w]: the template or variant being synced
    found,          \* found[w]: the mapping looked up for the item
    product,        \* product[w]: woo_product_id of the template
    made,           \* made[w]: id of the product or variation just created
    nextId,         \* the next id of the store
    written,        \* history: every content an article has ever received
    edits,          \* how many edits there have been
    restored,       \* history: an edit has brought back an older content
    overlapped,     \* history: two runs were in the phase at the same time
    spent           \* faults that have happened

Items == Templates \cup Variants
Versions == 0..MaxVersion

session == <<own, todo, plan, item, found, product, made>>
catalogue == <<variants, sku, invalid, odoo, edits, restored>>
vars == <<catalogue, store, mappings, pc, session, nextId, written, overlapped, spent>>

-----------------------------------------------------------------------------
(* Types *)

Ids == Nat \ {0}

\* field_hashes: the fields of a template and of a variant differ, and so
\* their hashes always do.
Hashes == Items \X Versions

\* A row of product_mappings. The row of a template has no variation (0).
RowType == [item: Items, product: Ids, variation: Nat, hash: Hashes]
NoRow == [item |-> NoItem]

\* A product (parent 0) or a variation of the store.
Article == [item: Items, parent: Nat, version: Versions]

Place == {"idle", "next", "call", "new", "changed", "variants"}

TypeOK ==
    /\ variants \in [Templates -> SUBSET Variants]
    /\ sku \in [Items -> [Versions -> Skus \cup {NoSku}]]
    /\ invalid \subseteq Items \X Versions
    /\ odoo \in [Items -> Versions]
    /\ DOMAIN store \subseteq Ids
    /\ store \in [DOMAIN store -> Article]
    /\ mappings \subseteq RowType
    /\ own \in [Workers -> SUBSET RowType]
    /\ pc \in [Workers -> Place]
    /\ todo \in [Workers -> SUBSET Items]
    /\ plan \in [Workers -> [Items -> Versions]]
    /\ item \in [Workers -> Items \cup {NoItem}]
    /\ found \in [Workers -> RowType \cup {NoRow}]
    /\ product \in [Workers -> Nat]
    /\ made \in [Workers -> Nat]
    /\ nextId \in Ids
    /\ written \subseteq Ids \X Versions
    /\ edits \in 0..MaxEdits
    /\ restored \in BOOLEAN
    /\ overlapped \in BOOLEAN
    /\ \A w \in Workers :
          /\ pc[w] \in {"idle", "next"} <=> item[w] = NoItem
          /\ pc[w] = "new" <=> made[w] # 0
          /\ pc[w] = "changed" => found[w] # NoRow
    /\ spent \in [FaultKinds -> Nat]

-----------------------------------------------------------------------------
(* Helpers *)

\* The id of the product or variation that a row gives for an item.
Target(i, r) == IF i \in Templates THEN r.product ELSE r.variation

\* Versions of one row: every row is inserted for an article of its own.
SameRow(r, s) == Target(r.item, r) = Target(s.item, s)

\* What a SELECT of w returns: the committed rows, with its own changes.
View(w) == own[w] \cup {r \in mappings : \A s \in own[w] : ~SameRow(r, s)}

\* Bug form of Rows: only templates are looked up.
RowsOfTemplates(w, i) ==
    IF i \in Templates THEN {r \in View(w) : r.item = i} ELSE {}

\* get_mapping_by_odoo_id takes the first row of the template, in no
\* particular order: the rows of its variants carry the template's id too.
\* _get_variant_mapping also asks for the variant.
Rows(w, i) ==
    LET items == IF i \in Templates THEN {i} \cup variants[i] ELSE {i}
    IN  {r \in View(w) : r.item \in items}

\* Bug form of Hash: the hash of what Odoo holds when it is stored.
HashReread(w, i) == <<i, odoo[i]>>

\* compute_product_hashes
Hash(w, i) == <<i, plan[w][i]>>

\* An UPDATE waits for every other transaction that has updated the row. Of runs
\* that wait for each other PostgreSQL rolls one back (RollbackRun).
RowFree(w, r) == \A v \in Workers \ {w} : \A s \in own[v] : ~SameRow(r, s)

Goto(w, place) == pc' = [pc EXCEPT ![w] = place]

\* The item is done; step 2 of a variable product follows, or the next item.
Done(w, i) ==
    LET step2 == i \in Templates /\ variants[i] # {}
    IN  /\ Goto(w, IF step2 THEN "variants" ELSE "next")
        /\ item' = [item EXCEPT ![w] = IF step2 THEN i ELSE NoItem]
        /\ found' = [found EXCEPT ![w] = NoRow]
        /\ made' = [made EXCEPT ![w] = 0]

\* The exception is recorded as an error; what is left of the template is
\* skipped.
NextTemplate(w) ==
    /\ Goto(w, "next")
    /\ todo' = [todo EXCEPT ![w] = @ \cap Templates]
    /\ item' = [item EXCEPT ![w] = NoItem]
    /\ found' = [found EXCEPT ![w] = NoRow]
    /\ product' = [product EXCEPT ![w] = 0]
    /\ UNCHANGED <<own, plan, made>>

\* Bug form of Close: a variable of the run survives it.
CloseKeepsItem(w) ==
    /\ Goto(w, "idle")
    /\ own' = [own EXCEPT ![w] = {}]
    /\ todo' = [todo EXCEPT ![w] = {}]
    /\ plan' = [plan EXCEPT ![w] = [i \in Items |-> 0]]
    /\ found' = [found EXCEPT ![w] = NoRow]
    /\ product' = [product EXCEPT ![w] = 0]
    /\ made' = [made EXCEPT ![w] = 0]
    /\ UNCHANGED item

\* The session ends.
Close(w) ==
    /\ Goto(w, "idle")
    /\ own' = [own EXCEPT ![w] = {}]
    /\ todo' = [todo EXCEPT ![w] = {}]
    /\ plan' = [plan EXCEPT ![w] = [i \in Items |-> 0]]
    /\ item' = [item EXCEPT ![w] = NoItem]
    /\ found' = [found EXCEPT ![w] = NoRow]
    /\ product' = [product EXCEPT ![w] = 0]
    /\ made' = [made EXCEPT ![w] = 0]

AllFaults == FoldFunction(+, 0, spent)

Spend(kind) ==
    /\ spent[kind] < MaxFaults[kind]
    /\ AllFaults < MaxAllFaults
    /\ spent' = [spent EXCEPT ![kind] = @ + 1]

-----------------------------------------------------------------------------
(* Odoo and the merchant *)

\* A user edits a template or a variant, or undoes an edit.
Edit(i, version) ==
    /\ edits < MaxEdits
    /\ edits' = edits + 1
    /\ version # odoo[i]
    /\ odoo' = [odoo EXCEPT ![i] = version]
    /\ restored' = (restored \/ version < odoo[i])
    /\ UNCHANGED <<variants, sku, invalid, store, mappings, pc, session, nextId, written,
                   overlapped, spent>>

\* The merchant deletes a product, and its variations with it.
MerchantDeletes(n) ==
    /\ n \in DOMAIN store
    /\ store[n].parent = 0
    /\ Spend("deleted")
    /\ store' = [m \in {k \in DOMAIN store : k # n /\ store[k].parent # n} |-> store[m]]
    /\ UNCHANGED <<catalogue, mappings, pc, session, nextId, written, overlapped>>

-----------------------------------------------------------------------------
(* The phase *)

\* search_read returns as many records as its limit allows, in no order the
\* code asks for.
Pages(items, limit) ==
    {page \in SUBSET items :
        \/ page = items /\ Cardinality(items) <= limit
        \/ Cardinality(page) = limit}

\* model_validate raises for the whole list when one record does not validate.
Readable(page) == \A i \in page : <<i, odoo[i]>> \notin invalid

\* sync_products reads the templates once, at the beginning.
Begin(w) ==
    /\ pc[w] = "idle"
    /\ Goto(w, "next")
    /\ \E page \in Pages(Templates, TemplateLimit) :
          /\ Readable(page)
          /\ todo' = [todo EXCEPT ![w] = page]
          /\ plan' = [plan EXCEPT ![w] = [i \in Items |-> IF i \in page THEN odoo[i] ELSE 0]]
    /\ overlapped' = (overlapped \/ \E v \in Workers \ {w} : pc[v] # "idle")
    /\ UNCHANGED <<catalogue, store, mappings, own, item, found, product,
                   made, nextId, written, spent>>

\* Otherwise the phase is over before it has done anything.
ReadFails(w) ==
    /\ pc[w] = "idle"
    /\ \E page \in Pages(Templates, TemplateLimit) : ~Readable(page)
    /\ UNCHANGED vars

\* Bug form of LookUp: a mapping may not be found.
LookUpMisses(w, i, r) ==
    /\ pc[w] = "next"
    /\ i \in todo[w]
    /\ todo[w] \cap Variants # {} => i \in Variants
    /\ r \in Rows(w, i) \cup {NoRow}
    /\ todo' = [todo EXCEPT ![w] = @ \ {i}]
    /\ product' = IF i \in Variants THEN product
                  ELSE [product EXCEPT ![w] = IF r = NoRow THEN 0 ELSE r.product]
    /\ UNCHANGED <<catalogue, store, mappings, own, plan, nextId, written, overlapped,
                   spent>>

\* The next variant of the template, or the next template, is looked up: r is
\* its mapping.
LookUp(w, i, r) ==
    /\ pc[w] = "next"
    /\ i \in todo[w]
    /\ todo[w] \cap Variants # {} => i \in Variants
    /\ IF Rows(w, i) = {} THEN r = NoRow ELSE r \in Rows(w, i)
    /\ todo' = [todo EXCEPT ![w] = @ \ {i}]
    /\ product' = IF i \in Variants THEN product
                  ELSE [product EXCEPT ![w] = IF r = NoRow THEN 0 ELSE r.product]
    /\ UNCHANGED <<catalogue, store, mappings, own, plan, nextId, written, overlapped,
                   spent>>

\* Bug form of SkipUnchanged: whatever is mapped may be skipped.
SkipMapped(w, i) == \E r \in Rows(w, i) : LookUp(w, i, r) /\ Done(w, i)

\* diff_hashes finds no changed field: no call.
SkipUnchanged(w, i) ==
    \E r \in Rows(w, i) :
        /\ LookUp(w, i, r)
        /\ r.hash = Hash(w, i)
        /\ Done(w, i)

\* No mapping yet, or a changed field.
NeedsCall(w, i) ==
    \E r \in Rows(w, i) \cup {NoRow} :
        /\ LookUp(w, i, r)
        /\ r # NoRow => r.hash # Hash(w, i)
        /\ Goto(w, "call")
        /\ item' = [item EXCEPT ![w] = i]
        /\ found' = [found EXCEPT ![w] = r]
        /\ UNCHANGED made

\* The article the call is about exists: the product of a new variation, the
\* product or variation to update.
Addressed(w) ==
    IF found[w] # NoRow THEN Target(item[w], found[w]) \in DOMAIN store
    ELSE item[w] \in Variants => product[w] \in DOMAIN store

SkuOf(n) == sku[store[n].item][store[n].version]

\* The SKU that is sent belongs to another product or variation of the store.
SkuTaken(w) ==
    LET sent == sku[item[w]][plan[w][item[w]]]
        self == IF found[w] = NoRow THEN 0 ELSE Target(item[w], found[w])
    IN  sent # NoSku /\ \E n \in DOMAIN store \ {self} : SkuOf(n) = sent

\* create_product, create_variation: what the store does.
StoreCreates(w) ==
    LET article == [item |-> item[w],
                    parent |-> IF item[w] \in Templates THEN 0 ELSE product[w],
                    version |-> plan[w][item[w]]]
    IN  /\ found[w] = NoRow
        /\ store' = [m \in DOMAIN store \cup {nextId} |->
                        IF m = nextId THEN article ELSE store[m]]
        /\ written' = written \cup {<<nextId, article.version>>}
        /\ nextId' = nextId + 1

\* update_product, update_variation: the full payload is written.
StoreUpdates(w) ==
    LET n == Target(item[w], found[w])
        version == plan[w][item[w]]
    IN  /\ found[w] # NoRow
        /\ store' = [store EXCEPT ![n].version = version]
        /\ written' = written \cup {<<n, version>>}
        /\ UNCHANGED nextId

Create(w) ==
    /\ pc[w] = "call" /\ Addressed(w) /\ ~SkuTaken(w)
    /\ StoreCreates(w)
    /\ made' = [made EXCEPT ![w] = nextId]
    /\ product' = IF item[w] \in Templates THEN [product EXCEPT ![w] = nextId] ELSE product
    /\ Goto(w, "new")
    /\ UNCHANGED <<catalogue, mappings, own, todo, plan, item, found,
                   overlapped, spent>>

Update(w) ==
    /\ pc[w] = "call" /\ Addressed(w) /\ ~SkuTaken(w)
    /\ StoreUpdates(w)
    /\ Goto(w, "changed")
    /\ UNCHANGED <<catalogue, mappings, session, overlapped, spent>>

\* Bug form of Rejected: an update that is rejected is taken for a success.
RejectedIgnored(w) ==
    /\ pc[w] = "call"
    /\ ~Addressed(w) \/ SkuTaken(w)
    /\ IF found[w] = NoRow THEN NextTemplate(w) ELSE Goto(w, "changed") /\ UNCHANGED session
    /\ UNCHANGED <<catalogue, store, mappings, nextId, written, overlapped, spent>>

\* The store answers 404 or refuses the SKU, or a variant does not validate.
Rejected(w) ==
    /\ \/ pc[w] = "call" /\ (~Addressed(w) \/ SkuTaken(w))
       \/ /\ pc[w] = "variants"
          /\ \E page \in Pages(variants[item[w]], VariantLimit) : ~Readable(page)
    /\ NextTemplate(w)
    /\ UNCHANGED <<catalogue, store, mappings, nextId, written, overlapped, spent>>

\* The store acts; its answer times out or cannot be parsed.
AnswerLost(w) ==
    /\ pc[w] = "call" /\ Addressed(w) /\ ~SkuTaken(w)
    /\ Spend("lost")
    /\ StoreCreates(w) \/ StoreUpdates(w)
    /\ NextTemplate(w)
    /\ UNCHANGED <<catalogue, mappings, overlapped>>

\* The store, or Odoo asked for the variants, refuses or is not reached.
CallRefused(w) ==
    /\ pc[w] \in {"call", "variants"}
    /\ Spend("refused")
    /\ NextTemplate(w)
    /\ UNCHANGED <<catalogue, store, mappings, nextId, written, overlapped>>

\* search_or_create for a template keeps a row that has appeared meanwhile;
\* create_mapping for a variant does not look.
SaveNew(w) ==
    LET i == item[w]
        row == [item |-> i, product |-> product[w],
                variation |-> IF i \in Templates THEN 0 ELSE made[w],
                hash |-> Hash(w, i)]
        kept == i \in Templates /\ Rows(w, i) # {}
    IN  /\ pc[w] = "new"
        /\ own' = [own EXCEPT ![w] = IF kept THEN @ ELSE @ \cup {row}]
        /\ Done(w, i)
        /\ UNCHANGED <<catalogue, store, mappings, todo, plan, product, nextId, written,
                       overlapped, spent>>

\* update_mapping stores the new hashes in the row that was looked up.
SaveHash(w) ==
    LET i == item[w]
        row == [found[w] EXCEPT !.hash = Hash(w, i)]
    IN  /\ pc[w] = "changed"
        /\ RowFree(w, row)
        /\ own' = [own EXCEPT ![w] = {s \in @ : ~SameRow(s, row)} \cup {row}]
        /\ Done(w, i)
        /\ UNCHANGED <<catalogue, store, mappings, todo, plan, product, nextId, written,
                       overlapped, spent>>

\* Step 2 of a variable product reads its variants.
FetchVariants(w) ==
    /\ pc[w] = "variants"
    /\ \E page \in Pages(variants[item[w]], VariantLimit) :
          /\ Readable(page)
          /\ todo' = [todo EXCEPT ![w] = @ \cup page]
          /\ plan' = [plan EXCEPT ![w] =
                         [i \in Items |-> IF i \in page THEN odoo[i] ELSE @[i]]]
    /\ item' = [item EXCEPT ![w] = NoItem]
    /\ Goto(w, "next")
    /\ UNCHANGED <<catalogue, store, mappings, own, found, product, made, nextId, written,
                   overlapped, spent>>

\* The phase is over and the run commits.
CommitRun(w) ==
    /\ pc[w] = "next" /\ todo[w] = {}
    /\ mappings' = View(w)
    /\ Close(w)
    /\ UNCHANGED <<catalogue, store, nextId, written, overlapped, spent>>

\* Nothing the run has flushed remains; what the store has done does.
RollbackRun(w) ==
    /\ pc[w] # "idle"
    /\ Spend("rollback")
    /\ Close(w)
    /\ UNCHANGED <<catalogue, store, mappings, nextId, written, overlapped>>

-----------------------------------------------------------------------------
(* Specification *)

Init ==
    /\ \E c \in Catalogues : variants = c.variants /\ sku = c.sku /\ invalid = c.invalid
    /\ odoo = [i \in Items |-> 0]
    /\ store = [n \in {} |-> 0]
    /\ mappings = {}
    /\ own = [w \in Workers |-> {}]
    /\ pc = [w \in Workers |-> "idle"]
    /\ todo = [w \in Workers |-> {}]
    /\ plan = [w \in Workers |-> [i \in Items |-> 0]]
    /\ item = [w \in Workers |-> NoItem]
    /\ found = [w \in Workers |-> NoRow]
    /\ product = [w \in Workers |-> 0]
    /\ made = [w \in Workers |-> 0]
    /\ nextId = 1
    /\ written = {}
    /\ edits = 0
    /\ restored = FALSE
    /\ overlapped = FALSE
    /\ spent = [k \in FaultKinds |-> 0]

Phase(w) ==
    \/ \E i \in Items : SkipUnchanged(w, i) \/ NeedsCall(w, i)
    \/ Create(w)
    \/ Update(w)
    \/ Rejected(w)
    \/ SaveNew(w)
    \/ SaveHash(w)
    \/ FetchVariants(w)
    \/ CommitRun(w)

RunFault(w) == AnswerLost(w) \/ CallRefused(w) \/ RollbackRun(w)

Next ==
    \/ \E i \in Items, version \in Versions : Edit(i, version)
    \/ \E n \in DOMAIN store : MerchantDeletes(n)
    \/ \E w \in Workers : Begin(w) \/ ReadFails(w) \/ Phase(w) \/ RunFault(w)

Spec == Init /\ [][Next]_vars

\* Runs go on, and there is always another one (a schedule).
Fairness == \A w \in Workers : WF_vars(Begin(w)) /\ WF_vars(Phase(w))

FairSpec == Spec /\ Fairness

-----------------------------------------------------------------------------
(* Properties *)

\* A hash in product_mappings, on which every later run relies to skip an item,
\* is the hash of a content the store has received for that very product or
\* variation, whatever calls fail and whichever runs overlap.
HashWasWritten ==
    \A r \in mappings \cup UNION {own[w] : w \in Workers} :
        <<Target(r.hash[1], r), r.hash[2]>> \in written

\* Unless runs overlap, no item has two rows: search_or_create and the lookup of
\* variants find what an earlier run has left.
MappedOnce ==
    ~overlapped =>
        \A r, s \in mappings : r.item = s.item => r = s

\* Between two runs, an item that the next one would skip as unchanged is up to
\* date in the store.
UpToDate(r) ==
    LET i == r.hash[1]
        n == Target(i, r)
    IN  n \in DOMAIN store /\ r.hash[2] = odoo[i] => store[n].version = odoo[i]

Quiet == ~overlapped /\ \A w \in Workers : pc[w] = "idle"

\* No change is missed but an old content restored in Odoo, and that only of a
\* variable product (whose new hash the code may have stored in the row of one
\* of its variants, so that the old hash matches again), or after the run that
\* wrote the newer content has lost its answer or its transaction.
NoMissedUpdate ==
    Quiet =>
        \A r \in mappings :
            \/ UpToDate(r)
            \/ restored /\ spent["lost"] + spent["rollback"] > 0
            \/ restored /\ \E t \in Templates : t = r.hash[1] /\ variants[t] # {}

\* A template gets a second product only where an answer or a transaction got
\* lost, or where runs overlap, and then no more than one for each of them:
\* however often runs are repeated, they do not go on creating products.
DuplicatesPaidFor ==
    LET runs == IF overlapped THEN Cardinality(Workers) ELSE 1
    IN  \A t \in Templates :
            Cardinality({n \in DOMAIN store : store[n].item = t})
                <= runs + spent["lost"] + spent["rollback"]

\* The row of the item gives an article with the content of Odoo.
Mirrored(i) ==
    \E r \in mappings :
        /\ r.item = i
        /\ Target(i, r) \in DOMAIN store
        /\ store[Target(i, r)].version = odoo[i]

\* The item's SKU is that of an article its row does not name: one that a lost
\* answer or transaction has left behind, or one of an item with the same SKU.
Blocked(i) ==
    /\ sku[i][odoo[i]] # NoSku
    /\ \E n \in DOMAIN store :
          /\ SkuOf(n) = sku[i][odoo[i]]
          /\ \A r \in mappings : r.item = i => n # Target(i, r)
          /\ \/ spent["lost"] + spent["rollback"] > 0
             \/ \E j \in Items \ {i}, v \in Versions : sku[j][v] = sku[i][odoo[i]]

\* The code cannot read the items, or not all of them.
Unread(items, limit) == Cardinality(items) > limit \/ ~Readable(items)

\* Once Odoo stops changing, which the bound on edits makes certain, the store
\* comes to mirror it, through any failed calls and rolled back runs: a template
\* unless a template cannot be read or its SKU is taken, the variants unless
\* that holds of their template or of one of them. Only a deleted product is
\* never made again, and only a restored content is taken for synced.
EventuallyMirrored ==
    [](~overlapped /\ ~restored /\ spent["deleted"] = 0) =>
        <>[](\/ Unread(Templates, TemplateLimit)
             \/ \A t \in Templates :
                   \/ Blocked(t)
                   \/ /\ Mirrored(t)
                      /\ \/ Unread(variants[t], VariantLimit)
                         \/ \E v \in variants[t] : Blocked(v)
                         \/ \A v \in variants[t] : Mirrored(v))

=============================================================================
