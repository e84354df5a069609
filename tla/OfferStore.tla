----------------------------- MODULE OfferStore -----------------------------
(***************************************************************************)
(* bf_price_monitor/storage/sqlite.py, identity.py: opening the database,  *)
(* which several processes may do at once, and recording a shop's offer    *)
(* under a product that offers of other shops may share.                   *)
(*                                                                         *)
(* A title is a model value; how much two titles resemble each other is a  *)
(* constant.  The id of a product is derived from the title of the offer   *)
(* that created it, and is that title here.                                *)
(***************************************************************************)
EXTENDS Naturals, FiniteSets

CONSTANTS Offers,       \* pairs of a retailer and a SKU
          Retailer,     \* the retailer of each
          WellFormed,   \* offers whose URL has their retailer's pattern
          Titles,
          Likeness,     \* match_titles: 0 refused, 1 accepted, 2 HIGH_CONFIDENCE
          Openers,      \* processes that open the database
          Scraper       \* the one that records offers

NoTitle == "none"

ASSUME StoreAssumption ==
  /\ NoTitle \notin Titles /\ WellFormed \subseteq Offers /\ Scraper \in Openers
  /\ Likeness \in [Titles \X Titles -> Nat]

Products == Titles
Versions == 1..3

VARIABLES
  version,   \* PRAGMA user_version
  applied,   \* history: times each migration was applied
  opening,   \* the version an opener is at; one more than the last: it is open
  peeked,    \* it saw that the version is missing
  title,     \* canonical_products
  product,   \* offers.product_id
  link,      \* cross_retailer_links
  remaps     \* product_id_remaps

schema == <<version, applied, opening, peeked>>
catalogue == <<title, product, link, remaps>>
storeVars == <<schema, catalogue>>

StoreInit ==
  /\ version \in {0} \cup Versions
  /\ applied = [v \in Versions |-> IF v <= version THEN 1 ELSE 0]
  /\ opening = [p \in Openers |-> 1] /\ peeked = [p \in Openers |-> FALSE]
  /\ title = [p \in Products |-> NoTitle]
  /\ product = [o \in Offers |-> NoTitle]
  /\ link = [o \in Offers |-> NoTitle]
  /\ remaps = {}

----------------------------------------------------------------------------
(* _apply_migrations *)

Open(p) == opening[p] > Cardinality(Versions)

Peek(p) ==
  /\ ~Open(p) /\ ~peeked[p]
  /\ IF version >= opening[p]
     THEN opening' = [opening EXCEPT ![p] = @ + 1] /\ UNCHANGED peeked
     ELSE peeked' = [peeked EXCEPT ![p] = TRUE] /\ UNCHANGED opening
  /\ UNCHANGED <<version, applied, catalogue>>

(* One transaction under the write lock, which checks again.                *)
Missing_Assumed(p) == TRUE
Missing(p) == version < opening[p]

Migrate(p) ==
  /\ peeked[p]
  /\ IF Missing(p)
     THEN version' = opening[p] /\ applied' = [applied EXCEPT ![opening[p]] = @ + 1]
     ELSE UNCHANGED <<version, applied>>
  /\ opening' = [opening EXCEPT ![p] = @ + 1] /\ peeked' = [peeked EXCEPT ![p] = FALSE]
  /\ UNCHANGED catalogue

(* The process dies, or its transaction is rolled back, and opens again.    *)
Reopen(p) ==
  /\ opening[p] > 1 \/ peeked[p]
  /\ opening' = [opening EXCEPT ![p] = 1] /\ peeked' = [peeked EXCEPT ![p] = FALSE]
  /\ UNCHANGED <<version, applied, catalogue>>

----------------------------------------------------------------------------
(* resolve_offer: the offers of other shops whose product's present title   *)
(* is most like this one.                                                   *)
Like(t, o) == Likeness[<<t, title[product[o]]>>]

Candidates(o, t) ==
  {q \in Offers : product[q] # NoTitle /\ Retailer[q] # Retailer[o] /\ Like(t, q) > 0}

Best(o, t) ==
  {q \in Candidates(o, t) : \A r \in Candidates(o, t) : Like(t, r) <= Like(t, q)}

(* _resolve_product_id, as triples of the product, what is linked and       *)
(* whether the product is not the one of the title.                         *)
Known_Unseen(o) == FALSE
Known(o) == o \in WellFormed /\ product[o] # NoTitle

Matches(o, t) ==
  IF o \notin WellFormed THEN {}
  ELSE {[to |-> product[q], merged |-> Like(t, q) = 2] : q \in Best(o, t)}

Resolutions(o, t) ==
  IF Known(o) THEN {[to |-> product[o], linked |-> product[o]]}
  ELSE IF Matches(o, t) = {} THEN {[to |-> t, linked |-> link[o]]}
  ELSE {[to |-> IF m.merged THEN m.to ELSE t, linked |-> m.to] : m \in Matches(o, t)}

(* record_observation, one transaction.                                     *)
Record(o, t) ==
  /\ Open(Scraper)
  /\ \E r \in Resolutions(o, t) :
       /\ product' = [product EXCEPT ![o] = r.to]
       /\ title' = [title EXCEPT ![r.to] = t]
       /\ link' = [link EXCEPT ![o] = r.linked]
       /\ remaps' = IF r.to = t THEN remaps ELSE remaps \cup {[offer |-> o, old |-> t, new |-> r.to]}
  /\ UNCHANGED schema

StoreNext ==
  \/ \E p \in Openers : Peek(p) \/ Migrate(p) \/ Reopen(p)
  \/ \E o \in Offers, t \in Titles : Record(o, t)

StoreSpec == StoreInit /\ [][StoreNext]_storeVars

----------------------------------------------------------------------------
StoreTypeOK ==
  /\ version \in {0} \cup Versions
  /\ applied \in [Versions -> Nat]
  /\ opening \in [Openers -> 1..(Cardinality(Versions) + 1)] /\ peeked \in [Openers -> BOOLEAN]
  /\ title \in [Products -> Titles \cup {NoTitle}]
  /\ product \in [Offers -> Products \cup {NoTitle}]
  /\ link \in [Offers -> Products \cup {NoTitle}]
  /\ remaps \subseteq [offer : Offers, old : Products, new : Products]

(* However many processes open the database at once and however they die, a *)
(* migration is applied once: the salt of the raters' pseudonyms never      *)
(* changes.                                                                 *)
MigratedOnce == \A v \in Versions : applied[v] = (IF v <= version THEN 1 ELSE 0)

(* An offer stays with its product while shops edit titles and other shops' *)
(* offers join it.                                                          *)
KeepsProducts == \A o \in WellFormed : product[o] # NoTitle => product'[o] = product[o]
StableIdentity == [][KeepsProducts]_storeVars
============================================================================
