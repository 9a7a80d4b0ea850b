----------------------------- MODULE Storefront -----------------------------
(***************************************************************************)
(* What administrators put up and customers see: bank cards, crypto        *)
(* wallets, plans, and the public settings. Each is a table with one       *)
(* listing that a service caches in Redis under a key of its own for five  *)
(* minutes. A reader that misses loads the rows and stores what it loaded; *)
(* an editor writes the rows and deletes the key.                          *)
(*                                                                         *)
(* One behaviour is about one of the four services. Cards and wallets have *)
(* a default, shown first, which is cleared by a statement of its own, one *)
(* currency at a time for wallets; nothing locks the rows.                 *)
(*                                                                         *)
(* A row is shown when it is active, visible or public, as the listing     *)
(* asks; every other column is left out.                                   *)
(***************************************************************************)
EXTENDS Naturals, FiniteSets

CONSTANTS
  Items,            \* public ids, of rows that exist or may be created
  CurrencyOf,       \* crypto_wallets.currency of an item
  Editors, Readers, \* requests that run at the same time
  MaxEdits,         \* bound: how many rows are written
  NoItem

VARIABLES
  ware,     \* the service this behaviour is about
  row,      \* its table
  shelf,    \* its cached listing, NoListing when the key is not there
  editor,   \* volatile: where each change is
  reader,   \* volatile: the listing each reader has loaded and not stored
  edits     \* bound: the writes so far

storeVars == <<ware, row, shelf, editor, reader, edits>>

ASSUME StoreAssumption == NoItem \notin Items /\ MaxEdits \in Nat

Wares == {"cards", "wallets", "plans", "settings"}
HaveDefault == {"cards", "wallets"}
StoreRow == [there : BOOLEAN, shown : BOOLEAN, first : BOOLEAN]
NoStoreRow == [there |-> FALSE, shown |-> FALSE, first |-> FALSE]

Listing(rows) == {<<i, rows[i].first>> : i \in {j \in Items : rows[j].there /\ rows[j].shown}}
Listings == SUBSET (Items \X BOOLEAN)
NoListing == {<<NoItem, FALSE>>}   \* a value no listing has

EditSteps == {"idle", "preset", "find", "clear", "write", "drop", "invalidate"}
\* isDefault may be set, reset, or left out of an update.
Changes == [shown : BOOLEAN, first : {"yes", "no", "kept"}]
IdleEditor == [step |-> "idle", item |-> NoItem, change |-> [shown |-> TRUE, first |-> "no"]]
EditJob == [step : EditSteps, item : Items \cup {NoItem}, change : Changes]

StoreTypeOK ==
  /\ ware \in Wares
  /\ row \in [Items -> StoreRow]
  /\ shelf \in Listings \cup {NoListing}
  /\ editor \in [Editors -> EditJob]
  /\ reader \in [Readers -> Listings \cup {NoListing}]
  /\ edits \in 0..MaxEdits

StoreInit ==
  /\ ware \in Wares
  /\ row = [i \in Items |-> NoStoreRow]
  /\ shelf = NoListing
  /\ editor = [e \in Editors |-> IdleEditor]
  /\ reader = [r \in Readers |-> NoListing]
  /\ edits = 0

-----------------------------------------------------------------------------
EditAt(e, step) == editor[e].step = step
ItemOf(e) == editor[e].item
Sells(wares) == ware \in wares
EditGoes(e, step) == editor' = [editor EXCEPT ![e].step = step]
BeginEdit(e, step, i, change) ==
  /\ EditAt(e, "idle") /\ edits < MaxEdits
  /\ editor' = [editor EXCEPT ![e] = [step |-> step, item |-> i, change |-> change]]
  /\ UNCHANGED <<ware, row, shelf, reader, edits>>

\* clearDefault: of all cards, or of the wallets of one currency.
ClearedFor(i) ==
  [j \in Items |-> IF ware = "cards" \/ CurrencyOf[j] = CurrencyOf[i]
                   THEN [row[j] EXCEPT !.first = FALSE] ELSE row[j]]

Write(e, newRow) ==
  /\ edits < MaxEdits
  /\ row' = [row EXCEPT ![ItemOf(e)] = newRow]
  /\ edits' = edits + 1
  /\ EditGoes(e, "invalidate")
  /\ UNCHANGED <<ware, shelf, reader>>

Throws(e) ==
  /\ editor' = [editor EXCEPT ![e] = IdleEditor]
  /\ UNCHANGED <<ware, row, shelf, reader, edits>>

AfterFind(change) == IF change.first = "yes" THEN "clear" ELSE "write"

\* create of a card, wallet or plan; upsert of a setting.
Create(e, i, change) ==
  /\ ~row[i].there /\ \A d \in Editors : ItemOf(d) # i
  /\ change.first = "no" \/ (change.first = "yes" /\ Sells(HaveDefault))
  /\ BeginEdit(e, AfterFind(change), i, change)

\* update, and setActive, which takes the default from what it hides.
Update(e, i, change) ==
  /\ change.first = "kept" \/ Sells(HaveDefault)
  /\ BeginEdit(e, "find", i, change)

Remove(e, i) == BeginEdit(e, "drop", i, IdleEditor.change)

SetDefault(e, i) ==
  /\ Sells(HaveDefault) /\ row[i].there /\ row[i].shown
  /\ BeginEdit(e, "preset", i, [shown |-> TRUE, first |-> "yes"])

\* setDefault clears once itself and calls update, which does it again.
Preset(e) ==
  /\ EditAt(e, "preset")
  /\ row' = ClearedFor(ItemOf(e))
  /\ EditGoes(e, "find")
  /\ UNCHANGED <<ware, shelf, reader, edits>>

FindExisting(e) ==
  /\ EditAt(e, "find")
  /\ IF row[ItemOf(e)].there
     THEN /\ EditGoes(e, AfterFind(editor[e].change))
          /\ UNCHANGED <<ware, row, shelf, reader, edits>>
     ELSE Throws(e)

ClearDefault(e) ==
  /\ EditAt(e, "clear")
  /\ row' = ClearedFor(ItemOf(e))
  /\ EditGoes(e, "write")
  /\ UNCHANGED <<ware, shelf, reader, edits>>

WriteRow(e) ==
  /\ EditAt(e, "write")
  /\ Write(e, [there |-> TRUE, shown |-> editor[e].change.shown,
               first |-> IF editor[e].change.first = "kept" THEN row[ItemOf(e)].first
                         ELSE editor[e].change.first = "yes"])

\* A value that is not valid, found after the default was cleared; a slug or
\* a row that another request took or deleted; a setting that is not editable.
WriteRefused(e) == EditAt(e, "write") /\ Throws(e)

\* Cards and plans stay for the history; wallets and settings are deleted.
DropRow(e) ==
  /\ EditAt(e, "drop")
  /\ IF ~row[ItemOf(e)].there THEN Throws(e)
     ELSE Write(e, IF Sells({"cards", "plans"})
                   THEN [there |-> TRUE, shown |-> FALSE, first |-> FALSE] ELSE NoStoreRow)

Invalidate(e) ==
  /\ EditAt(e, "invalidate")
  /\ shelf' = NoListing
  /\ editor' = [editor EXCEPT ![e] = IdleEditor]
  /\ UNCHANGED <<ware, row, reader, edits>>

\* The process stops, or Redis fails, after the write.
EditLost(e) == ~EditAt(e, "idle") /\ Throws(e)

-----------------------------------------------------------------------------
\* listActive, listVisible, listPublic: a hit changes nothing.
LoadListing(r) ==
  /\ shelf = NoListing /\ reader[r] = NoListing
  /\ reader' = [reader EXCEPT ![r] = Listing(row)]
  /\ UNCHANGED <<ware, row, shelf, editor, edits>>

StoreListing(r) ==
  /\ reader[r] # NoListing
  /\ shelf' = reader[r]
  /\ reader' = [reader EXCEPT ![r] = NoListing]
  /\ UNCHANGED <<ware, row, editor, edits>>

ReaderLost(r) ==
  /\ reader[r] # NoListing
  /\ reader' = [reader EXCEPT ![r] = NoListing]
  /\ UNCHANGED <<ware, row, shelf, editor, edits>>

\* Mutant: the listing is stored without a TTL and leaves by invalidation only.
ShelfStays == shelf # NoListing /\ UNCHANGED storeVars

\* The 300 seconds given to setJson have passed.
ShelfExpires ==
  /\ shelf # NoListing
  /\ shelf' = NoListing
  /\ UNCHANGED <<ware, row, editor, reader, edits>>

EditStep(e) ==
  \/ Preset(e) \/ FindExisting(e) \/ ClearDefault(e)
  \/ WriteRow(e) \/ DropRow(e) \/ Invalidate(e)

StoreNext ==
  \/ \E e \in Editors, i \in Items :
       \/ \E change \in Changes : Create(e, i, change) \/ Update(e, i, change)
       \/ Remove(e, i) \/ SetDefault(e, i)
  \/ \E e \in Editors : EditStep(e) \/ WriteRefused(e) \/ EditLost(e)
  \/ \E r \in Readers : LoadListing(r) \/ StoreListing(r) \/ ReaderLost(r)
  \/ ShelfExpires

StoreFairness ==
  /\ \A r \in Readers : WF_storeVars(StoreListing(r) \/ ReaderLost(r))
  /\ WF_storeVars(ShelfExpires)

StoreSpec == StoreInit /\ [][StoreNext]_storeVars /\ StoreFairness

-----------------------------------------------------------------------------
(* "Only one card may be the default at a time", says create of BankCards- *)
(* Service, and the wallets have one default for each currency.            *)
OnlyOneDefault ==
  \A i, j \in Items :
    /\ row[i].first /\ row[j].first
    /\ ware = "cards" \/ CurrencyOf[i] = CurrencyOf[j]
    => i = j

(* A listing that a slow reader stored after the rows had changed, or that *)
(* an editor did not live to delete, does not stay: once the editors are   *)
(* done, customers see the cards and plans there are, or none are cached.  *)
ShelfCatchesUp == <>[](shelf \in {NoListing, Listing(row)})
=============================================================================
