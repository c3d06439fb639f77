------------------------------ MODULE MetaCache ------------------------------
(***************************************************************************)
(* The cache of the meta database in Redis (cache/CacheMgr.ts) as the      *)
(* models use it: rows of one table, cached one by one and as lists        *)
(* (models/Sort.ts).  Every call runs one command of Redis or one query at *)
(* a time, on any server, and calls interleave between them.               *)
(*                                                                         *)
(* Reading a key that is old also refreshes its lifetime; this is modelled *)
(* where a read is served, in get() and getList(), and not in the reads    *)
(* that a write makes of the key it is about to write.                     *)
(*                                                                         *)
(* Every row belongs to every list.  A row is the number of its last       *)
(* update; identifiers of deleted rows are not used again.                 *)
(***************************************************************************)
EXTENDS Naturals

CONSTANTS
    Items,
    Lists,
    Calls,
    NONE,       \* the member of a list that is known to be empty
    None,       \* a key that does not exist
    MaxVersion, \* bound: updates of a row, its insertion included
    MaxLosses   \* bound: keys that expire or are evicted

ASSUME BoundsAssumption == MaxVersion \in Nat \ {0} /\ MaxLosses \in Nat /\ NONE \notin Items

VARIABLES
    row,    \* the table: 0 before the insertion, Gone after the deletion
    cell,   \* the cached rows, each with its parentKeys
    list,   \* the cached lists: sets of keys; the empty set does not exist
    call,   \* what each call does
    raced,  \* history: rows with a write that overlapped another call or lost its key
    losses  \* keys lost so far

vars == <<row, cell, list, call, raced, losses>>

Gone == MaxVersion + 1
Versions == 1..MaxVersion
Cells == [value : Versions, parents : SUBSET Lists]
ASSUME NoneAssumption == None \notin Cells \cup Items \cup Lists
RowsEverInserted == {i \in Items : row[i] # 0}      \* planted bug for Rows
Rows == {i \in Items : row[i] \in Versions}
Cached == {i \in Items : cell[i] # None}
Parents(entry) == IF entry = None THEN {} ELSE entry.parents

Writes == {"insert", "update", "delete"}
Idle == [op |-> "none", at |-> "idle", item |-> None, target |-> None, value |-> 0, parents |-> {},
         seen |-> {}, rows |-> <<>>, appends |-> {}, drops |-> {}, parent |-> None,
         snap |-> <<>>, back |-> "idle"]
Places == {"idle", "get", "row", "parents", "set", "refresh", "refreshList", "writeBack", "got",
           "members", "values", "rows", "none", "drop", "kids", "dropList", "fill",
           "append", "clear", "appendItem", "link", "update",
           "unrow", "unlink", "unlinkFrom", "cut", "relink", "delKey"}

TypeOK ==
    /\ row \in [Items -> 0..Gone]
    /\ cell \in [Items -> Cells \cup {None}]
    /\ list \in [Lists -> SUBSET (Items \cup {NONE})]
    /\ \A c \in Calls :
        /\ call[c].op \in Writes \cup {"none", "get", "list"}
        /\ {call[c].at, call[c].back} \subseteq Places
        /\ call[c].item \in Items \cup {None}
        /\ {call[c].target, call[c].parent} \subseteq Lists \cup {None}
        /\ call[c].seen \subseteq Items \cup {NONE}
        /\ call[c].parents \cup call[c].appends \cup call[c].drops \subseteq Lists
    /\ raced \subseteq Items
    /\ losses \in 0..MaxLosses

Init ==
    /\ row = [i \in Items |-> 0]
    /\ cell = [i \in Items |-> None]
    /\ list = [l \in Lists |-> {}]
    /\ call = [c \in Calls |-> Idle]
    /\ raced = {}
    /\ losses = 0

At(c, place) == call[c].at = place
Over(old, new) == [k \in DOMAIN old |-> IF k \in DOMAIN new THEN new[k] ELSE old[k]]
Now(c, new) == call' = [call EXCEPT ![c] = Over(@, new)]
End(c) == call' = [call EXCEPT ![c] = Idle]

\* A call begins; it and the writes that run overlap.
Others(c) == {d \in Calls \ {c} : call[d] # Idle}
Begin(c, new) ==
    /\ call[c] = Idle
    /\ Now(c, new)
    /\ raced' = raced \cup {call[d].item : d \in {d \in Others(c) : call[d].op \in Writes}}
                      \cup {i \in {new.item} : new.op \in Writes /\ Others(c) # {}}

-----------------------------------------------------------------------------
\* set(): the parents the key has, then SET, then the lifetime of the key and of the
\* members of its parents is refreshed: they are read, and written back.
ParentsOf(c) ==
    Parents(cell[call[c].item]) \cup (IF call[c].back = "fill" THEN {call[c].target} ELSE {})

ReadParents(c) ==
    /\ At(c, "parents")
    /\ Now(c, [at |-> "set", parents |-> ParentsOf(c)])
    /\ UNCHANGED <<row, cell, list, raced, losses>>

Set(c) ==
    /\ At(c, "set")
    /\ cell' = [cell EXCEPT ![call[c].item] = [value |-> call[c].value, parents |-> call[c].parents]]
    /\ Now(c, [at |-> "refresh", value |-> 0, parents |-> {}])
    /\ UNCHANGED <<row, list, raced, losses>>

Refreshed(entry, i) ==
    IF Parents(entry) = {} THEN {i} ELSE UNION {list[p] : p \in Parents(entry)}

Refresh(c) ==
    /\ At(c, "refresh")
    /\ LET i == call[c].item
       IN  Now(c, [at |-> "writeBack",
                   snap |-> [k \in Refreshed(cell[i], i) \cap Cached |-> cell[k]]])
    /\ UNCHANGED <<row, cell, list, raced, losses>>

\* A key whose timestamp is the same is not written, which is as if it was written
\* back before it could change.
WriteBack(c) ==
    /\ At(c, "writeBack")
    /\ cell' = Over(cell, call[c].snap)
    /\ Now(c, [at |-> call[c].back, snap |-> <<>>, back |-> "idle"])
    /\ UNCHANGED <<row, list, raced, losses>>

SetAndRefresh(c) == ReadParents(c) \/ Set(c) \/ Refresh(c) \/ WriteBack(c)

-----------------------------------------------------------------------------
\* get() of the model: the cached row, whose lifetime is refreshed if it is old, or
\* the row of the table, which is then cached.
StartGet(c, i) ==
    /\ Begin(c, [op |-> "get", at |-> "get", item |-> i])
    /\ UNCHANGED <<row, cell, list, losses>>

GetItem(c) ==
    /\ At(c, "get")
    /\ IF cell[call[c].item] = None THEN Now(c, [at |-> "row"])
       ELSE \E place \in {"got", "refresh"} : Now(c, [at |-> place, back |-> "got"])
    /\ UNCHANGED <<row, cell, list, raced, losses>>

GetRow(c) ==
    /\ At(c, "row")
    /\ IF call[c].item \in Rows
       THEN Now(c, [at |-> "parents", value |-> row[call[c].item], back |-> "got"])
       ELSE Now(c, [at |-> "got"])
    /\ UNCHANGED <<row, cell, list, raced, losses>>

Got(c) ==
    /\ At(c, "got")
    /\ CASE call[c].op = "insert" -> Now(c, [at |-> "append", appends |-> Lists, back |-> "idle"])
         [] call[c].op = "delete" -> Now(c, [at |-> "unrow", back |-> "idle"])
         [] OTHER -> End(c)
    /\ UNCHANGED <<row, cell, list, raced, losses>>

Get(c) == (\E i \in Items : StartGet(c, i)) \/ GetItem(c) \/ GetRow(c) \/ Got(c)

-----------------------------------------------------------------------------
\* list() of the model: getList(), and if it has no list the rows and setList().
StartList(c, l) ==
    /\ Begin(c, [op |-> "list", at |-> "members", item |-> None, target |-> l])
    /\ UNCHANGED <<row, cell, list, losses>>

\* The fallback of appendToList() calls getList() too, and throws its list away.
Served(c) == IF call[c].op = "list" THEN End(c) ELSE Now(c, [at |-> "append", seen |-> {}])
NotServed(c) == IF call[c].op = "list" THEN "rows" ELSE "append"

Members(c) ==
    /\ At(c, "members")
    /\ LET seen == list[call[c].target]
       IN  \/ NONE \in seen /\ Served(c)
           \/ seen = {} /\ Now(c, [at |-> NotServed(c)])
           \/ NONE \notin seen /\ seen # {} /\ Now(c, [at |-> "values", seen |-> seen])
    /\ UNCHANGED <<row, cell, list, raced, losses>>

\* MGET of the members.  If one is missing the parents of the others are dropped;
\* if they are old the lifetime of all members is refreshed before they are served.
CompleteAnyway(c) == TRUE                         \* planted bug for Complete
Complete(c) == call[c].seen \subseteq Cached
Values(c) ==
    /\ At(c, "values")
    /\ IF Complete(c) THEN Served(c) \/ Now(c, [at |-> "refreshList", seen |-> {}])
       ELSE Now(c, [at |-> "drop", back |-> NotServed(c), seen |-> {},
                    drops |-> UNION {Parents(cell[i]) : i \in call[c].seen}])
    /\ UNCHANGED <<row, cell, list, raced, losses>>

RefreshList(c) ==
    /\ At(c, "refreshList")
    /\ Now(c, [at |-> "writeBack", back |-> IF call[c].op = "list" THEN "got" ELSE "append",
               snap |-> [k \in list[call[c].target] \cap Cached |-> cell[k]]])
    /\ UNCHANGED <<row, cell, list, raced, losses>>

\* deepDel(PARENT_TO_CHILD): the members are read and deleted, then the list.
Drop(c) ==
    /\ At(c, "drop")
    /\ \/ /\ call[c].drops = {}
          /\ Now(c, [at |-> call[c].back, back |-> "idle"])
       \/ \E p \in call[c].drops :
             Now(c, [at |-> "kids", drops |-> call[c].drops \ {p}, parent |-> p, seen |-> list[p]])
    /\ UNCHANGED <<row, cell, list, raced, losses>>

DropKids(c) ==
    /\ At(c, "kids")
    /\ cell' = [i \in Items |-> IF i \in call[c].seen THEN None ELSE cell[i]]
    /\ Now(c, [at |-> "dropList", seen |-> {}])
    /\ UNCHANGED <<row, list, raced, losses>>

DropList(c) ==
    /\ At(c, "dropList")
    /\ list' = [list EXCEPT ![call[c].parent] = {}]
    /\ Now(c, [at |-> "drop", parent |-> None])
    /\ UNCHANGED <<row, cell, raced, losses>>

ListRows(c) ==
    /\ At(c, "rows")
    /\ IF Rows = {} THEN Now(c, [at |-> "none"])
       ELSE Now(c, [at |-> "drop", drops |-> {call[c].target}, back |-> "fill",
                    rows |-> [i \in Rows |-> row[i]]])
    /\ UNCHANGED <<row, cell, list, raced, losses>>

SetNone(c) ==
    /\ At(c, "none")
    /\ list' = [list EXCEPT ![call[c].target] = @ \cup {NONE}]
    /\ End(c)
    /\ UNCHANGED <<row, cell, raced, losses>>

\* setList() caches the rows one after the other, and then the list of their keys.
FillItem(c) ==
    /\ At(c, "fill")
    /\ \E i \in DOMAIN call[c].rows :
          Now(c, [at |-> "parents", back |-> "fill", item |-> i, value |-> call[c].rows[i],
                  rows |-> [k \in DOMAIN call[c].rows \ {i} |-> call[c].rows[k]],
                  seen |-> call[c].seen \cup {i}])
    /\ UNCHANGED <<row, cell, list, raced, losses>>

FillList(c) ==
    /\ At(c, "fill")
    /\ DOMAIN call[c].rows = {}
    /\ list' = [list EXCEPT ![call[c].target] = @ \cup call[c].seen]
    /\ End(c)
    /\ UNCHANGED <<row, cell, raced, losses>>

List(c) ==
    \/ \E l \in Lists : StartList(c, l)
    \/ Members(c) \/ Values(c) \/ RefreshList(c) \/ Drop(c) \/ DropKids(c) \/ DropList(c)
    \/ ListRows(c) \/ SetNone(c) \/ FillItem(c) \/ FillList(c)

-----------------------------------------------------------------------------
\* insert(): the row, get(), then appendToList() for every list.
Insert(c, i) ==
    /\ row[i] = 0
    /\ Begin(c, [op |-> "insert", at |-> "get", item |-> i])
    /\ row' = [row EXCEPT ![i] = 1]
    /\ UNCHANGED <<cell, list, losses>>

Appended(c) == At(c, "append") /\ call[c].appends = {} /\ End(c)

\* A list that is not cached stays so; one that is known to be empty is deleted first.
Append(c) ==
    /\ At(c, "append")
    /\ \/ Appended(c)
       \/ \E l \in call[c].appends :
             LET place == IF list[l] = {} THEN "append"
                          ELSE IF NONE \in list[l] THEN "clear" ELSE "appendItem"
             IN  Now(c, [at |-> place, appends |-> call[c].appends \ {l}, target |-> l,
                         seen |-> list[l] \ {NONE}])
    /\ UNCHANGED <<row, cell, list, raced, losses>>

Clear(c) ==
    /\ At(c, "clear")
    /\ list' = [list EXCEPT ![call[c].target] = {}]
    /\ Now(c, [at |-> "appendItem", seen |-> {}])
    /\ UNCHANGED <<row, cell, raced, losses>>

\* If the key of the row is gone its lists should be dropped, but getParents() finds
\* no parents in the values of getList(): nothing is.
AppendItem(c) ==
    /\ At(c, "appendItem")
    /\ LET entry == cell[call[c].item]
       IN  IF entry = None THEN Now(c, [at |-> "members", seen |-> {}])
           ELSE Now(c, [at |-> "set", back |-> "link", value |-> entry.value,
                        parents |-> entry.parents \cup {call[c].target}])
    /\ UNCHANGED <<row, cell, list, raced, losses>>

LinkedUnread(c) == call[c].seen                   \* planted bug for Linked
Linked(c) == call[c].seen \cup {call[c].item}
Link(c) ==
    /\ At(c, "link")
    /\ list' = [list EXCEPT ![call[c].target] = @ \cup Linked(c)]
    /\ Now(c, [at |-> "append", seen |-> {}])
    /\ UNCHANGED <<row, cell, raced, losses>>

InsertItem(c) ==
    (\E i \in Items : Insert(c, i)) \/ Append(c) \/ Clear(c) \/ AppendItem(c) \/ Link(c)

-----------------------------------------------------------------------------
\* update(): the row, then its key if it is there, then get().
Update(c, i) ==
    /\ row[i] \in Versions \ {MaxVersion}
    /\ Begin(c, [op |-> "update", at |-> "update", item |-> i, value |-> row[i] + 1])
    /\ row' = [row EXCEPT ![i] = @ + 1]
    /\ UNCHANGED <<cell, list, losses>>

UpdatesNoKey(c) == FALSE                           \* planted bug for UpdatesKey
UpdatesKey(c) == cell[call[c].item] # None
UpdateKey(c) ==
    /\ At(c, "update")
    /\ IF UpdatesKey(c) THEN Now(c, [at |-> "parents", back |-> "get"])
                        ELSE Now(c, [at |-> "get", value |-> 0])
    /\ UNCHANGED <<row, cell, list, raced, losses>>

\* delete(): get(), the row, then deepDel(CHILD_TO_PARENT): each list of the row is
\* read, deleted and written without it, then the key is deleted.
Delete(c, i) ==
    /\ i \in Rows
    /\ Begin(c, [op |-> "delete", at |-> "get", item |-> i])
    /\ UNCHANGED <<row, cell, list, losses>>

DeleteRow(c) ==
    /\ At(c, "unrow")
    /\ row' = [row EXCEPT ![call[c].item] = Gone]
    /\ Now(c, [at |-> "unlink"])
    /\ UNCHANGED <<cell, list, raced, losses>>

Unlink(c) ==
    /\ At(c, "unlink")
    /\ Now(c, [at |-> "unlinkFrom", drops |-> Parents(cell[call[c].item])])
    /\ UNCHANGED <<row, cell, list, raced, losses>>

UnlinkFrom(c) ==
    /\ At(c, "unlinkFrom")
    /\ \/ call[c].drops = {} /\ Now(c, [at |-> "delKey"])
       \/ \E p \in call[c].drops :
             Now(c, [at |-> IF list[p] = {} THEN "unlinkFrom" ELSE "cut", parent |-> p,
                     drops |-> call[c].drops \ {p}, seen |-> list[p] \ {call[c].item}])
    /\ UNCHANGED <<row, cell, list, raced, losses>>

Cut(c) ==
    /\ At(c, "cut")
    /\ list' = [list EXCEPT ![call[c].parent] = {}]
    /\ Now(c, [at |-> IF call[c].seen = {} THEN "unlinkFrom" ELSE "relink"])
    /\ UNCHANGED <<row, cell, raced, losses>>

Relink(c) ==
    /\ At(c, "relink")
    /\ list' = [list EXCEPT ![call[c].parent] = @ \cup call[c].seen]
    /\ Now(c, [at |-> "unlinkFrom", seen |-> {}])
    /\ UNCHANGED <<row, cell, raced, losses>>

DeleteKey(c) ==
    /\ At(c, "delKey")
    /\ cell' = [cell EXCEPT ![call[c].item] = None]
    /\ End(c)
    /\ UNCHANGED <<row, list, raced, losses>>

Write(c) ==
    \/ \E i \in Items : Update(c, i) \/ Delete(c, i)
    \/ UpdateKey(c) \/ DeleteRow(c) \/ Unlink(c) \/ UnlinkFrom(c) \/ Cut(c) \/ Relink(c)
    \/ DeleteKey(c)

-----------------------------------------------------------------------------
\* A key expires or is evicted.
Lose == losses < MaxLosses /\ losses' = losses + 1

LoseItem(i) ==
    /\ Lose
    /\ cell[i] # None
    /\ cell' = [cell EXCEPT ![i] = None]
    /\ raced' = raced \cup {k \in {i} : \E c \in Calls : call[c].op = "insert" /\ call[c].item = i}
    /\ UNCHANGED <<row, list, call>>

LoseList(l) ==
    /\ Lose
    /\ list[l] # {}
    /\ list' = [list EXCEPT ![l] = {}]
    /\ UNCHANGED <<row, cell, call, raced>>

Next ==
    \/ \E c \in Calls : SetAndRefresh(c) \/ Get(c) \/ List(c) \/ InsertItem(c) \/ Write(c)
    \/ \E i \in Items : LoseItem(i)
    \/ \E l \in Lists : LoseList(l)

Spec == Init /\ [][Next]_vars

-----------------------------------------------------------------------------
\* The rows of which no write runs and no write has overlapped another call.
Writing(c) == call[c].op \in Writes
Settled == Items \ (raced \cup {call[c].item : c \in {c \in Calls : Writing(c)}})

\* The cached row of a settled row is the row.
CellsFollowRows == \A i \in Settled : cell[i] # None => cell[i].value = row[i]

\* A list that is cached has every settled row that exists, and is not marked empty
\* while there is one.
ListsKeepRows ==
    \A l \in Lists : list[l] # {} => \A i \in Settled \cap Rows : i \in list[l] /\ NONE \notin list[l]

\* A list that is served from the cache has the settled rows that exist, as they are.
ServedRight ==
    [][\A c \in Calls :
        call[c].op = "list" /\ At(c, "values") /\ call'[c].at \in {"idle", "refreshList"} =>
            \A i \in Settled : /\ i \in call[c].seen <=> i \in Rows
                               /\ i \in Rows => cell[i] # None /\ cell[i].value = row[i]]_vars
=============================================================================
