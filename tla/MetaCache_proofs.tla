--------------------------- MODULE MetaCache_proofs ---------------------------
(***************************************************************************)
(* Proofs about MetaCache: while no write of a row overlaps another call,  *)
(* whatever the other calls do, what is cached of the row is the row, the  *)
(* lists that are cached have it, and so have the lists that are served.   *)
(*                                                                         *)
(* A row that no write has raced is seen by one call at a time while it is *)
(* written.  The invariant therefore says, for each row that was not raced *)
(* and each call, what the call may hold of the row and what it may find   *)
(* in the cache at the place where it is: View(c, i).  Every step of a     *)
(* call keeps its own view; the other calls are idle if it is a write of   *)
(* the row, and else the row and its key mean the same to them.            *)
(***************************************************************************)
EXTENDS MetaCache, TLAPS

Fields == {"op", "at", "item", "target", "value", "parents", "seen", "rows", "appends",
           "drops", "parent", "snap", "back"}

Setting(r) == r.at \in {"parents", "set", "refresh", "writeBack"}
Serving == {"members", "values", "refreshList"}
Dropping == {"drop", "kids", "dropList"}
Linking(r) == r.at \in {"appendItem", "link"} \/ (Setting(r) /\ r.back = "link")
Filling(r) == r.at = "fill" \/ (Setting(r) /\ r.back = "fill")

\* Which calls come to which place, and where they go back to from the places that
\* several of them share.
Route(r) ==
    /\ r.op = "none" <=> r.at = "idle"
    /\ r.at \in {"get", "row"} => r.op \in Writes \cup {"get"}
    /\ r.at \in Serving \cup Dropping => r.op \in {"insert", "list"}
    /\ r.at \in {"rows", "none", "fill"} => r.op = "list"
    /\ r.at \in {"append", "clear", "appendItem", "link"} => r.op = "insert"
    /\ r.at = "update" => r.op = "update"
    /\ r.at \in {"unrow", "unlink", "unlinkFrom", "cut", "relink", "delKey"} => r.op = "delete"
    /\ Setting(r) => \/ r.back = "got"
                     \/ r.back = "fill" /\ r.op = "list"
                     \/ r.back = "get" /\ r.op = "update"
                     \/ r.back = "link" /\ r.op = "insert" /\ r.at # "parents"
                     \/ r.back = "append" /\ r.op = "insert" /\ r.at = "writeBack"
    /\ r.at \in Dropping => \/ r.back = "append" /\ r.op = "insert"
                            \/ r.back \in {"rows", "fill"} /\ r.op = "list"

\* What a call has at hand at a place.
Holdings(r) ==
    /\ r.op \in Writes \cup {"get"} \/ r.at \in {"parents", "set", "refresh"} => r.item \in Items
    /\ r.op = "list" \/ r.at \in Serving \cup {"clear"} \/ Linking(r) => r.target \in Lists
    /\ r.at \in {"kids", "dropList", "cut", "relink"} => r.parent \in Lists
    /\ r.at \in {"parents", "set", "update"} => r.value \in Versions
    /\ r.at = "values" => NONE \notin r.seen
    /\ r.at \in {"members", "rows", "drop", "dropList"} => r.seen = {}
    /\ r.at # "writeBack" => DOMAIN r.snap = {}
    /\ r.op # "list" => DOMAIN r.rows = {}

Shape(r) ==
    /\ DOMAIN r = Fields
    /\ r.op \in Writes \cup {"none", "get", "list"}
    /\ r.at \in Places
    /\ r.back \in {"idle", "got", "get", "fill", "link", "append", "rows"}
    /\ r.item \in Items \cup {None}
    /\ r.target \in Lists \cup {None}
    /\ r.parent \in Lists \cup {None}
    /\ r.value \in Versions \cup {0}
    /\ r.seen \subseteq Items \cup {NONE}
    /\ r.parents \subseteq Lists
    /\ r.appends \subseteq Lists
    /\ r.drops \subseteq Lists
    /\ DOMAIN r.snap \subseteq Items /\ \A i \in DOMAIN r.snap : r.snap[i] \in Cells
    /\ DOMAIN r.rows \subseteq Items /\ \A i \in DOMAIN r.rows : r.rows[i] \in Versions
    /\ Route(r)
    /\ Holdings(r)

Tables ==
    /\ row \in [Items -> 0..Gone]
    /\ cell \in [Items -> Cells \cup {None}]
    /\ list \in [Lists -> SUBSET (Items \cup {NONE})]
    /\ raced \subseteq Items
    /\ losses \in 0..MaxLosses

TypeInv ==
    /\ Tables
    /\ DOMAIN call = Calls
    /\ \A c \in Calls : Shape(call[c])

-----------------------------------------------------------------------------
WritesIt(r, i) == r.op \in Writes /\ r.item = i
Inserts(r, i) == r.op = "insert" /\ r.item = i

\* The key of a row may differ from it: after the update of the row and until the key is
\* set, and after its deletion.
Stale(r, i) ==
    /\ WritesIt(r, i)
    /\ \/ r.at \in {"update", "unlink", "unlinkFrom", "cut", "relink", "delKey"}
       \/ r.at \in {"parents", "set"} /\ r.back = "get"

\* What a call has read of a row, or is about to write, is the version v; a row whose key is
\* being deleted is gone.
Follows(r, i, v) ==
    /\ i \in DOMAIN r.snap => r.snap[i].value = v
    /\ i \in DOMAIN r.rows => r.rows[i] = v
    /\ r.at \in {"parents", "set", "update"} /\ r.item = i => r.value = v
    /\ r.at \in {"unlink", "unlinkFrom", "cut", "relink", "delKey"} /\ r.item = i => v = Gone

Keeps(keys, i) == keys # {} => i \in keys /\ NONE \notin keys

\* A call that is about to write a list has the row in what it writes.
Sees(r, i) ==
    /\ r.at \notin {"none", "clear"}
    /\ r.at = "values" => i \in r.seen
    /\ Filling(r) => i \in r.seen \cup DOMAIN r.rows /\ NONE \notin r.seen
    /\ r.at \in Dropping /\ r.back = "fill" => i \in DOMAIN r.rows
    /\ Linking(r) \/ r.at \in {"cut", "relink"} => i \in r.seen /\ NONE \notin r.seen

\* The insertion of a row, once its key is set: it is in every list that is cached and that
\* the call has been through.
Keyed(r) ==
    \/ r.at \in {"refresh", "writeBack", "got", "append", "clear"}
    \/ Linking(r)
Links(r, i) ==
    /\ row[i] \in Versions
    /\ r.at \notin Serving \cup Dropping
    /\ Setting(r) => r.back # "append"
    /\ Keyed(r) => cell[i] # None
    /\ r.at = "append" => \A l \in Lists \ r.appends : Keeps(list[l], i)
    /\ r.at = "clear" \/ Linking(r) =>
         \A l \in Lists \ (r.appends \cup {r.target}) : Keeps(list[l], i)
    /\ Linking(r) => NONE \notin r.seen \cup list[r.target]

View(c, i) ==
    /\ Follows(call[c], i, row[i])
    /\ cell[i] # None /\ ~Stale(call[c], i) => cell[i].value = row[i]
    /\ row[i] \in Versions /\ ~Inserts(call[c], i) =>
         (\A l \in Lists : Keeps(list[l], i)) /\ Sees(call[c], i)
    /\ Inserts(call[c], i) => Links(call[c], i)

RowInv(i) ==
    /\ \A c \in Calls : WritesIt(call[c], i) => \A d \in Calls \ {c} : call[d] = Idle
    /\ \A c \in Calls : Follows(call[c], i, row[i])
    /\ cell[i] # None /\ (\A c \in Calls : ~Stale(call[c], i)) => cell[i].value = row[i]
    /\ row[i] \in Versions /\ (\A c \in Calls : ~Inserts(call[c], i)) =>
         (\A l \in Lists : Keeps(list[l], i)) /\ \A c \in Calls : Sees(call[c], i)
    /\ \A c \in Calls : Inserts(call[c], i) => Links(call[c], i)

IInv == TypeInv /\ \A i \in Items \ raced : RowInv(i)

\* A step of a call that runs.
SoundStep(c) ==
    /\ TypeInv'
    /\ raced' = raced
    /\ call[c] # Idle
    /\ \A d \in Calls \ {c} : call'[d] = call[d]
    /\ call'[c] = Idle
       \/ (call'[c].op = call[c].op /\ (call[c].op \in Writes => call'[c].item = call[c].item))
    /\ \A i \in Items : row'[i] = row[i] \/ WritesIt(call[c], i)
    /\ \A i \in Items : View(c, i) => View(c, i)'

-----------------------------------------------------------------------------
(* What Now() and End() do to the calls.                                   *)

LEMMA NowIs ==
    ASSUME NEW c \in Calls, TypeInv, NEW new, DOMAIN new \subseteq Fields, Now(c, new)
    PROVE  /\ DOMAIN call' = Calls
           /\ DOMAIN call'[c] = Fields
           /\ \A f \in DOMAIN new : call'[c][f] = new[f]
           /\ \A f \in Fields \ DOMAIN new : call'[c][f] = call[c][f]
           /\ \A d \in Calls \ {c} : call'[d] = call[d]
BY DEF Now, Over, TypeInv, Shape

LEMMA IdleShape == Shape(Idle)
BY DEF Shape, Idle, Fields, Places, Route, Holdings, Setting, Serving, Dropping, Linking, Writes,
       Versions

LEMMA EndIs ==
    ASSUME NEW c \in Calls, TypeInv, End(c)
    PROVE  /\ DOMAIN call' = Calls
           /\ call'[c] = Idle
           /\ \A d \in Calls \ {c} : call'[d] = call[d]
           /\ \A d \in Calls : Shape(call'[d])
BY IdleShape DEF End, TypeInv

LEMMA StepTypes ==
    ASSUME NEW c \in Calls, TypeInv, Tables', DOMAIN call' = Calls, Shape(call'[c]),
           \A d \in Calls \ {c} : call'[d] = call[d]
    PROVE  TypeInv'
BY DEF TypeInv

-----------------------------------------------------------------------------
(* set().                                                                  *)

LEMMA ReadParentsSound ==
    ASSUME TypeInv, NEW c \in Calls, ReadParents(c)
    PROVE  SoundStep(c)
<1>. DEFINE r == call[c]
            s == call'[c]
<1>1. Shape(r) /\ r.at = "parents" /\ r # Idle /\ UNCHANGED <<row, cell, list, raced, losses>>
  BY DEF TypeInv, ReadParents, At, Idle
<1>2. /\ DOMAIN call' = Calls /\ DOMAIN s = Fields /\ \A d \in Calls \ {c} : call'[d] = call[d]
      /\ s.at = "set" /\ s.parents = ParentsOf(c)
      /\ \A f \in Fields \ {"at", "parents"} : s[f] = r[f]
  BY DEF ReadParents, Now, Over, Fields, TypeInv, Shape
<1>3. ParentsOf(c) \subseteq Lists
  BY <1>1 DEF ParentsOf, Parents, TypeInv, Tables, Cells, Shape, Route, Holdings, Setting, Writes
<1>4. Shape(s)
  BY <1>1, <1>2, <1>3
  DEF Shape, Fields, Route, Holdings, Setting, Linking, Serving, Dropping, Writes, Places, Versions
<1>5. TypeInv'
  BY <1>1, <1>2, <1>4, StepTypes DEF TypeInv, Tables
<1>6. ASSUME NEW i \in Items, View(c, i) PROVE View(c, i)'
  BY <1>1, <1>2, <1>6
  DEF View, Follows, Stale, WritesIt, Inserts, Sees, Links, Keyed, Keeps, Linking, Filling, Setting,
      Serving, Dropping, Fields
<1>. QED BY <1>1, <1>2, <1>5, <1>6 DEF SoundStep, Fields

LEMMA SetSound ==
    ASSUME TypeInv, NEW c \in Calls, Set(c)
    PROVE  SoundStep(c)
<1>. DEFINE r == call[c]
            s == call'[c]
            new == [value |-> r.value, parents |-> r.parents]
<1>1. Shape(r) /\ r.at = "set" /\ r # Idle /\ UNCHANGED <<row, list, raced, losses>>
  BY DEF TypeInv, Set, At, Idle
<1>2. /\ DOMAIN call' = Calls /\ DOMAIN s = Fields /\ \A d \in Calls \ {c} : call'[d] = call[d]
      /\ s.at = "refresh" /\ s.value = 0 /\ s.parents = {}
      /\ \A f \in Fields \ {"at", "parents", "value"} : s[f] = r[f]
  BY DEF Set, Now, Over, Fields, TypeInv, Shape
<1>3. new \in Cells /\ new.value = r.value /\ r.item \in Items
      /\ cell' = [cell EXCEPT ![r.item] = new]
  BY <1>1 DEF Set, Cells, Shape, Holdings
<1>. HIDE DEF new
<1>4. Shape(s)
  BY <1>1, <1>2
  DEF Shape, Fields, Route, Holdings, Setting, Linking, Serving, Dropping, Writes, Places, Versions
<1>5. TypeInv'
  BY <1>1, <1>2, <1>3, <1>4, StepTypes DEF TypeInv, Tables
<1>6. ASSUME NEW i \in Items, View(c, i) PROVE View(c, i)'
  <2>1. cell'[i] = IF i = r.item THEN new ELSE cell[i]
    BY <1>3 DEF TypeInv, Tables
  <2>2. cell'[i] # None /\ ~Stale(s, i) => cell'[i].value = row[i]
    BY <1>1, <1>2, <1>3, <1>6, <2>1 DEF View, Follows, Stale, WritesIt, Fields
  <2>3. r.item = i => cell'[i] # None
    BY <1>3, <2>1, NoneAssumption
  <2>. QED
    BY <1>1, <1>2, <1>6, <2>1, <2>2, <2>3
    DEF View, Follows, Stale, WritesIt, Inserts, Sees, Links, Keyed, Keeps, Linking, Filling,
        Setting, Serving, Dropping, Fields
<1>. QED BY <1>1, <1>2, <1>5, <1>6 DEF SoundStep, Fields

LEMMA RefreshSound ==
    ASSUME TypeInv, NEW c \in Calls, Refresh(c)
    PROVE  SoundStep(c)
<1>. DEFINE r == call[c]
            s == call'[c]
            keys == Refreshed(cell[r.item], r.item) \cap Cached
<1>1. Shape(r) /\ r.at = "refresh" /\ r # Idle /\ UNCHANGED <<row, cell, list, raced, losses>>
  BY DEF TypeInv, Refresh, At, Idle
<1>2. /\ DOMAIN call' = Calls /\ DOMAIN s = Fields /\ \A d \in Calls \ {c} : call'[d] = call[d]
      /\ s.at = "writeBack" /\ s.snap = [k \in keys |-> cell[k]]
      /\ \A f \in Fields \ {"at", "snap"} : s[f] = r[f]
  BY DEF Refresh, Now, Over, Fields, TypeInv, Shape
<1>3. keys \subseteq Items /\ DOMAIN s.snap = keys
      /\ \A k \in keys : s.snap[k] = cell[k] /\ cell[k] # None /\ cell[k] \in Cells
  BY <1>2 DEF Cached, TypeInv, Tables
<1>. HIDE DEF keys
<1>4. Shape(s)
  BY <1>1, <1>2, <1>3
  DEF Shape, Fields, Route, Holdings, Setting, Linking, Serving, Dropping, Writes, Places, Versions
<1>5. TypeInv'
  BY <1>1, <1>2, <1>4, StepTypes DEF TypeInv, Tables
<1>6. ASSUME NEW i \in Items, View(c, i) PROVE View(c, i)'
  BY <1>1, <1>2, <1>3, <1>6
  DEF View, Follows, Stale, WritesIt, Inserts, Sees, Links, Keyed, Keeps, Linking, Filling, Setting,
      Serving, Dropping, Fields
<1>. QED BY <1>1, <1>2, <1>5, <1>6 DEF SoundStep, Fields

LEMMA WriteBackSound ==
    ASSUME TypeInv, NEW c \in Calls, WriteBack(c)
    PROVE  SoundStep(c)
<1>. DEFINE r == call[c]
            s == call'[c]
<1>1. Shape(r) /\ r.at = "writeBack" /\ r # Idle /\ UNCHANGED <<row, list, raced, losses>>
  BY DEF TypeInv, WriteBack, At, Idle
<1>2. /\ DOMAIN call' = Calls /\ DOMAIN s = Fields /\ \A d \in Calls \ {c} : call'[d] = call[d]
      /\ s.at = r.back /\ s.snap = <<>> /\ s.back = "idle"
      /\ \A f \in Fields \ {"at", "snap", "back"} : s[f] = r[f]
  BY DEF WriteBack, Now, Over, Fields, TypeInv, Shape
<1>3. /\ cell' \in [Items -> Cells \cup {None}]
      /\ \A i \in Items : cell'[i] = IF i \in DOMAIN r.snap THEN r.snap[i] ELSE cell[i]
      /\ \A i \in DOMAIN r.snap : r.snap[i] # None
  BY <1>1, NoneAssumption DEF WriteBack, Over, TypeInv, Tables, Shape
<1>4. Shape(s)
  BY <1>1, <1>2
  DEF Shape, Fields, Route, Holdings, Setting, Linking, Serving, Dropping, Writes, Places, Versions
<1>5. TypeInv'
  BY <1>1, <1>2, <1>3, <1>4, StepTypes DEF TypeInv, Tables
<1>6. ASSUME NEW i \in Items, View(c, i) PROVE View(c, i)'
  <2>1. cell'[i] # None /\ ~Stale(s, i) => cell'[i].value = row[i]
    BY <1>1, <1>2, <1>3, <1>6 DEF View, Follows, Stale, WritesIt, Fields, Shape, Route, Setting
  <2>. QED
    BY <1>1, <1>2, <1>3, <1>6, <2>1
    DEF View, Follows, Stale, WritesIt, Inserts, Sees, Links, Keyed, Keeps, Linking, Filling,
        Setting, Serving, Dropping, Fields, Shape, Route
<1>. QED BY <1>1, <1>2, <1>5, <1>6 DEF SoundStep, Fields
-----------------------------------------------------------------------------
(* get() of the model.                                                     *)

LEMMA GetItemSound ==
    ASSUME TypeInv, NEW c \in Calls, GetItem(c)
    PROVE  SoundStep(c)
<1>. DEFINE r == call[c]
            s == call'[c]
<1>1. Shape(r) /\ r.at = "get" /\ r # Idle /\ UNCHANGED <<row, cell, list, raced, losses>>
  BY DEF TypeInv, GetItem, At, Idle
<1>2. /\ DOMAIN call' = Calls /\ DOMAIN s = Fields /\ \A d \in Calls \ {c} : call'[d] = call[d]
      /\ \/ /\ cell[r.item] = None
            /\ s.at = "row"
            /\ \A f \in Fields \ {"at"} : s[f] = r[f]
         \/ /\ cell[r.item] # None
            /\ s.at \in {"got", "refresh"}
            /\ s.back = "got"
            /\ \A f \in Fields \ {"at", "back"} : s[f] = r[f]
  BY <1>1 DEF GetItem, Now, End, Idle, Over, Fields, TypeInv, Shape
<1>3. Shape(s)
  BY <1>1, <1>2, IdleShape
  DEF Shape, Fields, Route, Holdings, Setting, Linking, Serving, Dropping, Writes, Places, Versions
<1>4. TypeInv'
  BY <1>1, <1>2, <1>3, StepTypes DEF TypeInv, Tables
<1>5. ASSUME NEW i \in Items, View(c, i) PROVE View(c, i)'
  BY <1>1, <1>2, <1>5
  DEF View, Follows, Stale, WritesIt, Inserts, Sees, Links, Keyed, Keeps, Linking, Filling, Setting,
      Serving, Dropping, Fields, Shape, Route
<1>. QED BY <1>1, <1>2, <1>4, <1>5 DEF SoundStep, Fields

LEMMA GetRowSound ==
    ASSUME TypeInv, NEW c \in Calls, GetRow(c)
    PROVE  SoundStep(c)
<1>. DEFINE r == call[c]
            s == call'[c]
<1>1. Shape(r) /\ r.at = "row" /\ r # Idle /\ UNCHANGED <<row, cell, list, raced, losses>>
  BY DEF TypeInv, GetRow, At, Idle
<1>2. /\ DOMAIN call' = Calls /\ DOMAIN s = Fields /\ \A d \in Calls \ {c} : call'[d] = call[d]
      /\ \/ /\ r.item \in Rows
            /\ row[r.item] \in Versions
            /\ s.at = "parents"
            /\ s.value = row[r.item]
            /\ s.back = "got"
            /\ \A f \in Fields \ {"at", "value", "back"} : s[f] = r[f]
         \/ /\ r.item \notin Rows
            /\ s.at = "got"
            /\ \A f \in Fields \ {"at"} : s[f] = r[f]
  <2>1. \/ r.item \in Rows /\ row[r.item] \in Versions
             /\ Now(c, [at |-> "parents", value |-> row[r.item], back |-> "got"])
        \/ r.item \notin Rows /\ Now(c, [at |-> "got"])
    BY <1>1 DEF GetRow, Rows
  <2>2. CASE r.item \in Rows /\ row[r.item] \in Versions
        /\ Now(c, [at |-> "parents", value |-> row[r.item], back |-> "got"])
    BY <1>1, <2>2 DEF Now, Over, Fields, TypeInv, Shape
  <2>3. CASE r.item \notin Rows /\ Now(c, [at |-> "got"])
    BY <1>1, <2>3 DEF Now, Over, Fields, TypeInv, Shape
  <2>. QED BY <2>1, <2>2, <2>3
<1>3. Shape(s)
  BY <1>1, <1>2, IdleShape
  DEF Shape, Fields, Route, Holdings, Setting, Linking, Serving, Dropping, Writes, Places, Versions
<1>4. TypeInv'
  BY <1>1, <1>2, <1>3, StepTypes DEF TypeInv, Tables
<1>5. ASSUME NEW i \in Items, View(c, i) PROVE View(c, i)'
  BY <1>1, <1>2, <1>5
  DEF View, Follows, Stale, WritesIt, Inserts, Sees, Links, Keyed, Keeps, Linking, Filling, Setting,
      Serving, Dropping, Fields, Shape, Route, Holdings, Rows, Writes
<1>. QED BY <1>1, <1>2, <1>4, <1>5 DEF SoundStep, Fields

LEMMA GotSound ==
    ASSUME TypeInv, NEW c \in Calls, Got(c)
    PROVE  SoundStep(c)
<1>. DEFINE r == call[c]
            s == call'[c]
<1>1. Shape(r) /\ r.at = "got" /\ r # Idle /\ UNCHANGED <<row, cell, list, raced, losses>>
  BY DEF TypeInv, Got, At, Idle
<1>2. /\ DOMAIN call' = Calls /\ DOMAIN s = Fields /\ \A d \in Calls \ {c} : call'[d] = call[d]
      /\ \/ /\ r.op = "insert"
            /\ s.at = "append"
            /\ s.appends = Lists
            /\ s.back = "idle"
            /\ \A f \in Fields \ {"at", "appends", "back"} : s[f] = r[f]
         \/ /\ r.op = "delete"
            /\ s.at = "unrow"
            /\ s.back = "idle"
            /\ \A f \in Fields \ {"at", "back"} : s[f] = r[f]
         \/ /\ r.op \notin {"insert", "delete"}
            /\ s = Idle
  <2>1. \/ r.op = "insert" /\ Now(c, [at |-> "append", appends |-> Lists, back |-> "idle"])
        \/ r.op = "delete" /\ Now(c, [at |-> "unrow", back |-> "idle"])
        \/ r.op \notin {"insert", "delete"} /\ End(c)
    BY <1>1 DEF Got
  <2>2. CASE r.op = "insert" /\ Now(c, [at |-> "append", appends |-> Lists, back |-> "idle"])
    BY <1>1, <2>2 DEF Now, Over, Fields, TypeInv, Shape
  <2>3. CASE r.op = "delete" /\ Now(c, [at |-> "unrow", back |-> "idle"])
    BY <1>1, <2>3 DEF Now, Over, Fields, TypeInv, Shape
  <2>4. CASE r.op \notin {"insert", "delete"} /\ End(c)
    BY <1>1, <2>4 DEF End, Idle, Fields, TypeInv
  <2>. QED BY <2>1, <2>2, <2>3, <2>4
<1>3. Shape(s)
  BY <1>1, <1>2, IdleShape
  DEF Shape, Fields, Route, Holdings, Setting, Linking, Serving, Dropping, Writes, Places, Versions
<1>4. TypeInv'
  BY <1>1, <1>2, <1>3, StepTypes DEF TypeInv, Tables
<1>5. ASSUME NEW i \in Items, View(c, i) PROVE View(c, i)'
  BY <1>1, <1>2, <1>5
  DEF View, Follows, Stale, WritesIt, Inserts, Sees, Links, Keyed, Keeps, Linking, Filling, Setting,
      Serving, Dropping, Fields, Idle
<1>. QED BY <1>1, <1>2, <1>4, <1>5 DEF SoundStep, Fields

-----------------------------------------------------------------------------
(* list() of the model.                                                    *)

LEMMA MembersSound ==
    ASSUME TypeInv, NEW c \in Calls, Members(c)
    PROVE  SoundStep(c)
<1>. DEFINE r == call[c]
            s == call'[c]
<1>1. Shape(r) /\ r.at = "members" /\ r # Idle /\ UNCHANGED <<row, cell, list, raced, losses>>
  BY DEF TypeInv, Members, At, Idle
<1>2. /\ DOMAIN call' = Calls /\ DOMAIN s = Fields /\ \A d \in Calls \ {c} : call'[d] = call[d]
      /\ \/ /\ r.op = "list"
            /\ s = Idle
         \/ /\ r.op # "list"
            /\ s.at = "append"
            /\ s.seen = {}
            /\ \A f \in Fields \ {"at", "seen"} : s[f] = r[f]
         \/ /\ list[r.target] = {}
            /\ s.at = NotServed(c)
            /\ \A f \in Fields \ {"at"} : s[f] = r[f]
         \/ /\ NONE \notin list[r.target]
            /\ list[r.target] # {}
            /\ s.at = "values"
            /\ s.seen = list[r.target]
            /\ \A f \in Fields \ {"at", "seen"} : s[f] = r[f]
  <2>1. \/ r.op = "list" /\ End(c)
        \/ r.op # "list" /\ Now(c, [at |-> "append", seen |-> {}])
        \/ list[r.target] = {} /\ Now(c, [at |-> NotServed(c)])
        \/ NONE \notin list[r.target] /\ list[r.target] # {}
             /\ Now(c, [at |-> "values", seen |-> list[r.target]])
    BY <1>1 DEF Members, Served
  <2>2. CASE r.op = "list" /\ End(c)
    BY <1>1, <2>2 DEF End, Idle, Fields, TypeInv
  <2>3. CASE r.op # "list" /\ Now(c, [at |-> "append", seen |-> {}])
    BY <1>1, <2>3 DEF Now, Over, Fields, TypeInv, Shape
  <2>4. CASE list[r.target] = {} /\ Now(c, [at |-> NotServed(c)])
    BY <1>1, <2>4 DEF Now, Over, Fields, TypeInv, Shape
  <2>5. CASE NONE \notin list[r.target] /\ list[r.target] # {}
        /\ Now(c, [at |-> "values", seen |-> list[r.target]])
    BY <1>1, <2>5 DEF Now, Over, Fields, TypeInv, Shape
  <2>. QED BY <2>1, <2>2, <2>3, <2>4, <2>5
<1>3. list[r.target] \subseteq Items \cup {NONE} /\ r.target \in Lists
  BY <1>1 DEF Shape, Holdings, Serving, TypeInv, Tables
<1>4. Shape(s)
  BY <1>1, <1>2, <1>3, IdleShape
  DEF Shape, Fields, Route, Holdings, Setting, Linking, Serving, Dropping, Writes, Places,
      Versions, NotServed
<1>5. TypeInv'
  BY <1>1, <1>2, <1>4, StepTypes DEF TypeInv, Tables
<1>6. ASSUME NEW i \in Items, View(c, i) PROVE View(c, i)'
  BY <1>1, <1>2, <1>3, <1>6
  DEF View, Follows, Stale, WritesIt, Inserts, Sees, Links, Keyed, Keeps, Linking, Filling, Setting,
      Serving, Dropping, Fields, Idle, NotServed, Shape, Route
<1>. QED BY <1>1, <1>2, <1>5, <1>6 DEF SoundStep, Fields

LEMMA ValuesSound ==
    ASSUME TypeInv, NEW c \in Calls, Values(c)
    PROVE  SoundStep(c)
<1>. DEFINE r == call[c]
            s == call'[c]
<1>1. Shape(r) /\ r.at = "values" /\ r # Idle /\ UNCHANGED <<row, cell, list, raced, losses>>
  BY DEF TypeInv, Values, At, Idle
<1>2. /\ DOMAIN call' = Calls /\ DOMAIN s = Fields /\ \A d \in Calls \ {c} : call'[d] = call[d]
      /\ \/ /\ r.op = "list"
            /\ s = Idle
         \/ /\ r.op # "list"
            /\ s.at = "append"
            /\ s.seen = {}
            /\ \A f \in Fields \ {"at", "seen"} : s[f] = r[f]
         \/ /\ s.at = "refreshList"
            /\ s.seen = {}
            /\ \A f \in Fields \ {"at", "seen"} : s[f] = r[f]
         \/ /\ s.at = "drop"
            /\ s.back = NotServed(c)
            /\ s.seen = {}
            /\ s.drops = UNION {Parents(cell[i]) : i \in r.seen}
            /\ \A f \in Fields \ {"at", "back", "seen", "drops"} : s[f] = r[f]
  <2>1. \/ r.op = "list" /\ End(c)
        \/ r.op # "list" /\ Now(c, [at |-> "append", seen |-> {}])
        \/ Now(c, [at |-> "refreshList", seen |-> {}])
        \/ Now(c, [at |-> "drop", back |-> NotServed(c), seen |-> {},
                   drops |-> UNION {Parents(cell[i]) : i \in r.seen}])
    BY <1>1 DEF Values, Served
  <2>2. CASE r.op = "list" /\ End(c)
    BY <1>1, <2>2 DEF End, Idle, Fields, TypeInv
  <2>3. CASE r.op # "list" /\ Now(c, [at |-> "append", seen |-> {}])
    BY <1>1, <2>3 DEF Now, Over, Fields, TypeInv, Shape
  <2>4. CASE Now(c, [at |-> "refreshList", seen |-> {}])
    BY <1>1, <2>4 DEF Now, Over, Fields, TypeInv, Shape
  <2>5. CASE Now(c, [at |-> "drop", back |-> NotServed(c), seen |-> {},
                     drops |-> UNION {Parents(cell[i]) : i \in r.seen}])
    BY <1>1, <2>5 DEF Now, Over, Fields, TypeInv, Shape
  <2>. QED BY <2>1, <2>2, <2>3, <2>4, <2>5
<1>3. UNION {Parents(cell[i]) : i \in r.seen} \subseteq Lists
  BY <1>1 DEF Shape, Holdings, TypeInv, Tables, Parents, Cells
<1>4. Shape(s)
  BY <1>1, <1>2, <1>3, IdleShape
  DEF Shape, Fields, Route, Holdings, Setting, Linking, Serving, Dropping, Writes, Places,
      Versions, NotServed
<1>5. TypeInv'
  BY <1>1, <1>2, <1>4, StepTypes DEF TypeInv, Tables
<1>6. ASSUME NEW i \in Items, View(c, i) PROVE View(c, i)'
  BY <1>1, <1>2, <1>3, <1>6
  DEF View, Follows, Stale, WritesIt, Inserts, Sees, Links, Keyed, Keeps, Linking, Filling, Setting,
      Serving, Dropping, Fields, Idle, NotServed, Shape, Route
<1>. QED BY <1>1, <1>2, <1>5, <1>6 DEF SoundStep, Fields

LEMMA RefreshListSound ==
    ASSUME TypeInv, NEW c \in Calls, RefreshList(c)
    PROVE  SoundStep(c)
<1>. DEFINE r == call[c]
            s == call'[c]
            keys == list[r.target] \cap Cached
<1>1. Shape(r) /\ r.at = "refreshList" /\ r # Idle /\ UNCHANGED <<row, cell, list, raced, losses>>
  BY DEF TypeInv, RefreshList, At, Idle
<1>2. /\ DOMAIN call' = Calls /\ DOMAIN s = Fields /\ \A d \in Calls \ {c} : call'[d] = call[d]
      /\ s.at = "writeBack"
      /\ s.back = IF r.op = "list" THEN "got" ELSE "append"
      /\ s.snap = [k \in keys |-> cell[k]]
      /\ \A f \in Fields \ {"at", "back", "snap"} : s[f] = r[f]
  BY <1>1 DEF RefreshList, Now, End, Idle, Over, Fields, TypeInv, Shape
<1>3. keys \subseteq Items /\ DOMAIN s.snap = keys
      /\ \A k \in keys : s.snap[k] = cell[k] /\ cell[k] # None /\ cell[k] \in Cells
  BY <1>2 DEF Cached, TypeInv, Tables
<1>. HIDE DEF keys
<1>4. Shape(s)
  BY <1>1, <1>2, <1>3, IdleShape
  DEF Shape, Fields, Route, Holdings, Setting, Linking, Serving, Dropping, Writes, Places, Versions
<1>5. TypeInv'
  BY <1>1, <1>2, <1>4, StepTypes DEF TypeInv, Tables
<1>6. ASSUME NEW i \in Items, View(c, i) PROVE View(c, i)'
  BY <1>1, <1>2, <1>3, <1>6
  DEF View, Follows, Stale, WritesIt, Inserts, Sees, Links, Keyed, Keeps, Linking, Filling, Setting,
      Serving, Dropping, Fields, Shape, Route
<1>. QED BY <1>1, <1>2, <1>5, <1>6 DEF SoundStep, Fields

LEMMA DropSound ==
    ASSUME TypeInv, NEW c \in Calls, Drop(c)
    PROVE  SoundStep(c)
<1>. DEFINE r == call[c]
            s == call'[c]
<1>1. Shape(r) /\ r.at = "drop" /\ r # Idle /\ UNCHANGED <<row, cell, list, raced, losses>>
  BY DEF TypeInv, Drop, At, Idle
<1>2. /\ DOMAIN call' = Calls /\ DOMAIN s = Fields /\ \A d \in Calls \ {c} : call'[d] = call[d]
      /\ \/ /\ s.at = r.back
            /\ s.back = "idle"
            /\ \A f \in Fields \ {"at", "back"} : s[f] = r[f]
         \/ /\ s.at = "kids"
            /\ s.drops \subseteq Lists
            /\ s.parent \in Lists
            /\ s.seen \subseteq Items \cup {NONE}
            /\ \A f \in Fields \ {"at", "drops", "parent", "seen"} : s[f] = r[f]
  <2>1. CASE Now(c, [at |-> r.back, back |-> "idle"])
    BY <1>1, <2>1 DEF Now, Over, Fields, TypeInv, Shape
  <2>2. ASSUME NEW p \in r.drops,
               Now(c, [at |-> "kids", drops |-> r.drops \ {p}, parent |-> p, seen |-> list[p]])
        PROVE  /\ DOMAIN call' = Calls /\ DOMAIN s = Fields
               /\ \A d \in Calls \ {c} : call'[d] = call[d]
               /\ s.at = "kids" /\ s.drops \subseteq Lists /\ s.parent \in Lists
               /\ s.seen \subseteq Items \cup {NONE}
               /\ \A f \in Fields \ {"at", "drops", "parent", "seen"} : s[f] = r[f]
    <3>1. p \in Lists /\ r.drops \ {p} \subseteq Lists /\ list[p] \subseteq Items \cup {NONE}
      BY <1>1 DEF Shape, TypeInv, Tables
    <3>. QED BY <1>1, <2>2, <3>1 DEF Now, Over, Fields, TypeInv, Shape
  <2>. QED BY <1>1, <2>1, <2>2 DEF Drop
<1>3. Shape(s)
  BY <1>1, <1>2
  DEF Shape, Fields, Route, Holdings, Setting, Linking, Serving, Dropping, Writes, Places, Versions
<1>4. TypeInv'
  BY <1>1, <1>2, <1>3, StepTypes DEF TypeInv, Tables
<1>5. ASSUME NEW i \in Items, View(c, i) PROVE View(c, i)'
  BY <1>1, <1>2, <1>5
  DEF View, Follows, Stale, WritesIt, Inserts, Sees, Links, Keyed, Keeps, Linking, Filling, Setting,
      Serving, Dropping, Fields, Shape, Route, Holdings
<1>. QED BY <1>1, <1>2, <1>4, <1>5 DEF SoundStep, Fields
LEMMA DropKidsSound ==
    ASSUME TypeInv, NEW c \in Calls, DropKids(c)
    PROVE  SoundStep(c)
<1>. DEFINE r == call[c]
            s == call'[c]
<1>1. Shape(r) /\ r.at = "kids" /\ r # Idle /\ UNCHANGED <<row, list, raced, losses>>
  BY DEF TypeInv, DropKids, At, Idle
<1>2. /\ DOMAIN call' = Calls /\ DOMAIN s = Fields /\ \A d \in Calls \ {c} : call'[d] = call[d]
      /\ s.at = "dropList" /\ s.seen = {}
      /\ \A f \in Fields \ {"at", "seen"} : s[f] = r[f]
  BY <1>1 DEF DropKids, Now, End, Idle, Over, Fields, TypeInv, Shape
<1>3. /\ cell' \in [Items -> Cells \cup {None}]
      /\ \A i \in Items : cell'[i] = cell[i] \/ cell'[i] = None
  BY DEF DropKids, TypeInv, Tables
<1>4. Shape(s)
  BY <1>1, <1>2, <1>3, IdleShape
  DEF Shape, Fields, Route, Holdings, Setting, Linking, Serving, Dropping, Writes, Places, Versions
<1>5. TypeInv'
  BY <1>1, <1>2, <1>3, <1>4, StepTypes DEF TypeInv, Tables
<1>6. ASSUME NEW i \in Items, View(c, i) PROVE View(c, i)'
  BY <1>1, <1>2, <1>3, <1>6
  DEF View, Follows, Stale, WritesIt, Inserts, Sees, Links, Keyed, Keeps, Linking, Filling, Setting,
      Serving, Dropping, Fields, Shape, Route
<1>. QED BY <1>1, <1>2, <1>5, <1>6 DEF SoundStep, Fields

LEMMA DropListSound ==
    ASSUME TypeInv, NEW c \in Calls, DropList(c)
    PROVE  SoundStep(c)
<1>. DEFINE r == call[c]
            s == call'[c]
<1>1. Shape(r) /\ r.at = "dropList" /\ r # Idle /\ UNCHANGED <<row, cell, raced, losses>>
  BY DEF TypeInv, DropList, At, Idle
<1>2. /\ DOMAIN call' = Calls /\ DOMAIN s = Fields /\ \A d \in Calls \ {c} : call'[d] = call[d]
      /\ s.at = "drop" /\ s.parent = None
      /\ \A f \in Fields \ {"at", "parent"} : s[f] = r[f]
  BY <1>1 DEF DropList, Now, End, Idle, Over, Fields, TypeInv, Shape
<1>3. /\ list' \in [Lists -> SUBSET (Items \cup {NONE})]
      /\ \A l \in Lists : list'[l] = list[l] \/ list'[l] = {}
  BY DEF DropList, TypeInv, Tables
<1>4. Shape(s)
  BY <1>1, <1>2, <1>3, IdleShape
  DEF Shape, Fields, Route, Holdings, Setting, Linking, Serving, Dropping, Writes, Places, Versions
<1>5. TypeInv'
  BY <1>1, <1>2, <1>3, <1>4, StepTypes DEF TypeInv, Tables
<1>6. ASSUME NEW i \in Items, View(c, i) PROVE View(c, i)'
  BY <1>1, <1>2, <1>3, <1>6
  DEF View, Follows, Stale, WritesIt, Inserts, Sees, Links, Keyed, Keeps, Linking, Filling, Setting,
      Serving, Dropping, Fields, Shape, Route
<1>. QED BY <1>1, <1>2, <1>5, <1>6 DEF SoundStep, Fields

LEMMA ListRowsSound ==
    ASSUME TypeInv, NEW c \in Calls, ListRows(c)
    PROVE  SoundStep(c)
<1>. DEFINE r == call[c]
            s == call'[c]
<1>1. Shape(r) /\ r.at = "rows" /\ r # Idle /\ UNCHANGED <<row, cell, list, raced, losses>>
  BY DEF TypeInv, ListRows, At, Idle
<1>2. /\ DOMAIN call' = Calls /\ DOMAIN s = Fields /\ \A d \in Calls \ {c} : call'[d] = call[d]
      /\ \/ /\ Rows = {}
            /\ s.at = "none"
            /\ \A f \in Fields \ {"at"} : s[f] = r[f]
         \/ /\ s.at = "drop"
            /\ s.drops = {r.target}
            /\ s.back = "fill"
            /\ s.rows = [i \in Rows |-> row[i]]
            /\ \A f \in Fields \ {"at", "drops", "back", "rows"} : s[f] = r[f]
  <2>1. \/ Rows = {} /\ Now(c, [at |-> "none"])
        \/ Now(c, [at |-> "drop", drops |-> {r.target}, back |-> "fill",
                   rows |-> [i \in Rows |-> row[i]]])
    BY <1>1 DEF ListRows
  <2>2. CASE Rows = {} /\ Now(c, [at |-> "none"])
    BY <1>1, <2>2 DEF Now, Over, Fields, TypeInv, Shape
  <2>3. CASE Now(c, [at |-> "drop", drops |-> {r.target}, back |-> "fill",
                     rows |-> [i \in Rows |-> row[i]]])
    BY <1>1, <2>3 DEF Now, Over, Fields, TypeInv, Shape
  <2>. QED BY <2>1, <2>2, <2>3
<1>3. /\ Rows \subseteq Items /\ \A k \in Items : k \in Rows <=> row[k] \in Versions
      /\ s.at = "drop" => DOMAIN s.rows = Rows /\ \A k \in Rows : s.rows[k] = row[k]
  BY <1>2 DEF Rows
<1>4. Shape(s)
  BY <1>1, <1>2, <1>3, IdleShape
  DEF Shape, Fields, Route, Holdings, Setting, Linking, Serving, Dropping, Writes, Places, Versions
<1>5. TypeInv'
  BY <1>1, <1>2, <1>4, StepTypes DEF TypeInv, Tables
<1>6. ASSUME NEW i \in Items, View(c, i) PROVE View(c, i)'
  BY <1>1, <1>2, <1>3, <1>6
  DEF View, Follows, Stale, WritesIt, Inserts, Sees, Links, Keyed, Keeps, Linking, Filling, Setting,
      Serving, Dropping, Fields, Shape, Route, Holdings
<1>. QED BY <1>1, <1>2, <1>5, <1>6 DEF SoundStep, Fields

LEMMA SetNoneSound ==
    ASSUME TypeInv, NEW c \in Calls, SetNone(c)
    PROVE  SoundStep(c)
<1>. DEFINE r == call[c]
            s == call'[c]
<1>1. Shape(r) /\ r.at = "none" /\ r # Idle /\ UNCHANGED <<row, cell, raced, losses>>
  BY DEF TypeInv, SetNone, At, Idle
<1>2. /\ DOMAIN call' = Calls /\ DOMAIN s = Fields /\ \A d \in Calls \ {c} : call'[d] = call[d]
      /\ s = Idle
  BY <1>1 DEF SetNone, Now, End, Idle, Over, Fields, TypeInv, Shape
<1>3. /\ list' \in [Lists -> SUBSET (Items \cup {NONE})]
      /\ r.op = "list"
  BY <1>1 DEF SetNone, TypeInv, Tables, Shape, Route, Holdings
<1>4. Shape(s)
  BY <1>1, <1>2, <1>3, IdleShape
  DEF Shape, Fields, Route, Holdings, Setting, Linking, Serving, Dropping, Writes, Places, Versions
<1>5. TypeInv'
  BY <1>1, <1>2, <1>3, <1>4, StepTypes DEF TypeInv, Tables
<1>6. ASSUME NEW i \in Items, View(c, i) PROVE View(c, i)'
  BY <1>1, <1>2, <1>3, <1>6
  DEF View, Follows, Stale, WritesIt, Inserts, Sees, Links, Keyed, Keeps, Linking, Filling, Setting,
      Serving, Dropping, Fields, Idle
<1>. QED BY <1>1, <1>2, <1>5, <1>6 DEF SoundStep, Fields

LEMMA FillListSound ==
    ASSUME TypeInv, NEW c \in Calls, FillList(c)
    PROVE  SoundStep(c)
<1>. DEFINE r == call[c]
            s == call'[c]
<1>1. Shape(r) /\ r.at = "fill" /\ r # Idle /\ UNCHANGED <<row, cell, raced, losses>>
  BY DEF TypeInv, FillList, At, Idle
<1>2. /\ DOMAIN call' = Calls /\ DOMAIN s = Fields /\ \A d \in Calls \ {c} : call'[d] = call[d]
      /\ s = Idle
  BY <1>1 DEF FillList, Now, End, Idle, Over, Fields, TypeInv, Shape
<1>3. /\ list' \in [Lists -> SUBSET (Items \cup {NONE})]
      /\ \A l \in Lists : list'[l] = list[l] \/ list'[l] = list[l] \cup r.seen
      /\ r.op = "list" /\ DOMAIN r.rows = {}
  BY <1>1 DEF FillList, TypeInv, Tables, Shape, Route, Holdings
<1>4. Shape(s)
  BY <1>1, <1>2, <1>3, IdleShape
  DEF Shape, Fields, Route, Holdings, Setting, Linking, Serving, Dropping, Writes, Places, Versions
<1>5. TypeInv'
  BY <1>1, <1>2, <1>3, <1>4, StepTypes DEF TypeInv, Tables
<1>6. ASSUME NEW i \in Items, View(c, i) PROVE View(c, i)'
  BY <1>1, <1>2, <1>3, <1>6
  DEF View, Follows, Stale, WritesIt, Inserts, Sees, Links, Keyed, Keeps, Linking, Filling, Setting,
      Serving, Dropping, Fields, Idle
<1>. QED BY <1>1, <1>2, <1>5, <1>6 DEF SoundStep, Fields

LEMMA FillItemSound ==
    ASSUME TypeInv, NEW c \in Calls, FillItem(c)
    PROVE  SoundStep(c)
<1>. DEFINE r == call[c]
            s == call'[c]
<1>1. Shape(r) /\ r.at = "fill" /\ r # Idle /\ UNCHANGED <<row, cell, list, raced, losses>>
  BY DEF TypeInv, FillItem, At, Idle
<1>2. PICK k \in DOMAIN r.rows :
          Now(c, [at |-> "parents", back |-> "fill", item |-> k, value |-> r.rows[k],
                  rows |-> [j \in DOMAIN r.rows \ {k} |-> r.rows[j]], seen |-> r.seen \cup {k}])
  BY DEF FillItem
<1>3. /\ DOMAIN call' = Calls /\ DOMAIN s = Fields /\ \A d \in Calls \ {c} : call'[d] = call[d]
      /\ s.at = "parents" /\ s.back = "fill" /\ s.item = k /\ s.value = r.rows[k]
      /\ s.rows = [j \in DOMAIN r.rows \ {k} |-> r.rows[j]] /\ s.seen = r.seen \cup {k}
      /\ \A f \in Fields \ {"at", "back", "item", "value", "rows", "seen"} : s[f] = r[f]
  BY <1>1, <1>2 DEF Now, Over, Fields, TypeInv, Shape
<1>4. k \in Items /\ r.rows[k] \in Versions /\ r.op = "list"
  BY <1>1 DEF Shape, Route
<1>5. Shape(s)
  BY <1>1, <1>3, <1>4
  DEF Shape, Fields, Route, Holdings, Setting, Linking, Serving, Dropping, Writes, Places, Versions
<1>6. TypeInv'
  BY <1>1, <1>3, <1>5, StepTypes DEF TypeInv, Tables
<1>7. ASSUME NEW i \in Items, View(c, i) PROVE View(c, i)'
  BY <1>1, <1>3, <1>4, <1>7, BoundsAssumption
  DEF View, Follows, Stale, WritesIt, Inserts, Sees, Links, Keyed, Keeps, Linking, Filling, Setting,
      Serving, Dropping, Fields, Writes
<1>. QED BY <1>1, <1>3, <1>4, <1>6, <1>7 DEF SoundStep, Fields, Writes

-----------------------------------------------------------------------------
(* insert().                                                               *)

LEMMA AppendSound ==
    ASSUME TypeInv, NEW c \in Calls, Append(c)
    PROVE  SoundStep(c)
<1>. DEFINE r == call[c]
            s == call'[c]
<1>1. /\ Shape(r) /\ r.at = "append" /\ r.op = "insert" /\ r # Idle
      /\ UNCHANGED <<row, cell, list, raced, losses>>
  BY DEF TypeInv, Append, At, Idle, Shape, Route
<1>2. CASE Appended(c)
  <2>1. s = Idle /\ DOMAIN call' = Calls /\ r.appends = {} /\ TypeInv'
        /\ \A d \in Calls \ {c} : call'[d] = call[d]
    BY <1>1, <1>2, EndIs DEF Appended, TypeInv, Tables
  <2>2. ASSUME NEW i \in Items, View(c, i) PROVE View(c, i)'
    BY <1>1, <2>1, <2>2
    DEF View, Follows, Stale, WritesIt, Inserts, Sees, Links, Keyed, Keeps, Linking, Filling,
        Setting, Serving, Dropping, Idle
  <2>. QED BY <1>1, <2>1, <2>2 DEF SoundStep
<1>3. ASSUME NEW l \in r.appends, NEW place,
             place = IF list[l] = {} THEN "append"
                     ELSE IF NONE \in list[l] THEN "clear" ELSE "appendItem",
             Now(c, [at |-> place, appends |-> r.appends \ {l}, target |-> l,
                     seen |-> list[l] \ {NONE}])
      PROVE  SoundStep(c)
  <2>1. /\ DOMAIN call' = Calls /\ DOMAIN s = Fields /\ \A d \in Calls \ {c} : call'[d] = call[d]
        /\ s.at = place /\ s.appends = r.appends \ {l} /\ s.target = l /\ s.seen = list[l] \ {NONE}
        /\ \A f \in Fields \ {"at", "appends", "target", "seen"} : s[f] = r[f]
    BY <1>1, <1>3 DEF Now, Over, Fields, TypeInv, Shape
  <2>2. l \in Lists /\ list[l] \subseteq Items \cup {NONE}
        /\ place \in {"append", "clear", "appendItem"}
    BY <1>1, <1>3 DEF Shape, TypeInv, Tables
  <2>3. Shape(s)
    BY <1>1, <2>1, <2>2
    DEF Shape, Fields, Route, Holdings, Setting, Linking, Serving, Dropping, Writes, Places,
        Versions
  <2>4. TypeInv'
    BY <1>1, <2>1, <2>3, StepTypes DEF TypeInv, Tables
  <2>5. ASSUME NEW i \in Items, View(c, i) PROVE View(c, i)'
    BY <1>1, <1>3, <2>1, <2>2, <2>5
    DEF View, Follows, Stale, WritesIt, Inserts, Sees, Links, Keyed, Keeps, Linking, Filling,
        Setting, Serving, Dropping, Fields
  <2>. QED BY <1>1, <2>1, <2>4, <2>5 DEF SoundStep, Fields
<1>. QED BY <1>2, <1>3 DEF Append

LEMMA ClearSound ==
    ASSUME TypeInv, NEW c \in Calls, Clear(c)
    PROVE  SoundStep(c)
<1>. DEFINE r == call[c]
            s == call'[c]
<1>1. Shape(r) /\ r.at = "clear" /\ r # Idle /\ UNCHANGED <<row, cell, raced, losses>>
  BY DEF TypeInv, Clear, At, Idle
<1>2. /\ DOMAIN call' = Calls /\ DOMAIN s = Fields /\ \A d \in Calls \ {c} : call'[d] = call[d]
      /\ s.at = "appendItem" /\ s.seen = {}
      /\ \A f \in Fields \ {"at", "seen"} : s[f] = r[f]
  BY <1>1 DEF Clear, Now, End, Idle, Over, Fields, TypeInv, Shape
<1>3. /\ list' \in [Lists -> SUBSET (Items \cup {NONE})]
      /\ r.target \in Lists
      /\ \A l \in Lists : list'[l] = IF l = r.target THEN {} ELSE list[l]
  BY <1>1 DEF Clear, TypeInv, Tables, Shape, Holdings
<1>4. Shape(s)
  BY <1>1, <1>2, <1>3, IdleShape
  DEF Shape, Fields, Route, Holdings, Setting, Linking, Serving, Dropping, Writes, Places, Versions
<1>5. TypeInv'
  BY <1>1, <1>2, <1>3, <1>4, StepTypes DEF TypeInv, Tables
<1>6. ASSUME NEW i \in Items, View(c, i) PROVE View(c, i)'
  BY <1>1, <1>2, <1>3, <1>6
  DEF View, Follows, Stale, WritesIt, Inserts, Sees, Links, Keyed, Keeps, Linking, Filling, Setting,
      Serving, Dropping, Fields, Shape, Route
<1>. QED BY <1>1, <1>2, <1>5, <1>6 DEF SoundStep, Fields

LEMMA AppendItemSound ==
    ASSUME TypeInv, NEW c \in Calls, AppendItem(c)
    PROVE  SoundStep(c)
<1>. DEFINE r == call[c]
            s == call'[c]
<1>1. Shape(r) /\ r.at = "appendItem" /\ r # Idle /\ UNCHANGED <<row, cell, list, raced, losses>>
  BY DEF TypeInv, AppendItem, At, Idle
<1>2. /\ DOMAIN call' = Calls /\ DOMAIN s = Fields /\ \A d \in Calls \ {c} : call'[d] = call[d]
      /\ \/ /\ cell[r.item] = None
            /\ s.at = "members"
            /\ s.seen = {}
            /\ \A f \in Fields \ {"at", "seen"} : s[f] = r[f]
         \/ /\ cell[r.item] # None
            /\ s.at = "set"
            /\ s.back = "link"
            /\ s.value = cell[r.item].value
            /\ s.parents = cell[r.item].parents \cup {r.target}
            /\ \A f \in Fields \ {"at", "back", "value", "parents"} : s[f] = r[f]
  <2>1. \/ cell[r.item] = None /\ Now(c, [at |-> "members", seen |-> {}])
        \/ cell[r.item] # None
             /\ Now(c, [at |-> "set", back |-> "link", value |-> cell[r.item].value,
                     parents |-> cell[r.item].parents \cup {r.target}])
    BY <1>1 DEF AppendItem
  <2>2. CASE cell[r.item] = None /\ Now(c, [at |-> "members", seen |-> {}])
    BY <1>1, <2>2 DEF Now, Over, Fields, TypeInv, Shape
  <2>3. CASE cell[r.item] # None
        /\ Now(c, [at |-> "set", back |-> "link", value |-> cell[r.item].value,
                parents |-> cell[r.item].parents \cup {r.target}])
    BY <1>1, <2>3 DEF Now, Over, Fields, TypeInv, Shape
  <2>. QED BY <2>1, <2>2, <2>3
<1>3. /\ r.op = "insert" /\ r.item \in Items /\ r.target \in Lists
      /\ cell[r.item] # None => cell[r.item].value \in Versions
           /\ cell[r.item].parents \subseteq Lists
  BY <1>1 DEF Shape, Route, Holdings, TypeInv, Tables, Cells, Linking, Writes
<1>4. Shape(s)
  BY <1>1, <1>2, <1>3, IdleShape
  DEF Shape, Fields, Route, Holdings, Setting, Linking, Serving, Dropping, Writes, Places, Versions
<1>5. TypeInv'
  BY <1>1, <1>2, <1>4, StepTypes DEF TypeInv, Tables
<1>6. ASSUME NEW i \in Items, View(c, i) PROVE View(c, i)'
  BY <1>1, <1>2, <1>3, <1>6
  DEF View, Follows, Stale, WritesIt, Inserts, Sees, Links, Keyed, Keeps, Linking, Filling, Setting,
      Serving, Dropping, Fields, Shape
<1>. QED BY <1>1, <1>2, <1>5, <1>6 DEF SoundStep, Fields

LEMMA LinkSound ==
    ASSUME TypeInv, NEW c \in Calls, Link(c)
    PROVE  SoundStep(c)
<1>. DEFINE r == call[c]
            s == call'[c]
<1>1. Shape(r) /\ r.at = "link" /\ r # Idle /\ UNCHANGED <<row, cell, raced, losses>>
  BY DEF TypeInv, Link, At, Idle
<1>2. /\ DOMAIN call' = Calls /\ DOMAIN s = Fields /\ \A d \in Calls \ {c} : call'[d] = call[d]
      /\ s.at = "append" /\ s.seen = {}
      /\ \A f \in Fields \ {"at", "seen"} : s[f] = r[f]
  BY <1>1 DEF Link, Now, End, Idle, Over, Fields, TypeInv, Shape
<1>3. /\ list' \in [Lists -> SUBSET (Items \cup {NONE})]
      /\ r.op = "insert" /\ r.item \in Items /\ r.item # NONE /\ r.target \in Lists
      /\ \A l \in Lists :
           list'[l] = IF l = r.target THEN list[l] \cup r.seen \cup {r.item} ELSE list[l]
  <2>1. /\ r.op = "insert" /\ r.item \in Items /\ r.target \in Lists
        /\ r.seen \subseteq Items \cup {NONE} /\ r.item # NONE
    BY <1>1, BoundsAssumption DEF Shape, Route, Holdings, Linking, Writes
  <2>2. list' = [list EXCEPT ![r.target] = @ \cup Linked(c)] /\ Linked(c) = r.seen \cup {r.item}
    BY DEF Link, Linked
  <2>. QED BY <2>1, <2>2 DEF TypeInv, Tables
<1>4. Shape(s)
  BY <1>1, <1>2, <1>3, IdleShape
  DEF Shape, Fields, Route, Holdings, Setting, Linking, Serving, Dropping, Writes, Places, Versions
<1>5. TypeInv'
  BY <1>1, <1>2, <1>3, <1>4, StepTypes DEF TypeInv, Tables
<1>6. ASSUME NEW i \in Items, View(c, i) PROVE View(c, i)'
  BY <1>1, <1>2, <1>3, <1>6
  DEF View, Follows, Stale, WritesIt, Inserts, Sees, Links, Keyed, Keeps, Linking, Filling, Setting,
      Serving, Dropping, Fields
<1>. QED BY <1>1, <1>2, <1>5, <1>6 DEF SoundStep, Fields

-----------------------------------------------------------------------------
(* update() and delete().                                                  *)

LEMMA UpdateKeySound ==
    ASSUME TypeInv, NEW c \in Calls, UpdateKey(c)
    PROVE  SoundStep(c)
<1>. DEFINE r == call[c]
            s == call'[c]
<1>1. Shape(r) /\ r.at = "update" /\ r # Idle /\ UNCHANGED <<row, cell, list, raced, losses>>
  BY DEF TypeInv, UpdateKey, At, Idle
<1>2. /\ DOMAIN call' = Calls /\ DOMAIN s = Fields /\ \A d \in Calls \ {c} : call'[d] = call[d]
      /\ \/ /\ cell[r.item] # None
            /\ s.at = "parents"
            /\ s.back = "get"
            /\ \A f \in Fields \ {"at", "back"} : s[f] = r[f]
         \/ /\ cell[r.item] = None
            /\ s.at = "get"
            /\ s.value = 0
            /\ \A f \in Fields \ {"at", "value"} : s[f] = r[f]
  <2>1. \/ cell[r.item] # None /\ Now(c, [at |-> "parents", back |-> "get"])
        \/ cell[r.item] = None /\ Now(c, [at |-> "get", value |-> 0])
    BY <1>1 DEF UpdateKey, UpdatesKey
  <2>2. CASE cell[r.item] # None /\ Now(c, [at |-> "parents", back |-> "get"])
    BY <1>1, <2>2 DEF Now, Over, Fields, TypeInv, Shape
  <2>3. CASE cell[r.item] = None /\ Now(c, [at |-> "get", value |-> 0])
    BY <1>1, <2>3 DEF Now, Over, Fields, TypeInv, Shape
  <2>. QED BY <2>1, <2>2, <2>3
<1>3. Shape(s)
  BY <1>1, <1>2, IdleShape
  DEF Shape, Fields, Route, Holdings, Setting, Linking, Serving, Dropping, Writes, Places, Versions
<1>4. TypeInv'
  BY <1>1, <1>2, <1>3, StepTypes DEF TypeInv, Tables
<1>5. ASSUME NEW i \in Items, View(c, i) PROVE View(c, i)'
  BY <1>1, <1>2, <1>5
  DEF View, Follows, Stale, WritesIt, Inserts, Sees, Links, Keyed, Keeps, Linking, Filling, Setting,
      Serving, Dropping, Fields, Shape, Route
<1>. QED BY <1>1, <1>2, <1>4, <1>5 DEF SoundStep, Fields

LEMMA DeleteRowSound ==
    ASSUME TypeInv, NEW c \in Calls, DeleteRow(c)
    PROVE  SoundStep(c)
<1>. DEFINE r == call[c]
            s == call'[c]
<1>1. /\ Shape(r) /\ r.at = "unrow" /\ r.op = "delete" /\ r.item \in Items /\ r # Idle
      /\ UNCHANGED <<cell, list, raced, losses>>
  BY DEF TypeInv, DeleteRow, At, Idle, Shape, Route, Holdings, Writes
<1>2. /\ DOMAIN call' = Calls /\ DOMAIN s = Fields /\ \A d \in Calls \ {c} : call'[d] = call[d]
      /\ s.at = "unlink"
      /\ \A f \in Fields \ {"at"} : s[f] = r[f]
  BY <1>1 DEF DeleteRow, Now, Over, Fields, TypeInv, Shape
<1>3. /\ row' \in [Items -> 0..Gone] /\ Gone \notin Versions
      /\ \A i \in Items : row'[i] = IF i = r.item THEN Gone ELSE row[i]
  BY <1>1, BoundsAssumption DEF DeleteRow, TypeInv, Tables, Gone, Versions
<1>4. Shape(s)
  BY <1>1, <1>2
  DEF Shape, Fields, Route, Holdings, Setting, Linking, Serving, Dropping, Writes, Places
<1>5. TypeInv'
  BY <1>1, <1>2, <1>3, <1>4, StepTypes DEF TypeInv, Tables
<1>6. ASSUME NEW i \in Items, View(c, i) PROVE View(c, i)'
  BY <1>1, <1>2, <1>3, <1>6
  DEF View, Follows, Stale, WritesIt, Inserts, Sees, Links, Keyed, Keeps, Linking, Filling, Setting,
      Serving, Dropping, Fields, Shape, Route, Holdings, Writes
<1>. QED BY <1>1, <1>2, <1>3, <1>5, <1>6 DEF SoundStep, Fields, WritesIt, Writes

LEMMA UnlinkSound ==
    ASSUME TypeInv, NEW c \in Calls, Unlink(c)
    PROVE  SoundStep(c)
<1>. DEFINE r == call[c]
            s == call'[c]
<1>1. Shape(r) /\ r.at = "unlink" /\ r # Idle /\ UNCHANGED <<row, cell, list, raced, losses>>
  BY DEF TypeInv, Unlink, At, Idle
<1>2. /\ DOMAIN call' = Calls /\ DOMAIN s = Fields /\ \A d \in Calls \ {c} : call'[d] = call[d]
      /\ s.at = "unlinkFrom"
      /\ s.drops = Parents(cell[r.item])
      /\ \A f \in Fields \ {"at", "drops"} : s[f] = r[f]
  BY <1>1 DEF Unlink, Now, End, Idle, Over, Fields, TypeInv, Shape
<1>3. r.op = "delete" /\ r.item \in Items /\ Parents(cell[r.item]) \subseteq Lists
  BY <1>1 DEF Shape, Route, Holdings, Writes, TypeInv, Tables, Parents, Cells
<1>4. Shape(s)
  BY <1>1, <1>2, <1>3, IdleShape
  DEF Shape, Fields, Route, Holdings, Setting, Linking, Serving, Dropping, Writes, Places, Versions
<1>5. TypeInv'
  BY <1>1, <1>2, <1>4, StepTypes DEF TypeInv, Tables
<1>6. ASSUME NEW i \in Items, View(c, i) PROVE View(c, i)'
  BY <1>1, <1>2, <1>3, <1>6
  DEF View, Follows, Stale, WritesIt, Inserts, Sees, Links, Keyed, Keeps, Linking, Filling, Setting,
      Serving, Dropping, Fields, Shape, Route, Writes
<1>. QED BY <1>1, <1>2, <1>5, <1>6 DEF SoundStep, Fields

LEMMA UnlinkFromSound ==
    ASSUME TypeInv, NEW c \in Calls, UnlinkFrom(c)
    PROVE  SoundStep(c)
<1>. DEFINE r == call[c]
            s == call'[c]
<1>1. /\ Shape(r) /\ r.at = "unlinkFrom" /\ r.op = "delete" /\ r.item \in Items /\ r # Idle
      /\ UNCHANGED <<row, cell, list, raced, losses>>
  BY DEF TypeInv, UnlinkFrom, At, Idle, Shape, Route, Holdings, Writes
<1>2. CASE Now(c, [at |-> "delKey"])
  <2>1. /\ DOMAIN call' = Calls /\ DOMAIN s = Fields /\ \A d \in Calls \ {c} : call'[d] = call[d]
        /\ s.at = "delKey"
        /\ \A f \in Fields \ {"at"} : s[f] = r[f]
    BY <1>1, <1>2 DEF Now, Over, Fields, TypeInv, Shape
  <2>2. Shape(s)
    BY <1>1, <2>1
    DEF Shape, Fields, Route, Holdings, Setting, Linking, Serving, Dropping, Writes, Places,
        Versions
  <2>3. TypeInv'
    BY <1>1, <2>1, <2>2, StepTypes DEF TypeInv, Tables
  <2>4. ASSUME NEW i \in Items, View(c, i) PROVE View(c, i)'
    BY <1>1, <2>1, <2>4
    DEF View, Follows, Stale, WritesIt, Inserts, Sees, Links, Keyed, Keeps, Linking, Filling,
        Setting, Serving, Dropping, Fields
  <2>. QED BY <1>1, <2>1, <2>3, <2>4 DEF SoundStep, Fields
<1>3. ASSUME NEW p \in r.drops,
             Now(c, [at |-> IF list[p] = {} THEN "unlinkFrom" ELSE "cut", parent |-> p,
                     drops |-> r.drops \ {p}, seen |-> list[p] \ {r.item}])
      PROVE  SoundStep(c)
  <2>1. /\ DOMAIN call' = Calls /\ DOMAIN s = Fields /\ \A d \in Calls \ {c} : call'[d] = call[d]
        /\ s.at = IF list[p] = {} THEN "unlinkFrom" ELSE "cut"
        /\ s.parent = p /\ s.drops = r.drops \ {p} /\ s.seen = list[p] \ {r.item}
        /\ \A f \in Fields \ {"at", "parent", "drops", "seen"} : s[f] = r[f]
    BY <1>1, <1>3 DEF Now, Over, Fields, TypeInv, Shape
  <2>2. p \in Lists /\ list[p] \subseteq Items \cup {NONE} /\ Gone \notin Versions
    BY <1>1, BoundsAssumption DEF Shape, TypeInv, Tables, Gone, Versions
  <2>3. Shape(s)
    BY <1>1, <2>1, <2>2
    DEF Shape, Fields, Route, Holdings, Setting, Linking, Serving, Dropping, Writes, Places,
        Versions
  <2>4. TypeInv'
    BY <1>1, <2>1, <2>3, StepTypes DEF TypeInv, Tables
  <2>5. ASSUME NEW i \in Items, View(c, i) PROVE View(c, i)'
    BY <1>1, <2>1, <2>2, <2>5
    DEF View, Follows, Stale, WritesIt, Inserts, Sees, Links, Keyed, Keeps, Linking, Filling,
        Setting, Serving, Dropping, Fields
  <2>. QED BY <1>1, <2>1, <2>4, <2>5 DEF SoundStep, Fields
<1>. QED BY <1>2, <1>3 DEF UnlinkFrom

LEMMA CutSound ==
    ASSUME TypeInv, NEW c \in Calls, Cut(c)
    PROVE  SoundStep(c)
<1>. DEFINE r == call[c]
            s == call'[c]
<1>1. Shape(r) /\ r.at = "cut" /\ r # Idle /\ UNCHANGED <<row, cell, raced, losses>>
  BY DEF TypeInv, Cut, At, Idle
<1>2. /\ DOMAIN call' = Calls /\ DOMAIN s = Fields /\ \A d \in Calls \ {c} : call'[d] = call[d]
      /\ s.at \in {"unlinkFrom", "relink"}
      /\ \A f \in Fields \ {"at"} : s[f] = r[f]
  BY <1>1 DEF Cut, Now, End, Idle, Over, Fields, TypeInv, Shape
<1>3. /\ list' \in [Lists -> SUBSET (Items \cup {NONE})]
      /\ \A l \in Lists : list'[l] = list[l] \/ list'[l] = {}
      /\ r.op = "delete"
  BY <1>1 DEF Cut, TypeInv, Tables, Shape, Route
<1>4. Shape(s)
  BY <1>1, <1>2, <1>3, IdleShape
  DEF Shape, Fields, Route, Holdings, Setting, Linking, Serving, Dropping, Writes, Places, Versions
<1>5. TypeInv'
  BY <1>1, <1>2, <1>3, <1>4, StepTypes DEF TypeInv, Tables
<1>6. ASSUME NEW i \in Items, View(c, i) PROVE View(c, i)'
  BY <1>1, <1>2, <1>3, <1>6
  DEF View, Follows, Stale, WritesIt, Inserts, Sees, Links, Keyed, Keeps, Linking, Filling, Setting,
      Serving, Dropping, Fields
<1>. QED BY <1>1, <1>2, <1>5, <1>6 DEF SoundStep, Fields

LEMMA RelinkSound ==
    ASSUME TypeInv, NEW c \in Calls, Relink(c)
    PROVE  SoundStep(c)
<1>. DEFINE r == call[c]
            s == call'[c]
<1>1. Shape(r) /\ r.at = "relink" /\ r # Idle /\ UNCHANGED <<row, cell, raced, losses>>
  BY DEF TypeInv, Relink, At, Idle
<1>2. /\ DOMAIN call' = Calls /\ DOMAIN s = Fields /\ \A d \in Calls \ {c} : call'[d] = call[d]
      /\ s.at = "unlinkFrom" /\ s.seen = {}
      /\ \A f \in Fields \ {"at", "seen"} : s[f] = r[f]
  BY <1>1 DEF Relink, Now, End, Idle, Over, Fields, TypeInv, Shape
<1>3. /\ list' \in [Lists -> SUBSET (Items \cup {NONE})]
      /\ \A l \in Lists : list'[l] = list[l] \/ list'[l] = list[l] \cup r.seen
      /\ r.op = "delete"
  BY <1>1 DEF Relink, TypeInv, Tables, Shape, Route
<1>4. Shape(s)
  BY <1>1, <1>2, <1>3, IdleShape
  DEF Shape, Fields, Route, Holdings, Setting, Linking, Serving, Dropping, Writes, Places, Versions
<1>5. TypeInv'
  BY <1>1, <1>2, <1>3, <1>4, StepTypes DEF TypeInv, Tables
<1>6. ASSUME NEW i \in Items, View(c, i) PROVE View(c, i)'
  BY <1>1, <1>2, <1>3, <1>6
  DEF View, Follows, Stale, WritesIt, Inserts, Sees, Links, Keyed, Keeps, Linking, Filling, Setting,
      Serving, Dropping, Fields
<1>. QED BY <1>1, <1>2, <1>5, <1>6 DEF SoundStep, Fields

LEMMA DeleteKeySound ==
    ASSUME TypeInv, NEW c \in Calls, DeleteKey(c)
    PROVE  SoundStep(c)
<1>. DEFINE r == call[c]
            s == call'[c]
<1>1. Shape(r) /\ r.at = "delKey" /\ r # Idle /\ UNCHANGED <<row, list, raced, losses>>
  BY DEF TypeInv, DeleteKey, At, Idle
<1>2. /\ DOMAIN call' = Calls /\ DOMAIN s = Fields /\ \A d \in Calls \ {c} : call'[d] = call[d]
      /\ s = Idle
  BY <1>1 DEF DeleteKey, Now, End, Idle, Over, Fields, TypeInv, Shape
<1>3. /\ cell' \in [Items -> Cells \cup {None}]
      /\ \A i \in Items : cell'[i] = IF i = r.item THEN None ELSE cell[i]
      /\ r.op = "delete"
  BY <1>1 DEF DeleteKey, TypeInv, Tables, Shape, Route
<1>4. Shape(s)
  BY <1>1, <1>2, <1>3, IdleShape
  DEF Shape, Fields, Route, Holdings, Setting, Linking, Serving, Dropping, Writes, Places, Versions
<1>5. TypeInv'
  BY <1>1, <1>2, <1>3, <1>4, StepTypes DEF TypeInv, Tables
<1>6. ASSUME NEW i \in Items, View(c, i) PROVE View(c, i)'
  BY <1>1, <1>2, <1>3, <1>6
  DEF View, Follows, Stale, WritesIt, Inserts, Sees, Links, Keyed, Keeps, Linking, Filling, Setting,
      Serving, Dropping, Fields, Idle, Writes
<1>. QED BY <1>1, <1>2, <1>5, <1>6 DEF SoundStep, Fields
-----------------------------------------------------------------------------
(* From the views of the calls to the invariant of a row.                  *)

\* What a call that runs may assume of a row that was not raced.
LEMMA ActiveView ==
    ASSUME IInv, NEW i \in Items \ raced, NEW c \in Calls, call[c] # Idle
    PROVE  View(c, i)
<1>1. RowInv(i)
  BY DEF IInv
<1>2. \A d \in Calls \ {c} : ~WritesIt(call[d], i)
  BY <1>1 DEF RowInv
<1>3. \A d \in Calls \ {c} : ~Stale(call[d], i) /\ ~Inserts(call[d], i)
  BY <1>2 DEF Stale, Inserts, WritesIt, Writes
<1>. QED BY <1>1, <1>3 DEF RowInv, View

LEMMA SoundStepKeeps ==
    ASSUME IInv, NEW c \in Calls, SoundStep(c)
    PROVE  IInv'
<1>. SUFFICES ASSUME NEW i \in Items \ raced PROVE RowInv(i)'
  BY DEF IInv, SoundStep
<1>1. RowInv(i) /\ View(c, i) /\ View(c, i)'
  BY ActiveView DEF IInv, SoundStep
<1>2. /\ call[c] # Idle
      /\ \A d \in Calls \ {c} : call'[d] = call[d]
      /\ WritesIt(call'[c], i) => WritesIt(call[c], i)
      /\ Inserts(call'[c], i) => Inserts(call[c], i)
      /\ Inserts(call[c], i) => Inserts(call'[c], i) \/ call'[c] = Idle
      /\ row'[i] = row[i] \/ WritesIt(call[c], i)
  BY DEF SoundStep, WritesIt, Inserts, Idle, Writes
<1>3. \A d \in Calls \ {c} : ~WritesIt(call[d], i) /\ ~Inserts(call[d], i) /\ ~Stale(call[d], i)
  BY <1>1, <1>2 DEF RowInv, Inserts, WritesIt, Writes, Stale
<1>4. CASE \A d \in Calls \ {c} : call[d] = Idle
  <2>1. \A v : Follows(Idle, i, v) /\ Sees(Idle, i)
    BY DEF Follows, Sees, Idle, Linking, Filling, Setting, Dropping
  <2>. QED BY <1>1, <1>2, <1>3, <1>4, <2>1 DEF RowInv, View
<1>5. CASE ~WritesIt(call[c], i)
  <2>1. row'[i] = row[i] /\ ~Inserts(call[c], i) /\ ~Inserts(call'[c], i) /\ ~Stale(call'[c], i)
    BY <1>2, <1>5 DEF Inserts, WritesIt, Writes, Stale
  <2>. QED BY <1>1, <1>2, <1>3, <1>5, <2>1 DEF RowInv, View
<1>. QED BY <1>1, <1>4, <1>5 DEF RowInv

-----------------------------------------------------------------------------
(* A call begins.                                                          *)

\* What the first step of a call does to the call, and what it may do to its row.
BeginsAs(c, s) ==
    /\ call[c] = Idle
    /\ UNCHANGED <<cell, list, losses>>
    /\ \A d \in Calls \ {c} : call'[d] = call[d]
    /\ DOMAIN call' = Calls
    /\ Tables'
    /\ Shape(s)
    /\ s.back = "idle" /\ DOMAIN s.snap = {} /\ DOMAIN s.rows = {}
    /\ \/ s.at = "get" /\ s.op \in {"get", "delete"} /\ row' = row
       \/ s.at = "members" /\ s.op = "list" /\ row' = row
       \/ s.at = "get" /\ s.op = "insert" /\ row[s.item] = 0 /\ row'[s.item] \in Versions
       \/ s.at = "update" /\ s.op = "update" /\ row[s.item] \in Versions /\ row'[s.item] = s.value
    /\ \A i \in Items : row'[i] = row[i] \/ WritesIt(s, i)
    /\ raced \subseteq raced'
    /\ \A d \in Others(c) : call[d].op \in Writes => call[d].item \in raced'
    /\ Others(c) # {} /\ s.op \in Writes => s.item \in raced'

LEMMA BeginKeeps ==
    ASSUME IInv, NEW c \in Calls, BeginsAs(c, call'[c])
    PROVE  IInv'
<1>. DEFINE s == call'[c]
<1>1. TypeInv'
  BY StepTypes DEF BeginsAs, IInv
<1>. SUFFICES ASSUME NEW i \in Items \ raced' PROVE RowInv(i)'
  BY <1>1 DEF IInv
<1>2. RowInv(i)
  BY DEF IInv, BeginsAs
<1>3. ~WritesIt(Idle, i) /\ ~Inserts(Idle, i) /\ ~Stale(Idle, i) /\ Sees(Idle, i)
      /\ \A v : Follows(Idle, i, v)
  BY DEF WritesIt, Inserts, Stale, Follows, Sees, Idle, Writes, Linking, Filling, Setting, Dropping
<1>4. Sees(s, i) /\ s.at \in {"get", "members", "update"} /\ Shape(s)
  BY DEF BeginsAs, Sees, Linking, Filling, Setting, Dropping
<1>5. \A d \in Calls \ {c} : ~WritesIt(call[d], i)
  BY <1>3 DEF BeginsAs, Others, WritesIt
<1>6. CASE WritesIt(s, i)
  <2>1. \A d \in Calls : call[d] = Idle
    BY <1>6 DEF BeginsAs, Others, WritesIt
  <2>2. \A d \in Calls \ {c} : call'[d] = Idle
    BY <2>1 DEF BeginsAs
  <2>3. cell[i] # None => cell[i].value = row[i] /\ cell[i] \in Cells
    BY <1>2, <1>3, <2>1 DEF RowInv, IInv, TypeInv, Tables
  <2>4. row[i] \in Versions => \A l \in Lists : Keeps(list[l], i)
    BY <1>2, <1>3, <2>1 DEF RowInv
  <2>5. Follows(s, i, row'[i])
    BY <1>6, <1>4 DEF BeginsAs, Follows, WritesIt
  <2>6. cell'[i] # None /\ ~Stale(s, i) => cell'[i].value = row'[i]
    BY <1>6, <2>3 DEF BeginsAs, WritesIt, Stale, Cells, Versions
  <2>7. row'[i] \in Versions /\ ~Inserts(s, i) => \A l \in Lists : Keeps(list'[l], i)
    BY <1>6, <2>4 DEF BeginsAs, WritesIt, Inserts, Writes
  <2>8. Inserts(s, i) => Links(call[c], i)'
    BY <1>6 DEF BeginsAs, WritesIt, Inserts, Links, Keyed, Linking, Setting, Serving, Dropping
  <2>. QED BY <1>3, <1>4, <2>2, <2>5, <2>6, <2>7, <2>8 DEF RowInv
<1>7. CASE ~WritesIt(s, i)
  <2>1. row'[i] = row[i] /\ cell' = cell /\ list' = list /\ call[c] = Idle
        /\ \A d \in Calls \ {c} : call'[d] = call[d]
    BY <1>7 DEF BeginsAs
  <2>2. \A d \in Calls : ~WritesIt(call[d], i) /\ ~WritesIt(call'[d], i)
    BY <1>3, <1>5, <1>7, <2>1
  <2>3. \A d \in Calls : /\ ~Inserts(call[d], i) /\ ~Inserts(call'[d], i)
                         /\ ~Stale(call[d], i) /\ ~Stale(call'[d], i)
    BY <2>2 DEF WritesIt, Inserts, Writes, Stale
  <2>4. Follows(s, i, row[i])
    BY <1>7 DEF BeginsAs, Follows, WritesIt, Writes
  <2>. QED BY <1>2, <1>4, <2>1, <2>2, <2>3, <2>4 DEF RowInv
<1>. QED BY <1>6, <1>7

\* The common part of the first steps.
LEMMA BeginIs ==
    ASSUME TypeInv, NEW c \in Calls, NEW new, Begin(c, new), UNCHANGED <<cell, list, losses>>,
           {"op", "at", "item"} \subseteq DOMAIN new,
           DOMAIN new \subseteq {"op", "at", "item", "target", "value"},
           new.op \in Writes => new.item \in Items
    PROVE  /\ call[c] = Idle /\ DOMAIN call' = Calls /\ \A d \in Calls \ {c} : call'[d] = call[d]
           /\ DOMAIN call'[c] = Fields
           /\ \A f \in DOMAIN new : call'[c][f] = new[f]
           /\ \A f \in Fields \ DOMAIN new : call'[c][f] = Idle[f]
           /\ raced \subseteq raced' /\ raced' \subseteq Items
           /\ \A d \in Others(c) : call[d].op \in Writes => call[d].item \in raced'
           /\ Others(c) # {} /\ new.op \in Writes => new.item \in raced'
<1>1. DOMAIN new \subseteq Fields
  BY DEF Fields
<1>2. call[c] = Idle /\ Now(c, new)
      /\ raced' = raced \cup {call[d].item : d \in {d \in Others(c) : call[d].op \in Writes}}
                        \cup {i \in {new.item} : new.op \in Writes /\ Others(c) # {}}
  BY DEF Begin
<1>3. \A d \in Calls : call[d].op \in Writes => call[d].item \in Items
  BY DEF TypeInv, Shape, Holdings
<1>4. raced' \subseteq Items
  BY <1>2, <1>3 DEF TypeInv, Tables, Others
<1>. QED BY <1>1, <1>2, <1>4, NowIs

LEMMA StartGetKeeps ==
    ASSUME IInv, NEW c \in Calls, NEW i \in Items, StartGet(c, i)
    PROVE  IInv'
<1>. DEFINE s == call'[c]
            new == [op |-> "get", at |-> "get", item |-> i]
<1>1. /\ call[c] = Idle /\ DOMAIN call' = Calls /\ \A d \in Calls \ {c} : call'[d] = call[d]
      /\ DOMAIN s = Fields
      /\ \A f \in DOMAIN new : s[f] = new[f]
      /\ \A f \in Fields \ DOMAIN new : s[f] = Idle[f]
      /\ raced \subseteq raced' /\ raced' \subseteq Items
      /\ \A d \in Others(c) : call[d].op \in Writes => call[d].item \in raced'
      /\ Others(c) # {} /\ new.op \in Writes => new.item \in raced'
  <2>1. /\ Begin(c, new) /\ UNCHANGED <<row, cell, list, losses>>
        /\ DOMAIN new = {"op", "at", "item"}
        /\ new.op \in Writes => new.item \in Items
    BY DEF StartGet
  <2>. HIDE DEF new
  <2>. QED BY <2>1, BeginIs DEF IInv
<1>2. s.op = "get" /\ s.at = "get" /\ s.item = i
      /\ \A f \in Fields \ {"op", "at", "item"} : s[f] = Idle[f]
  BY <1>1
<1>3. Shape(s) /\ s.back = "idle" /\ DOMAIN s.snap = {} /\ DOMAIN s.rows = {}
  BY <1>1, <1>2
  DEF Shape, Fields, Route, Holdings, Setting, Linking, Serving, Dropping, Writes, Places,
      Versions, Idle
<1>4. row' = row /\ Tables' /\ UNCHANGED <<cell, list, losses>>
  BY <1>1 DEF StartGet, IInv, TypeInv, Tables
<1>5. BeginsAs(c, s)
  BY <1>1, <1>2, <1>3, <1>4 DEF BeginsAs, Writes
<1>. QED BY <1>5, BeginKeeps

LEMMA StartListKeeps ==
    ASSUME IInv, NEW c \in Calls, NEW l \in Lists, StartList(c, l)
    PROVE  IInv'
<1>. DEFINE s == call'[c]
            new == [op |-> "list", at |-> "members", item |-> None, target |-> l]
<1>1. /\ call[c] = Idle /\ DOMAIN call' = Calls /\ \A d \in Calls \ {c} : call'[d] = call[d]
      /\ DOMAIN s = Fields
      /\ \A f \in DOMAIN new : s[f] = new[f]
      /\ \A f \in Fields \ DOMAIN new : s[f] = Idle[f]
      /\ raced \subseteq raced' /\ raced' \subseteq Items
      /\ \A d \in Others(c) : call[d].op \in Writes => call[d].item \in raced'
      /\ Others(c) # {} /\ new.op \in Writes => new.item \in raced'
  <2>1. /\ Begin(c, new) /\ UNCHANGED <<row, cell, list, losses>>
        /\ DOMAIN new = {"op", "at", "item", "target"}
        /\ new.op \in Writes => new.item \in Items
    BY DEF StartList, Writes
  <2>. HIDE DEF new
  <2>. QED BY <2>1, BeginIs DEF IInv
<1>2. s.op = "list" /\ s.at = "members" /\ s.item = None /\ s.target = l
      /\ \A f \in Fields \ {"op", "at", "item", "target"} : s[f] = Idle[f]
  BY <1>1
<1>3. Shape(s) /\ s.back = "idle" /\ DOMAIN s.snap = {} /\ DOMAIN s.rows = {}
  BY <1>1, <1>2
  DEF Shape, Fields, Route, Holdings, Setting, Linking, Serving, Dropping, Writes, Places,
      Versions, Idle
<1>4. row' = row /\ Tables' /\ UNCHANGED <<cell, list, losses>>
  BY <1>1 DEF StartList, IInv, TypeInv, Tables
<1>5. BeginsAs(c, s)
  BY <1>1, <1>2, <1>3, <1>4 DEF BeginsAs, Writes
<1>. QED BY <1>5, BeginKeeps

LEMMA InsertKeeps ==
    ASSUME IInv, NEW c \in Calls, NEW i \in Items, Insert(c, i)
    PROVE  IInv'
<1>. DEFINE s == call'[c]
            new == [op |-> "insert", at |-> "get", item |-> i]
<1>1. /\ call[c] = Idle /\ DOMAIN call' = Calls /\ \A d \in Calls \ {c} : call'[d] = call[d]
      /\ DOMAIN s = Fields
      /\ \A f \in DOMAIN new : s[f] = new[f]
      /\ \A f \in Fields \ DOMAIN new : s[f] = Idle[f]
      /\ raced \subseteq raced' /\ raced' \subseteq Items
      /\ \A d \in Others(c) : call[d].op \in Writes => call[d].item \in raced'
      /\ Others(c) # {} /\ new.op \in Writes => new.item \in raced'
  <2>1. /\ Begin(c, new) /\ UNCHANGED <<cell, list, losses>>
        /\ DOMAIN new = {"op", "at", "item"}
        /\ new.op \in Writes => new.item \in Items
    BY DEF Insert
  <2>. HIDE DEF new
  <2>. QED BY <2>1, BeginIs DEF IInv
<1>2. s.op = "insert" /\ s.at = "get" /\ s.item = i
      /\ \A f \in Fields \ {"op", "at", "item"} : s[f] = Idle[f]
  BY <1>1
<1>3. Shape(s) /\ s.back = "idle" /\ DOMAIN s.snap = {} /\ DOMAIN s.rows = {}
  BY <1>1, <1>2
  DEF Shape, Fields, Route, Holdings, Setting, Linking, Serving, Dropping, Writes, Places,
      Versions, Idle
<1>4. /\ row[i] = 0 /\ row'[i] \in Versions /\ \A k \in Items \ {i} : row'[k] = row[k]
      /\ Tables' /\ UNCHANGED <<cell, list, losses>>
  BY <1>1, BoundsAssumption DEF Insert, IInv, TypeInv, Tables, Gone, Versions
<1>5. BeginsAs(c, s)
  BY <1>1, <1>2, <1>3, <1>4 DEF BeginsAs, WritesIt, Writes
<1>. QED BY <1>5, BeginKeeps

LEMMA UpdateKeeps ==
    ASSUME IInv, NEW c \in Calls, NEW i \in Items, Update(c, i)
    PROVE  IInv'
<1>. DEFINE s == call'[c]
            new == [op |-> "update", at |-> "update", item |-> i, value |-> row[i] + 1]
<1>1. /\ call[c] = Idle /\ DOMAIN call' = Calls /\ \A d \in Calls \ {c} : call'[d] = call[d]
      /\ DOMAIN s = Fields
      /\ \A f \in DOMAIN new : s[f] = new[f]
      /\ \A f \in Fields \ DOMAIN new : s[f] = Idle[f]
      /\ raced \subseteq raced' /\ raced' \subseteq Items
      /\ \A d \in Others(c) : call[d].op \in Writes => call[d].item \in raced'
      /\ Others(c) # {} /\ new.op \in Writes => new.item \in raced'
  <2>1. /\ Begin(c, new) /\ UNCHANGED <<cell, list, losses>>
        /\ DOMAIN new = {"op", "at", "item", "value"}
        /\ new.op \in Writes => new.item \in Items
    BY DEF Update
  <2>. HIDE DEF new
  <2>. QED BY <2>1, BeginIs DEF IInv
<1>2. s.op = "update" /\ s.at = "update" /\ s.item = i /\ s.value = row[i] + 1
      /\ \A f \in Fields \ {"op", "at", "item", "value"} : s[f] = Idle[f]
  BY <1>1
<1>3. /\ row[i] \in Versions /\ row'[i] = row[i] + 1 /\ row[i] + 1 \in Versions
      /\ \A k \in Items \ {i} : row'[k] = row[k]
      /\ Tables' /\ UNCHANGED <<cell, list, losses>>
  BY <1>1, BoundsAssumption DEF Update, IInv, TypeInv, Tables, Gone, Versions
<1>4. Shape(s) /\ s.back = "idle" /\ DOMAIN s.snap = {} /\ DOMAIN s.rows = {}
  BY <1>1, <1>2, <1>3
  DEF Shape, Fields, Route, Holdings, Setting, Linking, Serving, Dropping, Writes, Places, Idle
<1>5. BeginsAs(c, s)
  BY <1>1, <1>2, <1>3, <1>4 DEF BeginsAs, WritesIt, Writes
<1>. QED BY <1>5, BeginKeeps

LEMMA DeleteKeeps ==
    ASSUME IInv, NEW c \in Calls, NEW i \in Items, Delete(c, i)
    PROVE  IInv'
<1>. DEFINE s == call'[c]
            new == [op |-> "delete", at |-> "get", item |-> i]
<1>1. /\ call[c] = Idle /\ DOMAIN call' = Calls /\ \A d \in Calls \ {c} : call'[d] = call[d]
      /\ DOMAIN s = Fields
      /\ \A f \in DOMAIN new : s[f] = new[f]
      /\ \A f \in Fields \ DOMAIN new : s[f] = Idle[f]
      /\ raced \subseteq raced' /\ raced' \subseteq Items
      /\ \A d \in Others(c) : call[d].op \in Writes => call[d].item \in raced'
      /\ Others(c) # {} /\ new.op \in Writes => new.item \in raced'
  <2>1. /\ Begin(c, new) /\ UNCHANGED <<row, cell, list, losses>>
        /\ DOMAIN new = {"op", "at", "item"}
        /\ new.op \in Writes => new.item \in Items
    BY DEF Delete
  <2>. HIDE DEF new
  <2>. QED BY <2>1, BeginIs DEF IInv
<1>2. s.op = "delete" /\ s.at = "get" /\ s.item = i
      /\ \A f \in Fields \ {"op", "at", "item"} : s[f] = Idle[f]
  BY <1>1
<1>3. Shape(s) /\ s.back = "idle" /\ DOMAIN s.snap = {} /\ DOMAIN s.rows = {}
  BY <1>1, <1>2
  DEF Shape, Fields, Route, Holdings, Setting, Linking, Serving, Dropping, Writes, Places,
      Versions, Idle
<1>4. row' = row /\ Tables' /\ UNCHANGED <<cell, list, losses>>
  BY <1>1 DEF Delete, IInv, TypeInv, Tables
<1>5. BeginsAs(c, s)
  BY <1>1, <1>2, <1>3, <1>4 DEF BeginsAs, Writes
<1>. QED BY <1>5, BeginKeeps

-----------------------------------------------------------------------------
(* A key is lost.                                                          *)

LEMMA LoseItemKeeps ==
    ASSUME IInv, NEW i \in Items, LoseItem(i)
    PROVE  IInv'
<1>1. /\ cell' = [cell EXCEPT ![i] = None] /\ UNCHANGED <<row, list, call>>
      /\ losses < MaxLosses /\ losses' = losses + 1
      /\ raced' = raced \cup {k \in {i} : \E c \in Calls : call[c].op = "insert"
           /\ call[c].item = i}
  BY DEF LoseItem, Lose
<1>2. TypeInv'
  <2>1. losses' \in 0..MaxLosses
    BY <1>1, BoundsAssumption DEF IInv, TypeInv, Tables
  <2>. QED BY <1>1, <2>1 DEF IInv, TypeInv, Tables
<1>3. ASSUME NEW k \in Items \ raced' PROVE RowInv(k)'
  <2>1. RowInv(k)
    BY <1>1, <1>3 DEF IInv
  <2>2. cell'[k] = IF k = i THEN None ELSE cell[k]
    BY <1>1 DEF IInv, TypeInv, Tables
  <2>3. k = i => \A c \in Calls : ~Inserts(call[c], k)
    BY <1>1, <1>3 DEF Inserts
  <2>. QED BY <1>1, <2>1, <2>2, <2>3 DEF RowInv, Links
<1>. QED BY <1>2, <1>3 DEF IInv

LEMMA LoseListKeeps ==
    ASSUME IInv, NEW l \in Lists, LoseList(l)
    PROVE  IInv'
<1>1. /\ list' = [list EXCEPT ![l] = {}] /\ UNCHANGED <<row, cell, call, raced>>
      /\ losses < MaxLosses /\ losses' = losses + 1
  BY DEF LoseList, Lose
<1>2. TypeInv'
  <2>1. losses' \in 0..MaxLosses
    BY <1>1, BoundsAssumption DEF IInv, TypeInv, Tables
  <2>. QED BY <1>1, <2>1 DEF IInv, TypeInv, Tables
<1>3. ASSUME NEW k \in Items \ raced' PROVE RowInv(k)'
  <2>1. RowInv(k)
    BY <1>1, <1>3 DEF IInv
  <2>2. \A m \in Lists : list'[m] = IF m = l THEN {} ELSE list[m]
    BY <1>1 DEF IInv, TypeInv, Tables
  <2>3. \A m \in Lists : Keeps(list[m], k) => Keeps(list'[m], k)
    BY <2>2 DEF Keeps
  <2>4. \A c \in Calls : Inserts(call[c], k) => Links(call[c], k)'
    <3>. SUFFICES ASSUME NEW c \in Calls, Inserts(call[c], k) PROVE Links(call[c], k)'
      OBVIOUS
    <3>1. Links(call[c], k)
      BY <2>1 DEF RowInv
    <3>2. Linking(call[c]) => call[c].target \in Lists
      BY DEF IInv, TypeInv, Shape, Holdings
    <3>. QED BY <1>1, <2>2, <2>3, <3>1, <3>2 DEF Links
  <2>. QED BY <1>1, <2>1, <2>3, <2>4 DEF RowInv
<1>. QED BY <1>2, <1>3 DEF IInv

-----------------------------------------------------------------------------
LEMMA InitIInv == Init => IInv
<1>. SUFFICES ASSUME Init PROVE IInv
  OBVIOUS
<1>1. TypeInv
  BY IdleShape, BoundsAssumption DEF Init, TypeInv, Tables, Gone
<1>2. ASSUME NEW i \in Items PROVE RowInv(i)
  <2>1. ~WritesIt(Idle, i) /\ ~Inserts(Idle, i) /\ Sees(Idle, i) /\ Follows(Idle, i, 0)
    BY DEF WritesIt, Inserts, Follows, Sees, Idle, Writes, Linking, Filling, Setting, Dropping
  <2>2. 0 \notin Versions
    BY DEF Versions
  <2>. QED BY <2>1, <2>2 DEF Init, RowInv
<1>. QED BY <1>1, <1>2 DEF IInv

\* The steps of the calls that run.
LEMMA RunningStep ==
    ASSUME TypeInv, NEW c \in Calls,
           \/ SetAndRefresh(c)
           \/ GetItem(c) \/ GetRow(c) \/ Got(c)
           \/ Members(c) \/ Values(c) \/ RefreshList(c) \/ Drop(c) \/ DropKids(c) \/ DropList(c)
           \/ ListRows(c) \/ SetNone(c) \/ FillItem(c) \/ FillList(c)
           \/ Append(c) \/ Clear(c) \/ AppendItem(c) \/ Link(c)
           \/ UpdateKey(c) \/ DeleteRow(c) \/ Unlink(c) \/ UnlinkFrom(c) \/ Cut(c) \/ Relink(c)
           \/ DeleteKey(c)
    PROVE  SoundStep(c)
BY ReadParentsSound, SetSound, RefreshSound, WriteBackSound, GetItemSound, GetRowSound, GotSound,
   MembersSound, ValuesSound, RefreshListSound, DropSound, DropKidsSound, DropListSound,
   ListRowsSound, SetNoneSound, FillItemSound, FillListSound, AppendSound, ClearSound,
   AppendItemSound, LinkSound, UpdateKeySound, DeleteRowSound, UnlinkSound, UnlinkFromSound,
   CutSound, RelinkSound, DeleteKeySound
DEF SetAndRefresh

LEMMA StutterKeeps == IInv /\ UNCHANGED vars => IInv'
BY DEF vars, IInv, TypeInv, Tables, RowInv, Links

LEMMA NextIInv == IInv /\ [Next]_vars => IInv'
<1>. SUFFICES ASSUME IInv, [Next]_vars PROVE IInv'
  OBVIOUS
<1>1. ASSUME NEW c \in Calls, SetAndRefresh(c) \/ Get(c) \/ List(c) \/ InsertItem(c) \/ Write(c)
      PROVE  IInv'
  <2>1. CASE \E i \in Items : StartGet(c, i) \/ Insert(c, i) \/ Update(c, i) \/ Delete(c, i)
    BY <2>1, StartGetKeeps, InsertKeeps, UpdateKeeps, DeleteKeeps
  <2>2. CASE \E l \in Lists : StartList(c, l)
    BY <2>2, StartListKeeps
  <2>3. CASE SoundStep(c)
    BY <2>3, SoundStepKeeps
  <2>. QED BY <1>1, <2>1, <2>2, <2>3, RunningStep DEF IInv, Get, List, InsertItem, Write
<1>. QED BY <1>1, LoseItemKeeps, LoseListKeeps, StutterKeeps DEF Next

LEMMA Invariance == Spec => []IInv
BY InitIInv, NextIInv, PTL DEF Spec

-----------------------------------------------------------------------------
\* The state is well formed: every call is at a place its operation has, with what it needs
\* there (CacheMgr.ts, Sort.ts).
THEOREM TypeCorrect == Spec => []TypeOK
<1>1. IInv => TypeOK
  BY DEF IInv, TypeInv, Tables, Shape, TypeOK, Places
<1>. QED BY <1>1, Invariance, PTL

\* Of a settled row, what is cached under its key and what a call may find in the lists.
LEMMA SettledRow ==
    ASSUME IInv, NEW i \in Settled
    PROVE  /\ i \in Items
           /\ cell[i] # None => cell[i].value = row[i]
           /\ i \in Rows => (\A l \in Lists : Keeps(list[l], i))
                /\ \A c \in Calls : Sees(call[c], i)
<1>1. i \in Items \ raced /\ RowInv(i)
  BY DEF Settled, IInv
<1>2. \A c \in Calls : ~WritesIt(call[c], i)
  BY DEF Settled, Writing, WritesIt
<1>3. \A c \in Calls : ~Stale(call[c], i) /\ ~Inserts(call[c], i)
  BY <1>2 DEF Stale, Inserts, WritesIt, Writes
<1>. QED BY <1>1, <1>3 DEF RowInv, Rows

\* The cached row of a row that no write has raced is the row, once its writes are done: get(),
\* set(), deepDel() and the refreshing of lifetimes of other calls put nothing else there.
THEOREM CellsAreRows == Spec => []CellsFollowRows
<1>1. IInv => CellsFollowRows
  BY SettledRow DEF CellsFollowRows
<1>. QED BY <1>1, Invariance, PTL

\* A list that is cached has every such row that exists and is not marked empty, however
\* setList(), appendToList() and deepDel() of other rows interleave.
THEOREM ListsAreComplete == Spec => []ListsKeepRows
<1>1. IInv => ListsKeepRows
  BY SettledRow DEF ListsKeepRows, Keeps
<1>. QED BY <1>1, Invariance, PTL

\* A call that has the members of a list is moved by its MGET only.
LEMMA OnlyValues ==
    ASSUME IInv, Next, NEW c \in Calls, At(c, "values"), call'[c] # call[c]
    PROVE  Values(c)
<1>1. ASSUME NEW d \in Calls \ {c}, SetAndRefresh(d) \/ Get(d) \/ List(d) \/ InsertItem(d)
      \/ Write(d)
      PROVE  call'[c] = call[c]
  <2>1. CASE SoundStep(d)
    BY <2>1 DEF SoundStep
  <2>2. ASSUME NEW new, Begin(d, new) PROVE call'[c] = call[c]
    BY <2>2 DEF Begin, Now, IInv, TypeInv
  <2>. QED
    BY <1>1, <2>1, <2>2, RunningStep
    DEF IInv, Get, List, InsertItem, Write, StartGet, StartList, Insert, Update, Delete
<1>2. ASSUME SetAndRefresh(c) \/ Get(c) \/ List(c) \/ InsertItem(c) \/ Write(c)
      PROVE  Values(c)
  <2>1. call[c] # Idle
    BY DEF At, Idle
  <2>. QED
    BY <1>2, <2>1
    DEF At, SetAndRefresh, ReadParents, Set, Refresh, WriteBack, Get, StartGet, GetItem, GetRow,
        Got,
        List, StartList, Members, RefreshList, Drop, DropKids, DropList, ListRows, SetNone,
            FillItem,
        FillList, InsertItem, Insert, Append, Clear, AppendItem, Link, Write, Update, UpdateKey,
        Delete, DeleteRow, Unlink, UnlinkFrom, Cut, Relink, DeleteKey, Begin
<1>3. ASSUME NEW i \in Items, LoseItem(i) PROVE call' = call
  BY <1>3 DEF LoseItem
<1>4. ASSUME NEW l \in Lists, LoseList(l) PROVE call' = call
  BY <1>4 DEF LoseList
<1>. QED BY <1>1, <1>2, <1>3, <1>4 DEF Next

\* A list that is served from the cache has the settled rows that exist, and each as it is:
\* the hazard of getList(), which trusts the members of a list and the keys of the rows.
THEOREM ServedAsTheyAre == Spec => ServedRight
<1>1. ASSUME IInv, [Next]_vars, NEW c \in Calls,
             call[c].op = "list", At(c, "values"), call'[c].at \in {"idle", "refreshList"},
             NEW i \in Settled
      PROVE  /\ i \in call[c].seen <=> i \in Rows
             /\ i \in Rows => cell[i] # None /\ cell[i].value = row[i]
  <2>1. Values(c)
    BY <1>1, OnlyValues DEF vars, At
  <2>2. Complete(c)
    <3>. SUFFICES ASSUME ~Complete(c) PROVE FALSE
      OBVIOUS
    <3>. DEFINE new == [at |-> "drop", back |-> NotServed(c), seen |-> {},
                        drops |-> UNION {Parents(cell[k]) : k \in call[c].seen}]
    <3>1. Now(c, new)
      BY <2>1 DEF Values
    <3>2. "at" \in DOMAIN new /\ DOMAIN new \subseteq Fields /\ new["at"] = "drop"
      BY DEF Fields
    <3>. HIDE DEF new
    <3>3. call'[c]["at"] = "drop"
      BY <1>1, <3>1, <3>2, NowIs DEF IInv
    <3>. QED BY <1>1, <3>3
  <2>3. i \in Items /\ cell[i] \in Cells \cup {None}
    BY <1>1, SettledRow DEF IInv, TypeInv, Tables
  <2>4. i \in call[c].seen => cell[i] # None /\ cell[i].value = row[i] /\ i \in Rows
    BY <1>1, <2>2, <2>3, SettledRow DEF Complete, Cached, Cells, Rows
  <2>5. i \in Rows => i \in call[c].seen
    BY <1>1, SettledRow DEF Sees, At
  <2>. QED BY <2>4, <2>5
<1>2. IInv /\ [Next]_vars =>
        [\A c \in Calls :
           call[c].op = "list" /\ At(c, "values") /\ call'[c].at \in {"idle", "refreshList"} =>
             \A i \in Settled : /\ i \in call[c].seen <=> i \in Rows
                                /\ i \in Rows => cell[i] # None /\ cell[i].value = row[i]]_vars
  BY <1>1
<1>. QED BY <1>2, Invariance, PTL DEF Spec, ServedRight
=============================================================================
