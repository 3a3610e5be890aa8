-------------------------- MODULE DeliveryProofs --------------------------
(* What the rows of a book say of its servers is so, and a reconcile that  *)
(* did not fail fills the collection: the inductive invariant of Delivery  *)
(* and what follows from it.                                               *)
EXTENDS Delivery, TLAPS, FiniteSetTheorems, SequenceTheorems

-----------------------------------------------------------------------------
(* The inductive invariant *)

Row == [state : States, tries : Nat, item : Items, error : BOOLEAN,
        ops : [Ops -> Status]]
Local == [book : Books \cup {NoBook}, item : Items, box : Nat, ops : [Ops -> Status],
          row : Row, list : SUBSET Books, pairs : SUBSET (Books \X Books),
          todo : SUBSET Books, ids : [Books -> Items], cut : BOOLEAN]

AtServer == {"scan", "match", "look", "create", "add", "tag"}
FanPCs   == AtServer \cup {"queued", "read", "write", "done"}
Grouping == {"look", "create", "add"}
Listing  == {"matching", "matched", "load", "identity"}
SweepPCs == {"idle", "queued", "refresh", "list", "done", "failed"}
            \cup Listing \cup Grouping

ServerTypes ==
    /\ kind \in Layouts
    /\ indexed \in [Dests -> SUBSET Books]
    /\ tagged \in [Dests -> SUBSET Items]
    /\ boxes \in [Dests -> Seq(SUBSET Items)]
RowTypes ==
    /\ complete \subseteq Books
    /\ rows \in [Books -> [Dests -> Row]]
WorkerTypes ==
    /\ pc \in [Visits -> [Dests -> FanPCs \cup SweepPCs]]
    /\ loc \in [Visits -> [Dests -> Local]]
FlowTypes ==
    /\ visited \in [Fans -> Books \cup {NoBook}]
    /\ phase \in {"idle", "scan", "reconcile"}
    /\ cancelled \subseteq Fans /\ hurt \subseteq Dests /\ stirred \subseteq Books
    /\ sweeps \in Nat
    /\ budget \in [Faults -> Nat] /\ budget["db"] <= Budget["db"]
Types == ServerTypes /\ RowTypes /\ WorkerTypes /\ FlowTypes

(* A fan-out or a sweep never runs more workers than it may.               *)
Semaphore == \A v \in Visits : Cardinality(Working(v)) <= MaxConcurrency

(* A row counts at most the attempts of the fan-outs that have ended.      *)
Tried(d) == {f \in Fans : pc[f][d] = "done"}
Counted ==
    \A d \in Dests :
       /\ \A b \in Books : rows[b][d].tries <= Cardinality(Tried(d)) + 1
       /\ \A v \in Visits : loc[v][d].row.tries <= Cardinality(Tried(d)) + 1

(* The collection that a worker has found is one of the server's.          *)
Boxed == \A v \in Visits, d \in Dests : loc[v][d].box <= Len(boxes[d])

(* An item that may stand for the book: one with its title, or with a      *)
(* longer one.                                                             *)
Stand(b) == Named(b) \cup Within[b]

(* What a fan-out has found out of its book, at the place it is at.        *)
FanHolds(f, d) ==
    LET me == loc[f][d] IN
    /\ visited[f] = NoBook <=> pc[f][d] = "idle"
    /\ pc[f][d] \in FanPCs \cup {"idle"}
    /\ pc[f][d] \in FanPCs \ {"done"} => me.book = visited[f]
    /\ pc[f][d] \in {"look", "create", "add", "tag"} => me.item \in Stand(me.book)
    /\ pc[f][d] = "add" => me.box # 0
    /\ pc[f][d] \in {"queued", "scan", "match"} => me.ops["group"] # "ok"
    /\ me.ops["group"] = "ok" => me.item \in Stand(me.book) /\ InGroup(d, me.item)
FansHold == \A f \in Fans, d \in Dests : FanHolds(f, d)

(* Whatever else may have been written since, a row tells the truth.       *)
Grouped(d, b, row) ==
    row.ops["group"] = "ok" =>
       \/ row.item = b /\ InGroup(d, b)
       \/ \E i \in Lookalikes(b) : InGroup(d, i)
Honest(row) == row.state # "failed" => \A o \in Ops : row.ops[o] # "failed"
RowsTrue == \A b \in Books, d \in Dests : Grouped(d, b, rows[b][d]) /\ Honest(rows[b][d])

(* What is still to be matched: listed items against books of their title. *)
Paired(m) == \A p \in m.pairs : p[1] \in Named(p[2]) \cap m.list

(* Where the sweep's worker is, and the row that it is about to write back.*)
SweepHolds(d) ==
    LET me == loc[Sweep][d] IN
    /\ pc[Sweep][d] \in SweepPCs
    /\ pc[Sweep][d] \in {"list"} \cup Listing \cup Grouping => phase = "reconcile"
    /\ pc[Sweep][d] = "refresh" => phase = "scan"
    /\ pc[Sweep][d] = "queued" => phase # "idle"
    /\ pc[Sweep][d] \in {"matching", "matched"} => Paired(me)
    /\ pc[Sweep][d] = "matched" =>
          /\ <<me.item, me.book>> \in me.pairs
          /\ Grouped(d, me.book, me.row) /\ Honest(me.row)
SweepsHold == \A d \in Dests : SweepHolds(d)

(* A fan-out that was not cancelled, with no failing statement, leaves a   *)
(* row wherever it is done.                                                *)
Reported ==
    budget["db"] = Budget["db"] =>
       \A f \in Fans \ cancelled, d \in Enabled :
          pc[f][d] = "done" => rows[visited[f]][d] # NoRow

DeliveryInv ==
    /\ Types /\ Semaphore /\ Counted /\ Boxed /\ FansHold /\ RowsTrue /\ SweepsHold
    /\ Reported

-----------------------------------------------------------------------------
(* The invariant of a reconcile without failures *)

(* What a listing holds was complete.                                      *)
ListsComplete ==
    /\ \A d \in Dests : indexed[d] \subseteq complete
    /\ \A d \in Dests : loc[Sweep][d].list \subseteq complete

(* A listed book of the series has an item of its title in its row once    *)
(* its own was looked at, and is to be added, or was, from the moment the  *)
(* rows were read: so a worker has it that is at the place with the locals *)
(* me.                                                                     *)
Filled(d, at, me) ==
    /\ at \in {"matching", "matched", "load"} =>
          \A b \in me.list \ stirred :
             rows[b][d].item \in Named(b) \cap me.list \/ <<b, b>> \in me.pairs
    /\ at = "load" => me.pairs = {}
    /\ at \in {"identity"} \cup Grouping =>
          \A b \in (me.list \cap InSeries) \ stirred :
             /\ me.ids[b] \in Named(b) \cap me.list
             /\ b \in me.todo \/ (at = "add" /\ InGroup(d, me.ids[b]))
    /\ at = "add" /\ me.todo # {} => me.box # 0
FillAt(d) ==
    kind[d] \in {"plex", "emby"} /\ d \notin hurt =>
       Filled(d, pc[Sweep][d], loc[Sweep][d])
Fills == \A d \in Dests : FillAt(d)

FillInv == DeliveryInv /\ ListsComplete /\ Fills
-----------------------------------------------------------------------------
(* The model's operators *)

(* The outcomes of a call replace those of the same name and no other.     *)
LEMMA Outcomes ==
    ASSUME NEW o \in [Ops -> Status]
    PROVE  /\ LET new == With(o, [match |-> "ok"]) IN
                 new \in [Ops -> Status] /\ new["group"] = o["group"]
           /\ \A s \in Status : LET new == With(o, [scan |-> s]) IN
                 new \in [Ops -> Status] /\ new["group"] = o["group"]
           /\ \A s \in Status : LET new == With(o, [tag |-> s]) IN
                 new \in [Ops -> Status] /\ new["group"] = o["group"]
           /\ LET new == With(o, [group |-> "ok"]) IN
                 new \in [Ops -> Status] /\ new["group"] = "ok"
           /\ LET new == With(o, [group |-> "existing"]) IN
                 new \in [Ops -> Status] /\ new["group"] = "existing"
           /\ LET new == With(o, [group |-> "failed"]) IN
                 new \in [Ops -> Status] /\ new["group"] = "failed"
           /\ LET new == With(o, [match |-> "failed", group |-> "deferred"]) IN
                 new \in [Ops -> Status] /\ new["group"] = "deferred"
           /\ LET new == With(o, [match |-> "deferred", group |-> "deferred"]) IN
                 new \in [Ops -> Status] /\ new["group"] = "deferred"
           /\ LET new == With(o, [group |-> "failed", tag |-> "deferred"]) IN
                 new \in [Ops -> Status] /\ new["group"] = "failed"
           /\ LET new == With(o, [match |-> "failed", group |-> "deferred",
                                 tag |-> "deferred"]) IN
                 new \in [Ops -> Status] /\ new["group"] = "deferred"
<1>1. "group" \in Ops /\ DOMAIN o = Ops
  BY DEF Ops
<1>2. ASSUME NEW f, \A x \in Ops \cap DOMAIN f : f[x] \in Status
      PROVE  /\ With(o, f) \in [Ops -> Status]
             /\ With(o, f)["group"] = IF "group" \in DOMAIN f THEN f["group"]
                                      ELSE o["group"]
  BY <1>1, <1>2 DEF With
<1>3. /\ With(o, [match |-> "ok"]) \in [Ops -> Status]
      /\ With(o, [match |-> "ok"])["group"] = o["group"]
  BY <1>2 DEF Status
<1>4. ASSUME NEW s \in Status
      PROVE  /\ With(o, [scan |-> s]) \in [Ops -> Status]
             /\ With(o, [scan |-> s])["group"] = o["group"]
  BY <1>2 DEF Status
<1>5. ASSUME NEW s \in Status
      PROVE  /\ With(o, [tag |-> s]) \in [Ops -> Status]
             /\ With(o, [tag |-> s])["group"] = o["group"]
  BY <1>2 DEF Status
<1>6. /\ With(o, [group |-> "ok"]) \in [Ops -> Status]
      /\ With(o, [group |-> "ok"])["group"] = "ok"
  BY <1>2 DEF Status
<1>7. /\ With(o, [group |-> "existing"]) \in [Ops -> Status]
      /\ With(o, [group |-> "existing"])["group"] = "existing"
  BY <1>2 DEF Status
<1>8. /\ With(o, [group |-> "failed"]) \in [Ops -> Status]
      /\ With(o, [group |-> "failed"])["group"] = "failed"
  BY <1>2 DEF Status
<1>9. /\ With(o, [match |-> "failed", group |-> "deferred"]) \in [Ops -> Status]
      /\ With(o, [match |-> "failed", group |-> "deferred"])["group"] = "deferred"
  BY <1>2 DEF Status
<1>10. /\ With(o, [match |-> "deferred", group |-> "deferred"]) \in [Ops -> Status]
       /\ With(o, [match |-> "deferred", group |-> "deferred"])["group"] = "deferred"
  BY <1>2 DEF Status
<1>11. /\ With(o, [group |-> "failed", tag |-> "deferred"]) \in [Ops -> Status]
       /\ With(o, [group |-> "failed", tag |-> "deferred"])["group"] = "failed"
  BY <1>2 DEF Status
<1>12. /\ With(o, [match |-> "failed", group |-> "deferred", tag |-> "deferred"]) \in [Ops -> Status]
       /\ With(o, [match |-> "failed", group |-> "deferred", tag |-> "deferred"])["group"] = "deferred"
  BY <1>2 DEF Status
<1> QED BY <1>3, <1>4, <1>5, <1>6, <1>7, <1>8, <1>9, <1>10, <1>11, <1>12

(* A worker that notes something changes the locals that hold it and no    *)
(* other: the outcomes of its calls, its item, its collection, what it has *)
(* still to look at, what was listed, the ids, a row, a deadline.          *)
LEMMA LocalsOps ==
    ASSUME NEW m \in Local,
           NEW o \in [Ops -> Status]
    PROVE  LET new == With(m, [ops |-> o]) IN
           /\ new \in Local
           /\ new.ops = o
           /\ new.book = m.book /\ new.item = m.item /\ new.box = m.box
           /\ new.row = m.row /\ new.list = m.list /\ new.pairs = m.pairs
           /\ new.todo = m.todo /\ new.ids = m.ids /\ new.cut = m.cut
BY DEF With, Local

(* The same, where it notes its outcomes and its item.                     *)
LEMMA LocalsItem ==
    ASSUME NEW m \in Local,
           NEW o \in [Ops -> Status], NEW i \in Items
    PROVE  LET new == With(m, [ops |-> o, item |-> i]) IN
           /\ new \in Local
           /\ new.ops = o /\ new.item = i
           /\ new.book = m.book /\ new.box = m.box /\ new.row = m.row
           /\ new.list = m.list /\ new.pairs = m.pairs /\ new.todo = m.todo
           /\ new.ids = m.ids /\ new.cut = m.cut
BY DEF With, Local

(* The same, where it notes its collection.                                *)
LEMMA LocalsBox ==
    ASSUME NEW m \in Local,
           NEW n \in Nat
    PROVE  LET new == With(m, [box |-> n]) IN
           /\ new \in Local
           /\ new.box = n
           /\ new.book = m.book /\ new.item = m.item /\ new.ops = m.ops
           /\ new.row = m.row /\ new.list = m.list /\ new.pairs = m.pairs
           /\ new.todo = m.todo /\ new.ids = m.ids /\ new.cut = m.cut
BY DEF With, Local

(* The same, where it notes what it has still to look at.                  *)
LEMMA LocalsTodo ==
    ASSUME NEW m \in Local,
           NEW T \in SUBSET Books
    PROVE  LET new == With(m, [todo |-> T]) IN
           /\ new \in Local
           /\ new.todo = T
           /\ new.book = m.book /\ new.item = m.item /\ new.box = m.box
           /\ new.ops = m.ops /\ new.row = m.row /\ new.list = m.list
           /\ new.pairs = m.pairs /\ new.ids = m.ids /\ new.cut = m.cut
BY DEF With, Local

(* The same, where it notes what was listed and is to be matched.          *)
LEMMA LocalsList ==
    ASSUME NEW m \in Local,
           NEW L \in SUBSET Books, NEW P \in SUBSET (Books \X Books)
    PROVE  LET new == With(m, [list |-> L, pairs |-> P]) IN
           /\ new \in Local
           /\ new.list = L /\ new.pairs = P
           /\ new.book = m.book /\ new.item = m.item /\ new.box = m.box
           /\ new.ops = m.ops /\ new.row = m.row /\ new.todo = m.todo
           /\ new.ids = m.ids /\ new.cut = m.cut
BY DEF With, Local

(* The same, where it notes an item and what is still to be matched.       *)
LEMMA LocalsPairs ==
    ASSUME NEW m \in Local,
           NEW i \in Items, NEW P \in SUBSET (Books \X Books)
    PROVE  LET new == With(m, [item |-> i, pairs |-> P]) IN
           /\ new \in Local
           /\ new.item = i /\ new.pairs = P
           /\ new.book = m.book /\ new.box = m.box /\ new.ops = m.ops
           /\ new.row = m.row /\ new.list = m.list /\ new.todo = m.todo
           /\ new.ids = m.ids /\ new.cut = m.cut
BY DEF With, Local

(* The same, where it is done with the items.                              *)
LEMMA LocalsNoItem ==
    ASSUME NEW m \in Local,
           NEW i \in Items
    PROVE  LET new == With(m, [item |-> i]) IN
           /\ new \in Local
           /\ new.item = i
           /\ new.book = m.book /\ new.box = m.box /\ new.ops = m.ops
           /\ new.row = m.row /\ new.list = m.list /\ new.pairs = m.pairs
           /\ new.todo = m.todo /\ new.ids = m.ids /\ new.cut = m.cut
BY DEF With, Local

(* The same, where it notes the item ids.                                  *)
LEMMA LocalsIds ==
    ASSUME NEW m \in Local,
           NEW T \in SUBSET Books, NEW x \in [Books -> Items]
    PROVE  LET new == With(m, [todo |-> T, ids |-> x]) IN
           /\ new \in Local
           /\ new.todo = T /\ new.ids = x
           /\ new.book = m.book /\ new.item = m.item /\ new.box = m.box
           /\ new.ops = m.ops /\ new.row = m.row /\ new.list = m.list
           /\ new.pairs = m.pairs /\ new.cut = m.cut
BY DEF With, Local

(* The same, where it notes an item, and a book with its row.              *)
LEMMA LocalsRead ==
    ASSUME NEW m \in Local,
           NEW i \in Items, NEW b \in Books \cup {NoBook}, NEW r \in Row
    PROVE  LET new == With(m, [item |-> i, book |-> b, row |-> r]) IN
           /\ new \in Local
           /\ new.item = i /\ new.book = b /\ new.row = r
           /\ new.box = m.box /\ new.ops = m.ops /\ new.list = m.list
           /\ new.pairs = m.pairs /\ new.todo = m.todo /\ new.ids = m.ids
           /\ new.cut = m.cut
BY DEF With, Local

(* The same, where it notes that the row is written.                       *)
LEMMA LocalsWritten ==
    ASSUME NEW m \in Local,
           NEW b \in Books \cup {NoBook}, NEW r \in Row, NEW P \in SUBSET (Books \X Books)
    PROVE  LET new == With(m, [book |-> b, row |-> r, pairs |-> P]) IN
           /\ new \in Local
           /\ new.book = b /\ new.row = r /\ new.pairs = P
           /\ new.item = m.item /\ new.box = m.box /\ new.ops = m.ops
           /\ new.list = m.list /\ new.todo = m.todo /\ new.ids = m.ids
           /\ new.cut = m.cut
BY DEF With, Local

(* The same, where it notes the row.                                       *)
LEMMA LocalsRow ==
    ASSUME NEW m \in Local,
           NEW r \in Row
    PROVE  LET new == With(m, [row |-> r]) IN
           /\ new \in Local
           /\ new.row = r
           /\ new.book = m.book /\ new.item = m.item /\ new.box = m.box
           /\ new.ops = m.ops /\ new.list = m.list /\ new.pairs = m.pairs
           /\ new.todo = m.todo /\ new.ids = m.ids /\ new.cut = m.cut
BY DEF With, Local

(* The same, where it notes that its time is over.                         *)
LEMMA LocalsCut ==
    ASSUME NEW m \in Local
    PROVE  LET new == With(m, [cut |-> TRUE]) IN
           /\ new \in Local
           /\ new.cut = TRUE
           /\ new.book = m.book /\ new.item = m.item /\ new.box = m.box
           /\ new.ops = m.ops /\ new.row = m.row /\ new.list = m.list
           /\ new.pairs = m.pairs /\ new.todo = m.todo /\ new.ids = m.ids
BY DEF With, Local

(* The initial locals are locals, with an outcome for nothing.             *)
LEMMA FreshLocal ==
    /\ NoRow \in Row /\ Fresh \in Local
    /\ \A b \in Books : [Fresh EXCEPT !.book = b] \in Local
    /\ Fresh.ops["group"] = "none" /\ NoRow.ops["group"] = "none"
<1>1. [o \in Ops |-> "none"] \in [Ops -> Status] /\ "group" \in Ops
  BY DEF Ops, Status
<1>2. NoRow \in Row
  BY <1>1 DEF NoRow, Row, States, Items, NoItem
<1>3. [b \in Books |-> NoItem] \in [Books -> Items]
  BY DEF Items
<1>4. Fresh \in Local
  BY <1>1, <1>2, <1>3 DEF Fresh, Local, Items, NoItem
<1>5. \A b \in Books : [Fresh EXCEPT !.book = b] \in Local
  BY <1>4 DEF Local
<1> QED BY <1>1, <1>2, <1>4, <1>5 DEF Fresh, NoRow

-----------------------------------------------------------------------------
(* The servers: nothing that is in the series there is taken out of it *)

ServersGrow ==
    /\ kind' = kind
    /\ \A d \in Dests : /\ Len(boxes[d]) <= Len(boxes'[d])
                        /\ \A i \in Items : InGroup(d, i) => InGroup(d, i)'

(* A call that changes no server.                                          *)
LEMMA ServersStill ==
    ASSUME ServerTypes, kind' = kind, UNCHANGED serverVars
    PROVE  ServerTypes' /\ ServersGrow
<1>1. ServerTypes'
  BY DEF ServerTypes, serverVars
<1>2. ServersGrow
  BY DEF ServerTypes, serverVars, ServersGrow, InGroup
<1> QED BY <1>1, <1>2

(* A new collection is the last one, and holds what it was made with.      *)
LEMMA NewBoxGrows ==
    ASSUME ServerTypes, kind' = kind, UNCHANGED <<indexed, tagged>>,
           NEW d \in Dests, NEW S \in SUBSET Items, NewBox(d, S)
    PROVE  /\ ServerTypes' /\ ServersGrow
           /\ Len(boxes'[d]) = Len(boxes[d]) + 1
<1>1. /\ boxes[d] \in Seq(SUBSET Items) /\ boxes'[d] = Append(boxes[d], S)
      /\ \A e \in Dests \ {d} : boxes'[e] = boxes[e]
  BY DEF ServerTypes, NewBox
<1>2. /\ boxes'[d] \in Seq(SUBSET Items) /\ Len(boxes'[d]) = Len(boxes[d]) + 1
      /\ \A n \in DOMAIN boxes[d] : n \in DOMAIN boxes'[d] /\ boxes'[d][n] = boxes[d][n]
  BY <1>1
<1>3. boxes' \in [Dests -> Seq(SUBSET Items)]
  BY <1>2 DEF ServerTypes, NewBox
<1>4. \A e \in Dests : Len(boxes[e]) <= Len(boxes'[e])
  <2> TAKE e \in Dests
  <2>1. Len(boxes[e]) \in Nat
    BY DEF ServerTypes
  <2> QED BY <1>1, <1>2, <2>1
<1>5. \A e \in Dests, i \in Items : InGroup(e, i) => InGroup(e, i)'
  BY <1>1, <1>2 DEF InGroup
<1> QED BY <1>2, <1>3, <1>4, <1>5 DEF ServerTypes, ServersGrow

(* An item that is put in a collection of the server is in the series.     *)
LEMMA PutInBoxGrows ==
    ASSUME ServerTypes, kind' = kind, UNCHANGED <<indexed, tagged>>,
           NEW d \in Dests, NEW n \in Nat, NEW i \in Items, PutInBox(d, n, i)
    PROVE  /\ ServerTypes' /\ ServersGrow
           /\ Len(boxes'[d]) = Len(boxes[d])
           /\ n \in 1..Len(boxes[d]) /\ kind[d] # "abs" => InGroup(d, i)'
<1>1. /\ boxes[d] \in Seq(SUBSET Items)
      /\ boxes'[d] = [boxes[d] EXCEPT ![n] = @ \cup {i}]
      /\ \A e \in Dests \ {d} : boxes'[e] = boxes[e]
  BY DEF ServerTypes, PutInBox
<1>2. /\ boxes'[d] \in Seq(SUBSET Items) /\ Len(boxes'[d]) = Len(boxes[d])
      /\ \A k \in DOMAIN boxes[d] : k \in DOMAIN boxes'[d] /\ boxes[d][k] \subseteq boxes'[d][k]
      /\ n \in 1..Len(boxes[d]) => n \in DOMAIN boxes'[d] /\ i \in boxes'[d][n]
  <2> DEFINE old == boxes[d]
             new == [old EXCEPT ![n] = @ \cup {i}]
  <2>1. old \in Seq(SUBSET Items)
    BY <1>1
  <2>2. new \in Seq(SUBSET Items) /\ Len(new) = Len(old) /\ DOMAIN new = DOMAIN old
    <3>1. CASE n \in 1..Len(old)
      <4>1. old[n] \cup {i} \in SUBSET Items
        BY <2>1, <3>1
      <4> QED BY <2>1, <3>1, <4>1, ExceptSeq
    <3>2. CASE n \notin 1..Len(old)
      <4>1. new = old
        BY <2>1, <3>2
      <4> QED BY <2>1, <4>1
    <3> QED BY <3>1, <3>2
  <2>3. /\ \A k \in DOMAIN old : old[k] \subseteq new[k]
        /\ n \in 1..Len(old) => n \in DOMAIN new /\ i \in new[n]
    BY <2>1, <2>2
  <2> QED BY <1>1, <2>2, <2>3
<1>3. boxes' \in [Dests -> Seq(SUBSET Items)]
  BY <1>2 DEF ServerTypes, PutInBox
<1>4. \A e \in Dests : Len(boxes[e]) <= Len(boxes'[e])
  <2> TAKE e \in Dests
  <2>1. Len(boxes[e]) \in Nat
    BY DEF ServerTypes
  <2> QED BY <1>1, <1>2, <2>1
<1>5. \A e \in Dests, j \in Items : InGroup(e, j) => InGroup(e, j)'
  BY <1>1, <1>2 DEF InGroup
<1>6. n \in 1..Len(boxes[d]) /\ kind[d] # "abs" => InGroup(d, i)'
  BY <1>2 DEF InGroup
<1> QED BY <1>2, <1>3, <1>4, <1>5, <1>6 DEF ServerTypes, ServersGrow

(* So is one that ABS is told the series of.                               *)
LEMMA TaggedGrows ==
    ASSUME ServerTypes, kind' = kind, UNCHANGED <<indexed, boxes>>,
           NEW d \in Dests, NEW i \in Items,
           tagged' = [tagged EXCEPT ![d] = @ \cup {i}]
    PROVE  /\ ServerTypes' /\ ServersGrow
           /\ kind[d] = "abs" => InGroup(d, i)'
<1>1. tagged'[d] = tagged[d] \cup {i} /\ \A e \in Dests \ {d} : tagged'[e] = tagged[e]
  BY DEF ServerTypes
<1>2. ServerTypes'
  BY DEF ServerTypes
<1>3. ServersGrow
  <2>1. \A e \in Dests : Len(boxes[e]) <= Len(boxes'[e])
    BY DEF ServerTypes
  <2> QED BY <1>1, <2>1 DEF ServersGrow, InGroup
<1>4. kind[d] = "abs" => InGroup(d, i)'
  BY <1>1 DEF InGroup
<1> QED BY <1>2, <1>3, <1>4

-----------------------------------------------------------------------------
(* The calls of a visit *)

Falls == budget' \in [Faults -> Nat] /\ budget'["db"] <= budget["db"]

(* A fault that is spent leaves no more faults than there were.            *)
LEMMA Spending ==
    ASSUME budget \in [Faults -> Nat], NEW k \in Faults, Spend(k)
    PROVE  Falls /\ (k = "db" => budget'["db"] < budget["db"])
BY DEF Spend, Falls, Faults

(* A call that succeeds or fails spends at most a fault, and only a call   *)
(* of the sweep is remembered as one that hurt it.                         *)
LEMMA Calling ==
    ASSUME budget \in [Faults -> Nat], NEW v \in Visits, NEW d \in Dests,
           NEW k \in Faults, Ok(v, d) \/ Err(v, d, k)
    PROVE  Falls /\ hurt' \in {hurt, IF v = Sweep THEN hurt \cup {d} ELSE hurt}
<1>1. UNCHANGED budget => Falls
  BY DEF Falls, Faults
<1>2. Spend(k) => Falls
  BY Spending
<1>3. UNCHANGED budget \/ Spend(k)
  BY DEF Ok, Err
<1> QED BY <1>1, <1>2, <1>3 DEF Ok, Err

(* What a worker has at the place l with the locals m.                     *)
Holds(d, l, m) ==
    /\ m \in Local
    /\ l \in {"look", "create", "add", "tag"} => m.item \in Stand(m.book)
    /\ l = "add" => m.box # 0
    /\ l \in {"scan", "match"} => m.ops["group"] # "ok"
    /\ m.ops["group"] = "ok" => m.item \in Stand(m.book) /\ InGroup(d, m.item)
    /\ m.box <= Len(boxes[d])

Goes(v, d, l, m) ==
    /\ pc' = [pc EXCEPT ![v][d] = l]
    /\ loc' = [loc EXCEPT ![v][d] = m]

(* The worker of a visit goes on to l, with the locals m.                  *)
VisitTo(f, d, l, m) ==
    /\ pc[f][d] \in AtServer /\ l \in AtServer \cup {"read"}
    /\ Goes(f, d, l, m)
    /\ m.book = loc[f][d].book /\ m.row = loc[f][d].row
    /\ Holds(d, l, m)'

Visited(f, d) ==
    /\ ServerTypes' /\ ServersGrow /\ Falls /\ hurt' = hurt
    /\ \E l \in AtServer \cup {"read"}, m \in Local : VisitTo(f, d, l, m)

(* What a visit's worker holds now.                                        *)
LEMMA VisitHolds ==
    ASSUME DeliveryInv, NEW f \in Fans, NEW d \in Dests, pc[f][d] \in AtServer
    PROVE  /\ f \in Visits /\ f # Sweep
           /\ Holds(d, pc[f][d], loc[f][d])
           /\ visited[f] \in Books /\ loc[f][d].book = visited[f]
<1>1. f \in Visits /\ f # Sweep
  BY MediaServerAssumption DEF Visits
<1>2. FanHolds(f, d) /\ loc[f][d].box <= Len(boxes[d]) /\ loc[f][d] \in Local
  BY <1>1 DEF DeliveryInv, FansHold, Boxed, Types, WorkerTypes
<1>3. pc[f][d] \in FanPCs \ {"done"} /\ pc[f][d] # "idle"
  BY DEF AtServer, FanPCs
<1>4. loc[f][d].book = visited[f] /\ visited[f] # NoBook
  BY <1>2, <1>3 DEF FanHolds
<1> QED BY <1>1, <1>2, <1>4 DEF FanHolds, Holds, DeliveryInv, Types, FlowTypes

(* A call after which nothing but the outcomes o, the item i and the       *)
(* place l of the worker have changed, the servers having only grown.      *)
LEMMA VisitSays ==
    ASSUME DeliveryInv, NEW f \in Fans, NEW d \in Dests, pc[f][d] \in AtServer,
           ServersGrow, ServerTypes',
           NEW l \in AtServer \cup {"read"}, NEW m \in Local, Goes(f, d, l, m),
           m.book = loc[f][d].book, m.row = loc[f][d].row, m.box <= Len(boxes'[d]),
           l = "add" => m.box # 0,
           l \in {"scan", "match"} => m.ops["group"] # "ok",
           l \in {"look", "create", "add", "tag"} => m.item \in Stand(m.book),
           m.ops["group"] = "ok" => m.item \in Stand(m.book) /\ InGroup(d, m.item)'
    PROVE  VisitTo(f, d, l, m)
BY DEF VisitTo, Holds

(* A call that changes of the worker only the outcomes.                    *)
LEMMA Saying ==
    ASSUME DeliveryInv, NEW f \in Fans, NEW d \in Dests, pc[f][d] \in AtServer,
           ServerTypes', ServersGrow,
           NEW o \in [Ops -> Status], o["group"] \in {loc[f][d].ops["group"], "failed",
                                                      "deferred", "existing"},
           NEW l \in {"match", "tag", "read"}, l = "match" => pc[f][d] = "scan",
           l = "tag" => pc[f][d] \in {"look", "create", "add", "tag"},
           Goes(f, d, l, With(loc[f][d], [ops |-> o]))
    PROVE  \E m \in Local : VisitTo(f, d, l, m)
<1> DEFINE me == loc[f][d]
           new == With(me, [ops |-> o])
<1>1. me \in Local /\ Holds(d, pc[f][d], me)
  BY VisitHolds DEF Holds
<1>2. Len(boxes[d]) \in Nat /\ Len(boxes'[d]) \in Nat
  BY DEF DeliveryInv, Types, ServerTypes
<1>3. PICK m \in Local :
          /\ m = new /\ m.ops = o /\ m.book = me.book /\ m.item = me.item
          /\ m.box = me.box /\ m.row = me.row
  BY <1>1, LocalsOps
<1>4. l \in AtServer \cup {"read"} /\ l \notin {"add", "look", "create", "scan"}
  BY DEF AtServer
<1>5. m.box <= Len(boxes'[d])
  BY <1>1, <1>2, <1>3 DEF Holds, ServersGrow, Local
<1>6. /\ l = "tag" => m.item \in Stand(m.book)
      /\ l = "match" => m.ops["group"] # "ok"
  BY <1>1, <1>3 DEF Holds
<1>7. m.ops["group"] = "ok" => m.item \in Stand(m.book) /\ InGroup(d, m.item)'
  <2>1. m.ops["group"] = "ok" => m.item \in Stand(m.book) /\ InGroup(d, m.item)
    BY <1>1, <1>3 DEF Holds
  <2>2. m.item \in Items
    BY DEF Local
  <2> QED BY <2>1, <2>2 DEF ServersGrow
<1>8. VisitTo(f, d, l, m)
  BY <1>3, <1>4, <1>5, <1>6, <1>7, VisitSays
<1> QED BY <1>8

(* A call that finds the item of the book, or of one with a longer title.  *)
LEMMA Matching ==
    ASSUME DeliveryInv, NEW f \in Fans, NEW d \in Dests, pc[f][d] = "match",
           kind' = kind, UNCHANGED serverVars,
           NEW i \in Stand(loc[f][d].book) \cap Items, NEW l \in {"look", "read"},
           Goes(f, d, l, With(loc[f][d], [ops |-> With(loc[f][d].ops, [match |-> "ok"]),
                                          item |-> i]))
    PROVE  /\ ServerTypes' /\ ServersGrow
           /\ \E m \in Local : VisitTo(f, d, l, m)
<1> DEFINE me == loc[f][d]
           o   == With(me.ops, [match |-> "ok"])
           new == With(me, [ops |-> o, item |-> i])
<1>0. pc[f][d] \in AtServer
  BY DEF AtServer
<1>1. me \in Local /\ Holds(d, pc[f][d], me)
  BY <1>0, VisitHolds DEF Holds
<1>2. ServerTypes' /\ ServersGrow /\ boxes' = boxes
  BY ServersStill DEF DeliveryInv, Types, serverVars
<1>3. o \in [Ops -> Status] /\ o["group"] # "ok"
  <2>1. me.ops \in [Ops -> Status]
    BY <1>1 DEF Local
  <2> QED BY <1>1, <2>1, Outcomes DEF Holds
<1>4. PICK m \in Local :
          /\ m = new /\ m.ops = o /\ m.book = me.book /\ m.item = i
          /\ m.box = me.box /\ m.row = me.row
  BY <1>1, <1>3, LocalsItem
<1>5. m.box <= Len(boxes'[d])
  BY <1>1, <1>2, <1>4 DEF Holds
<1>6. VisitTo(f, d, l, m)
  BY <1>0, <1>2, <1>3, <1>4, <1>5, VisitSays DEF AtServer
<1> QED BY <1>2, <1>6

(* A call after which the worker goes on with what it has.                 *)
LEMMA GoingOn ==
    ASSUME DeliveryInv, NEW f \in Fans, NEW d \in Dests, pc[f][d] = "look",
           ServerTypes', ServersGrow, NEW l \in {"create", "tag"},
           Goto(f, d, l), UNCHANGED loc
    PROVE  \E m \in Local : VisitTo(f, d, l, m)
<1> DEFINE me == loc[f][d]
<1>0. pc[f][d] \in AtServer /\ l \in AtServer \cup {"read"}
  BY DEF AtServer
<1>1. me \in Local /\ Holds(d, pc[f][d], me)
  BY <1>0, VisitHolds DEF Holds
<1>2. PICK m \in Local : m = me
  BY <1>1
<1>3. loc' = [loc EXCEPT ![f][d] = m]
  BY <1>2, VisitHolds, <1>0 DEF DeliveryInv, Types, WorkerTypes
<1>4. Len(boxes[d]) \in Nat /\ Len(boxes'[d]) \in Nat
  BY DEF DeliveryInv, Types, ServerTypes
<1>5. m.box <= Len(boxes'[d])
  BY <1>1, <1>2, <1>4 DEF Holds, ServersGrow, Local
<1>6. m.ops["group"] = "ok" => m.item \in Stand(m.book) /\ InGroup(d, m.item)'
  BY <1>1, <1>2 DEF Holds, ServersGrow, Local
<1>7. m.item \in Stand(m.book)
  BY <1>1, <1>2 DEF Holds
<1>8. VisitTo(f, d, l, m)
  BY <1>0, <1>2, <1>3, <1>5, <1>6, <1>7, VisitSays DEF Goto, Goes
<1> QED BY <1>8

(* A call that finds or makes the collection that the worker adds to.      *)
LEMMA FindingBox ==
    ASSUME DeliveryInv, NEW f \in Fans, NEW d \in Dests,
           pc[f][d] \in {"look", "create"},
           ServerTypes', ServersGrow,
           NEW n \in 1..Len(boxes'[d]),
           Goes(f, d, "add", With(loc[f][d], [box |-> n]))
    PROVE  \E m \in Local : VisitTo(f, d, "add", m)
<1> DEFINE me == loc[f][d]
<1>0. pc[f][d] \in AtServer /\ "add" \in AtServer
  BY DEF AtServer
<1>1. me \in Local /\ Holds(d, pc[f][d], me)
  BY <1>0, VisitHolds DEF Holds
<1>2. Len(boxes'[d]) \in Nat /\ n \in Nat
  BY DEF ServerTypes
<1>3. PICK m \in Local :
          /\ m = With(me, [box |-> n]) /\ m.ops = me.ops /\ m.book = me.book
          /\ m.item = me.item /\ m.box = n /\ m.row = me.row
  BY <1>1, <1>2, LocalsBox
<1>4. m.ops["group"] = "ok" => m.item \in Stand(m.book) /\ InGroup(d, m.item)'
  BY <1>1, <1>3 DEF Holds, ServersGrow, Local
<1>5. m.item \in Stand(m.book)
  BY <1>1, <1>3 DEF Holds
<1>6. VisitTo(f, d, "add", m)
  BY <1>0, <1>2, <1>3, <1>4, <1>5, VisitSays
<1> QED BY <1>6

(* A call that adds the item to the series.                                *)
LEMMA Adding ==
    ASSUME DeliveryInv, NEW f \in Fans, NEW d \in Dests,
           pc[f][d] \in {"add", "tag"},
           ServerTypes', ServersGrow,
           NEW i, i = loc[f][d].item, InGroup(d, i)',
           NEW l \in {"tag", "read"},
           Goes(f, d, l, With(loc[f][d], [ops |-> With(loc[f][d].ops, [group |-> "ok"])]))
    PROVE  \E m \in Local : VisitTo(f, d, l, m)
<1> DEFINE me == loc[f][d]
           o  == With(me.ops, [group |-> "ok"])
<1>0. pc[f][d] \in AtServer /\ l \in AtServer \cup {"read"}
  BY DEF AtServer
<1>1. me \in Local /\ Holds(d, pc[f][d], me)
  BY <1>0, VisitHolds DEF Holds
<1>2. o \in [Ops -> Status]
  <2>1. me.ops \in [Ops -> Status]
    BY <1>1 DEF Local
  <2> QED BY <2>1, Outcomes
<1>3. PICK m \in Local :
          /\ m = With(me, [ops |-> o]) /\ m.book = me.book
          /\ m.item = me.item /\ m.box = me.box /\ m.row = me.row
  BY <1>1, <1>2, LocalsOps
<1>4. Len(boxes[d]) \in Nat /\ Len(boxes'[d]) \in Nat
  BY DEF DeliveryInv, Types, ServerTypes
<1>5. m.box <= Len(boxes'[d])
  BY <1>1, <1>3, <1>4 DEF Holds, ServersGrow, Local
<1>6. m.item \in Stand(m.book)
  BY <1>1, <1>3 DEF Holds
<1>7. InGroup(d, m.item)'
  BY <1>3
<1>8. VisitTo(f, d, l, m)
  BY <1>0, <1>3, <1>5, <1>6, <1>7, VisitSays
<1> QED BY <1>8

(* A call that finds the folder of the book, or nothing there.             *)
LEMMA FindingFolder ==
    ASSUME DeliveryInv, NEW f \in Fans, NEW d \in Dests, pc[f][d] = "scan",
           ServerTypes', ServersGrow, NEW i \in Items, NEW l \in {"match", "read"},
           Goes(f, d, l, With(loc[f][d], [ops |-> With(loc[f][d].ops, [scan |-> "ok"]),
                                          item |-> i]))
    PROVE  \E m \in Local : VisitTo(f, d, l, m)
<1> DEFINE me == loc[f][d]
           o   == With(me.ops, [scan |-> "ok"])
           new == With(me, [ops |-> o, item |-> i])
<1>0. pc[f][d] \in AtServer /\ l \in AtServer \cup {"read"}
  BY DEF AtServer
<1>1. me \in Local /\ Holds(d, pc[f][d], me)
  BY <1>0, VisitHolds DEF Holds
<1>2. Len(boxes[d]) \in Nat /\ Len(boxes'[d]) \in Nat
  BY DEF DeliveryInv, Types, ServerTypes
<1>3. o \in [Ops -> Status] /\ o["group"] # "ok"
  <2>1. me.ops \in [Ops -> Status]
    BY <1>1 DEF Local
  <2>2. PICK s \in Status : s = "ok"
    BY DEF Status
  <2>3. LET said == With(me.ops, [scan |-> s]) IN
        said \in [Ops -> Status] /\ said["group"] = me.ops["group"]
    BY <2>1, Outcomes
  <2> QED BY <1>1, <2>2, <2>3 DEF Holds
<1>4. PICK m \in Local :
          /\ m = new /\ m.ops = o /\ m.book = me.book /\ m.item = i
          /\ m.box = me.box /\ m.row = me.row
  BY <1>1, <1>3, LocalsItem
<1>5. m.box <= Len(boxes'[d])
  BY <1>1, <1>2, <1>4 DEF Holds, ServersGrow, Local
<1>6. VisitTo(f, d, l, m)
  BY <1>0, <1>3, <1>4, <1>5, VisitSays
<1> QED BY <1>6

(* Every call of a visit to Plex leaves the worker what it must have       *)
(* (plex.go).                                                              *)
LEMMA PlexVisits ==
    ASSUME DeliveryInv, NEW f \in Fans, NEW d \in Dests, PlexVisit(f, d), kind' = kind
    PROVE  Visited(f, d)
<1> DEFINE me == loc[f][d]
<1>a. ServerTypes /\ budget \in [Faults -> Nat] /\ "net" \in Faults
  BY DEF DeliveryInv, Types, FlowTypes, Faults
<1>b. f \in Visits /\ f # Sweep
  BY MediaServerAssumption DEF Visits
<1>c. me \in Local /\ me.item \in Items /\ me.box \in Nat
  BY <1>b DEF DeliveryInv, Types, WorkerTypes, Local
<1>f. me.ops \in [Ops -> Status]
  BY <1>c DEF Local
<1>e. Ok(f, d) \/ Err(f, d, "net") => Falls /\ hurt' = hurt
  BY <1>a, <1>b, Calling
<1>s. UNCHANGED serverVars => ServerTypes' /\ ServersGrow
  BY <1>a, ServersStill
<1>1. CASE PlexScan(f, d)
  <2>1. /\ pc[f][d] = "scan" /\ UNCHANGED serverVars /\ (Ok(f, d) \/ Err(f, d, "net"))
        /\ AfterScan(f, d) \in {"match", "read"}
    BY <1>1 DEF PlexScan, At, AfterScan
  <2>2. PICK s \in {"ok", "failed"} :
            Goes(f, d, AfterScan(f, d), With(me, [ops |-> With(me.ops, [scan |-> s])]))
    BY <1>1 DEF PlexScan, Say, Set, Me, Goto, Goes
  <2>3. /\ With(me.ops, [scan |-> s]) \in [Ops -> Status]
        /\ With(me.ops, [scan |-> s])["group"] = me.ops["group"]
    <3>1. s \in Status
      BY DEF Status
    <3> QED BY <1>f, <3>1, Outcomes
  <2>4. \E m \in Local : VisitTo(f, d, AfterScan(f, d), m)
    BY <1>s, <2>1, <2>2, <2>3, Saying DEF AtServer
  <2> QED BY <1>e, <1>s, <2>1, <2>4 DEF Visited, AtServer
<1>2. CASE PlexWaitForAlbum(f, d)
  <2>1. pc[f][d] = "match" /\ UNCHANGED serverVars /\ (Ok(f, d) \/ Err(f, d, "net"))
    BY <1>2 DEF PlexWaitForAlbum, At
  <2>2. CASE \E i \in PlexFindAlbum(d, me.book) :
                Goes(f, d, "look", With(me, [ops |-> With(me.ops, [match |-> "ok"]),
                                             item |-> i]))
    <3>1. PlexFindAlbum(d, me.book) \subseteq Stand(me.book) \cap Items
      BY VisitHolds, <2>1, MediaServerAssumption
         DEF PlexFindAlbum, TitleMatches, Named, Stand, Items, AtServer
    <3>2. \E m \in Local : VisitTo(f, d, "look", m)
      BY <1>s, <2>1, <2>2, <3>1, Matching
    <3> QED BY <1>e, <1>s, <2>1, <3>2 DEF Visited, AtServer
  <2>3. CASE Goes(f, d, "read", With(me, [ops |->
                  With(me.ops, [match |-> "failed", group |-> "deferred"])]))
    <3>1. /\ With(me.ops, [match |-> "failed", group |-> "deferred"]) \in [Ops -> Status]
          /\ With(me.ops, [match |-> "failed", group |-> "deferred"])["group"] = "deferred"
      BY <1>f, Outcomes
    <3>2. \E m \in Local : VisitTo(f, d, "read", m)
      BY <1>s, <2>1, <2>3, <3>1, Saying DEF AtServer
    <3> QED BY <1>e, <1>s, <2>1, <3>2 DEF Visited
  <2> QED BY <1>2, <2>2, <2>3 DEF PlexWaitForAlbum, Say, SayOf, Set, Me, Goto, Goes
<1>3. ASSUME PlexNoGroup(f, d), pc[f][d] \in {"look", "create"}, ServersGrow, ServerTypes'
      PROVE  Visited(f, d)
  <2>1. Err(f, d, "net") /\ Goes(f, d, "read", With(me, [ops |->
                                   With(me.ops, [group |-> "failed"])]))
    BY <1>3, <1>b DEF PlexNoGroup, Say, Set, Me, Goto, Goes
  <2>2. /\ With(me.ops, [group |-> "failed"]) \in [Ops -> Status]
        /\ With(me.ops, [group |-> "failed"])["group"] = "failed"
    BY <1>f, Outcomes
  <2>3. \E m \in Local : VisitTo(f, d, "read", m)
    BY <1>3, <2>1, <2>2, Saying DEF AtServer
  <2> QED BY <1>e, <1>3, <2>1, <2>3 DEF Visited
<1>4. CASE PlexFindCollection(f, d)
  <2>1. pc[f][d] = "look" /\ UNCHANGED serverVars
    BY <1>4 DEF PlexFindCollection, At
  <2>2. CASE PlexNoGroup(f, d)
    BY <1>3, <1>s, <2>1, <2>2
  <2>3. CASE Ok(f, d) /\ boxes[d] = <<>> /\ Goto(f, d, "create") /\ UNCHANGED loc
    <3>1. \E m \in Local : VisitTo(f, d, "create", m)
      BY <1>s, <2>1, <2>3, GoingOn
    <3> QED BY <1>e, <1>s, <2>1, <2>3, <3>1 DEF Visited, AtServer
  <2>4. CASE Ok(f, d) /\ boxes[d] # <<>> /\ Goes(f, d, "add", With(me, [box |-> 1]))
    <3>1. 1 \in 1..Len(boxes'[d])
      BY <1>a, <2>1, <2>4 DEF ServerTypes, serverVars
    <3>2. \E m \in Local : VisitTo(f, d, "add", m)
      BY <1>s, <2>1, <2>4, <3>1, FindingBox
    <3> QED BY <1>e, <1>s, <2>1, <2>4, <3>2 DEF Visited, AtServer
  <2> QED BY <1>4, <2>2, <2>3, <2>4 DEF PlexFindCollection, Set, Goto, Goes
<1>5. CASE PlexCreateCollection(f, d)
  <2>1. pc[f][d] = "create" /\ UNCHANGED <<indexed, tagged>>
    BY <1>5 DEF PlexCreateCollection, At
  <2>2. {} \in SUBSET Items
    OBVIOUS
  <2>3. NewBox(d, {}) => ServerTypes' /\ ServersGrow /\ Len(boxes'[d]) = Len(boxes[d]) + 1
    BY <1>a, <2>1, <2>2, NewBoxGrows
  <2>4. CASE Ok(f, d) /\ NewBox(d, {}) /\ Goes(f, d, "add", With(me, [box |-> Len(boxes[d]) + 1]))
    <3>1. Len(boxes[d]) + 1 \in 1..Len(boxes'[d])
      BY <1>a, <2>3, <2>4 DEF ServerTypes
    <3>2. \E m \in Local : VisitTo(f, d, "add", m)
      BY <2>1, <2>3, <2>4, <3>1, FindingBox
    <3> QED BY <1>e, <2>3, <2>4, <3>2 DEF Visited, AtServer
  <2>5. CASE PlexNoGroup(f, d) /\ (NewBox(d, {}) \/ UNCHANGED boxes)
    <3>1. ServerTypes' /\ ServersGrow
      BY <1>s, <2>1, <2>3, <2>5 DEF serverVars
    <3> QED BY <1>3, <2>1, <2>5, <3>1
  <2> QED BY <1>5, <2>4, <2>5 DEF PlexCreateCollection, Set, Goto, Goes
<1>6. CASE PlexAdd(f, d)
  <2>1. pc[f][d] = "add" /\ kind[d] = "plex" /\ UNCHANGED <<indexed, tagged>>
    BY <1>6 DEF PlexAdd, At
  <2>2. me.box \in 1..Len(boxes[d])
    BY <1>a, <1>c, <2>1, VisitHolds DEF AtServer, Holds, ServerTypes
  <2>3. CASE Ok(f, d) /\ PutInBox(d, me.box, me.item)
             /\ Goes(f, d, "read", With(me, [ops |-> With(me.ops, [group |-> "ok"])]))
    <3> PICK i \in Items, n \in Nat : i = me.item /\ n = me.box
      BY <1>c
    <3>1. ServerTypes' /\ ServersGrow /\ InGroup(d, i)'
      BY <1>a, <2>1, <2>2, <2>3, PutInBoxGrows
    <3>2. \E m \in Local : VisitTo(f, d, "read", m)
      BY <2>1, <2>3, <3>1, Adding
    <3> QED BY <1>e, <2>3, <3>1, <3>2 DEF Visited
  <2>4. CASE Err(f, d, "net") /\ UNCHANGED boxes
             /\ Goes(f, d, "read", With(me, [ops |-> With(me.ops, [group |-> "failed"])]))
    <3>1. /\ With(me.ops, [group |-> "failed"]) \in [Ops -> Status]
          /\ With(me.ops, [group |-> "failed"])["group"] = "failed"
      BY <1>f, Outcomes
    <3>2. ServerTypes' /\ ServersGrow
      BY <1>s, <2>1, <2>4 DEF serverVars
    <3>3. \E m \in Local : VisitTo(f, d, "read", m)
      BY <2>1, <2>4, <3>1, <3>2, Saying DEF AtServer
    <3> QED BY <1>e, <2>4, <3>2, <3>3 DEF Visited
  <2> QED BY <1>6, <2>3, <2>4 DEF PlexAdd, Say, Set, Me, Goto, Goes
<1> QED BY <1>1, <1>2, <1>4, <1>5, <1>6 DEF PlexVisit

(* So does every call of a visit to Emby (emby.go).                        *)
LEMMA EmbyVisits ==
    ASSUME DeliveryInv, NEW f \in Fans, NEW d \in Dests, EmbyVisit(f, d), kind' = kind
    PROVE  Visited(f, d)
<1> DEFINE me == loc[f][d]
<1>a. ServerTypes /\ budget \in [Faults -> Nat] /\ "net" \in Faults
  BY DEF DeliveryInv, Types, FlowTypes, Faults
<1>b. f \in Visits /\ f # Sweep
  BY MediaServerAssumption DEF Visits
<1>c. me \in Local /\ me.item \in Items /\ me.box \in Nat
  BY <1>b DEF DeliveryInv, Types, WorkerTypes, Local
<1>f. me.ops \in [Ops -> Status]
  BY <1>c DEF Local
<1>e. Ok(f, d) \/ Err(f, d, "net") => Falls /\ hurt' = hurt
  BY <1>a, <1>b, Calling
<1>s. UNCHANGED serverVars => ServerTypes' /\ ServersGrow
  BY <1>a, ServersStill
<1>1. CASE EmbyScan(f, d)
  <2>1. /\ pc[f][d] = "scan" /\ UNCHANGED serverVars /\ (Ok(f, d) \/ Err(f, d, "net"))
        /\ AfterScan(f, d) \in {"match", "read"}
    BY <1>1 DEF EmbyScan, At, AfterScan
  <2>2. CASE \E i \in EmbyFindItemByPath(d, me.book) :
                Goes(f, d, AfterScan(f, d), With(me, [ops |-> With(me.ops, [scan |-> "ok"]),
                                                      item |-> i]))
    <3>1. EmbyFindItemByPath(d, me.book) \subseteq Items
      BY VisitHolds, <2>1 DEF EmbyFindItemByPath, Items, NoItem, AtServer
    <3>2. PICK i \in Items :
              Goes(f, d, AfterScan(f, d), With(me, [ops |-> With(me.ops, [scan |-> "ok"]),
                                                    item |-> i]))
      BY <2>2, <3>1
    <3>3. \E m \in Local : VisitTo(f, d, AfterScan(f, d), m)
      BY <1>s, <2>1, <3>2, FindingFolder
    <3> QED BY <1>e, <1>s, <2>1, <3>3 DEF Visited, AtServer
  <2>3. CASE Goes(f, d, AfterScan(f, d), With(me, [ops |-> With(me.ops, [scan |-> "failed"])]))
    <3>1. /\ With(me.ops, [scan |-> "failed"]) \in [Ops -> Status]
          /\ With(me.ops, [scan |-> "failed"])["group"] = me.ops["group"]
      <4>1. "failed" \in Status
        BY DEF Status
      <4> QED BY <1>f, <4>1, Outcomes
    <3>2. \E m \in Local : VisitTo(f, d, AfterScan(f, d), m)
      BY <1>s, <2>1, <2>3, <3>1, Saying DEF AtServer
    <3> QED BY <1>e, <1>s, <2>1, <3>2 DEF Visited, AtServer
  <2> QED BY <1>1, <2>2, <2>3 DEF EmbyScan, Say, SayOf, Set, Me, Goto, Goes
<1>2. CASE EmbyWaitForItem(f, d)
  <2>1. pc[f][d] = "match" /\ UNCHANGED serverVars /\ (Ok(f, d) \/ Err(f, d, "net"))
    BY <1>2 DEF EmbyWaitForItem, At
  <2>2. CASE \E i \in EmbyFindItemByTitle(d, me.book), l \in {"look", "read"} :
                Goes(f, d, l, With(me, [ops |-> With(me.ops, [match |-> "ok"]),
                                        item |-> i]))
    <3>1. EmbyFindItemByTitle(d, me.book) \subseteq Stand(me.book) \cap Items
      BY VisitHolds, <2>1, MediaServerAssumption
         DEF EmbyFindItemByTitle, TitleMatches, Named, Stand, Items, AtServer
    <3>2. \E l \in AtServer \cup {"read"} : \E m \in Local : VisitTo(f, d, l, m)
      BY <1>s, <2>1, <2>2, <3>1, Matching DEF AtServer
    <3> QED BY <1>e, <1>s, <2>1, <3>2 DEF Visited
  <2>3. CASE Goes(f, d, "read", With(me, [ops |->
                  With(me.ops, [match |-> "failed", group |-> "deferred", tag |-> "deferred"])]))
    <3>1. /\ With(me.ops, [match |-> "failed", group |-> "deferred", tag |-> "deferred"]) \in [Ops -> Status]
          /\ With(me.ops, [match |-> "failed", group |-> "deferred", tag |-> "deferred"])["group"] = "deferred"
      BY <1>f, Outcomes
    <3>2. \E m \in Local : VisitTo(f, d, "read", m)
      BY <1>s, <2>1, <2>3, <3>1, Saying DEF AtServer
    <3> QED BY <1>e, <1>s, <2>1, <3>2 DEF Visited
  <2> QED BY <1>2, <2>2, <2>3 DEF EmbyWaitForItem, Say, SayOf, Set, Me, Goto, Goes
<1>3. ASSUME EmbyNoGroup(f, d), pc[f][d] \in {"look", "create"}, ServersGrow, ServerTypes'
      PROVE  Visited(f, d)
  <2>1. Err(f, d, "net") /\ Goes(f, d, "read", With(me, [ops |->
                                   With(me.ops, [group |-> "failed", tag |-> "deferred"])]))
    BY <1>3, <1>b DEF EmbyNoGroup, Say, Set, Me, Goto, Goes
  <2>2. /\ With(me.ops, [group |-> "failed", tag |-> "deferred"]) \in [Ops -> Status]
        /\ With(me.ops, [group |-> "failed", tag |-> "deferred"])["group"] = "failed"
    BY <1>f, Outcomes
  <2>3. \E m \in Local : VisitTo(f, d, "read", m)
    BY <1>3, <2>1, <2>2, Saying DEF AtServer
  <2> QED BY <1>e, <1>3, <2>1, <2>3 DEF Visited
<1>4. CASE EmbyFindCollection(f, d)
  <2>1. pc[f][d] = "look" /\ UNCHANGED serverVars
    BY <1>4 DEF EmbyFindCollection, At
  <2>2. CASE EmbyNoGroup(f, d)
    BY <1>3, <1>s, <2>1, <2>2
  <2>3. CASE Ok(f, d) /\ boxes[d] = <<>> /\ Goto(f, d, "create") /\ UNCHANGED loc
    <3>1. \E m \in Local : VisitTo(f, d, "create", m)
      BY <1>s, <2>1, <2>3, GoingOn
    <3> QED BY <1>e, <1>s, <2>1, <2>3, <3>1 DEF Visited, AtServer
  <2>4. CASE Ok(f, d) /\ boxes[d] # <<>> /\ Goes(f, d, "add", With(me, [box |-> 1]))
    <3>1. 1 \in 1..Len(boxes'[d])
      BY <1>a, <2>1, <2>4 DEF ServerTypes, serverVars
    <3>2. \E m \in Local : VisitTo(f, d, "add", m)
      BY <1>s, <2>1, <2>4, <3>1, FindingBox
    <3> QED BY <1>e, <1>s, <2>1, <2>4, <3>2 DEF Visited, AtServer
  <2> QED BY <1>4, <2>2, <2>3, <2>4 DEF EmbyFindCollection, Set, Goto, Goes
<1>5. CASE EmbyCreateCollection(f, d)
  <2>1. pc[f][d] = "create" /\ UNCHANGED <<indexed, tagged>> /\ EmbySeeds(f, d) = {me.item}
    BY <1>5, <1>b DEF EmbyCreateCollection, At, EmbySeeds, Me
  <2>2. {me.item} \in SUBSET Items
    BY <1>c
  <2>3. NewBox(d, {me.item}) =>
           ServerTypes' /\ ServersGrow /\ Len(boxes'[d]) = Len(boxes[d]) + 1
    <3> PICK S \in SUBSET Items : S = {me.item}
      BY <2>2
    <3> QED BY <1>a, <2>1, NewBoxGrows
  <2>4. CASE /\ Ok(f, d) /\ NewBox(d, {me.item})
             /\ Goes(f, d, "add", With(me, [box |-> Len(boxes[d]) + 1]))
    <3>1. Len(boxes[d]) + 1 \in 1..Len(boxes'[d])
      BY <1>a, <2>3, <2>4 DEF ServerTypes
    <3>2. \E m \in Local : VisitTo(f, d, "add", m)
      BY <2>1, <2>3, <2>4, <3>1, FindingBox
    <3> QED BY <1>e, <2>3, <2>4, <3>2 DEF Visited, AtServer
  <2>5. CASE EmbyNoGroup(f, d) /\ (NewBox(d, {me.item}) \/ UNCHANGED boxes)
    <3>1. ServerTypes' /\ ServersGrow
      BY <1>s, <2>1, <2>3, <2>5 DEF serverVars
    <3> QED BY <1>3, <2>1, <2>5, <3>1
  <2> QED BY <1>5, <2>1, <2>4, <2>5 DEF EmbyCreateCollection, Set, Goto, Goes
<1>6. CASE EmbyAdd(f, d)
  <2>1. pc[f][d] = "add" /\ kind[d] = "emby" /\ UNCHANGED <<indexed, tagged>>
    BY <1>6 DEF EmbyAdd, At
  <2>2. me.box \in 1..Len(boxes[d])
    BY <1>a, <1>c, <2>1, VisitHolds DEF AtServer, Holds, ServerTypes
  <2>3. CASE Ok(f, d) /\ PutInBox(d, me.box, me.item)
             /\ Goes(f, d, "tag", With(me, [ops |-> With(me.ops, [group |-> "ok"])]))
    <3> PICK i \in Items, n \in Nat : i = me.item /\ n = me.box
      BY <1>c
    <3>1. ServerTypes' /\ ServersGrow /\ InGroup(d, i)'
      BY <1>a, <2>1, <2>2, <2>3, PutInBoxGrows
    <3>2. \E m \in Local : VisitTo(f, d, "tag", m)
      BY <2>1, <2>3, <3>1, Adding
    <3> QED BY <1>e, <2>3, <3>1, <3>2 DEF Visited, AtServer
  <2>4. CASE Err(f, d, "net") /\ UNCHANGED boxes
             /\ Goes(f, d, "tag", With(me, [ops |-> With(me.ops, [group |-> "failed"])]))
    <3>1. /\ With(me.ops, [group |-> "failed"]) \in [Ops -> Status]
          /\ With(me.ops, [group |-> "failed"])["group"] = "failed"
      BY <1>f, Outcomes
    <3>2. ServerTypes' /\ ServersGrow
      BY <1>s, <2>1, <2>4 DEF serverVars
    <3>3. \E m \in Local : VisitTo(f, d, "tag", m)
      BY <2>1, <2>4, <3>1, <3>2, Saying DEF AtServer
    <3> QED BY <1>e, <2>4, <3>2, <3>3 DEF Visited, AtServer
  <2> QED BY <1>6, <2>3, <2>4 DEF EmbyAdd, Say, Set, Me, Goto, Goes
<1>7. CASE EmbyTag(f, d)
  <2>1. pc[f][d] = "tag" /\ UNCHANGED serverVars /\ (Ok(f, d) \/ Err(f, d, "net"))
    BY <1>7 DEF EmbyTag, At
  <2>2. PICK s \in {"ok", "failed"} :
            Goes(f, d, "read", With(me, [ops |-> With(me.ops, [tag |-> s])]))
    BY <1>7 DEF EmbyTag, Say, Set, Me, Goto, Goes
  <2>3. /\ With(me.ops, [tag |-> s]) \in [Ops -> Status]
        /\ With(me.ops, [tag |-> s])["group"] = me.ops["group"]
    <3>1. s \in Status
      BY DEF Status
    <3> QED BY <1>f, <3>1, Outcomes
  <2>4. \E m \in Local : VisitTo(f, d, "read", m)
    BY <1>s, <2>1, <2>2, <2>3, Saying DEF AtServer
  <2> QED BY <1>e, <1>s, <2>1, <2>4 DEF Visited
<1> QED BY <1>1, <1>2, <1>4, <1>5, <1>6, <1>7 DEF EmbyVisit

(* So does every call of a visit to Jellyfin (jellyfin.go).                *)
LEMMA JellyfinVisits ==
    ASSUME DeliveryInv, NEW f \in Fans, NEW d \in Dests, JellyfinVisit(f, d), kind' = kind
    PROVE  Visited(f, d)
<1> DEFINE me == loc[f][d]
<1>a. ServerTypes /\ budget \in [Faults -> Nat] /\ "net" \in Faults
  BY DEF DeliveryInv, Types, FlowTypes, Faults
<1>b. f \in Visits /\ f # Sweep
  BY MediaServerAssumption DEF Visits
<1>c. me \in Local /\ me.item \in Items /\ me.box \in Nat
  BY <1>b DEF DeliveryInv, Types, WorkerTypes, Local
<1>f. me.ops \in [Ops -> Status]
  BY <1>c DEF Local
<1>e. Ok(f, d) \/ Err(f, d, "net") => Falls /\ hurt' = hurt
  BY <1>a, <1>b, Calling
<1>s. UNCHANGED serverVars => ServerTypes' /\ ServersGrow
  BY <1>a, ServersStill
<1>1. CASE JellyfinScan(f, d)
  <2>1. /\ pc[f][d] = "scan" /\ UNCHANGED serverVars /\ (Ok(f, d) \/ Err(f, d, "net"))
        /\ AfterScan(f, d) \in {"match", "read"}
    BY <1>1 DEF JellyfinScan, At, AfterScan
  <2>2. PICK s \in {"ok", "failed"} :
            Goes(f, d, AfterScan(f, d), With(me, [ops |-> With(me.ops, [scan |-> s])]))
    BY <1>1 DEF JellyfinScan, Say, Set, Me, Goto, Goes
  <2>3. /\ With(me.ops, [scan |-> s]) \in [Ops -> Status]
        /\ With(me.ops, [scan |-> s])["group"] = me.ops["group"]
    <3>1. s \in Status
      BY DEF Status
    <3> QED BY <1>f, <3>1, Outcomes
  <2>4. \E m \in Local : VisitTo(f, d, AfterScan(f, d), m)
    BY <1>s, <2>1, <2>2, <2>3, Saying DEF AtServer
  <2> QED BY <1>e, <1>s, <2>1, <2>4 DEF Visited, AtServer
<1>2. CASE JellyfinWaitForAudioBook(f, d)
  <2>1. pc[f][d] = "match" /\ UNCHANGED serverVars /\ (Ok(f, d) \/ Err(f, d, "net"))
    BY <1>2 DEF JellyfinWaitForAudioBook, At
  <2>2. CASE \E i \in JellyfinFindAudioBook(d, me.book), l \in {"look", "read"} :
                Goes(f, d, l, With(me, [ops |-> With(me.ops, [match |-> "ok"]),
                                        item |-> i]))
    <3>1. JellyfinFindAudioBook(d, me.book) \subseteq Stand(me.book) \cap Items
      BY VisitHolds, <2>1, MediaServerAssumption
         DEF JellyfinFindAudioBook, TitleMatches, Named, Stand, Items, AtServer
    <3>2. \E l \in AtServer \cup {"read"} : \E m \in Local : VisitTo(f, d, l, m)
      BY <1>s, <2>1, <2>2, <3>1, Matching DEF AtServer
    <3> QED BY <1>e, <1>s, <2>1, <3>2 DEF Visited
  <2>3. CASE Goes(f, d, "read", With(me, [ops |->
                  With(me.ops, [match |-> "failed", group |-> "deferred", tag |-> "deferred"])]))
    <3>1. /\ With(me.ops, [match |-> "failed", group |-> "deferred", tag |-> "deferred"]) \in [Ops -> Status]
          /\ With(me.ops, [match |-> "failed", group |-> "deferred", tag |-> "deferred"])["group"] = "deferred"
      BY <1>f, Outcomes
    <3>2. \E m \in Local : VisitTo(f, d, "read", m)
      BY <1>s, <2>1, <2>3, <3>1, Saying DEF AtServer
    <3> QED BY <1>e, <1>s, <2>1, <3>2 DEF Visited
  <2> QED BY <1>2, <2>2, <2>3 DEF JellyfinWaitForAudioBook, Say, SayOf, Set, Me, Goto, Goes
<1>3. CASE JellyfinFindCollection(f, d)
  <2>1. /\ pc[f][d] = "look" /\ UNCHANGED serverVars
        /\ Ok(f, d) \/ Err(f, d, "net")
    BY <1>3 DEF JellyfinFindCollection, At
  <2>2. CASE Goto(f, d, "create") /\ UNCHANGED loc
    <3>1. \E m \in Local : VisitTo(f, d, "create", m)
      BY <1>s, <2>1, <2>2, GoingOn
    <3> QED BY <1>e, <1>s, <2>1, <3>1 DEF Visited, AtServer
  <2>3. CASE boxes[d] # <<>> /\ Goes(f, d, "add", With(me, [box |-> 1]))
    <3>1. 1 \in 1..Len(boxes'[d])
      BY <1>a, <2>1, <2>3 DEF ServerTypes, serverVars
    <3>2. \E m \in Local : VisitTo(f, d, "add", m)
      BY <1>s, <2>1, <2>3, <3>1, FindingBox
    <3> QED BY <1>e, <1>s, <2>1, <3>2 DEF Visited, AtServer
  <2> QED BY <1>3, <2>2, <2>3 DEF JellyfinFindCollection, Set, Goto, Goes
<1>5. CASE JellyfinCreateCollection(f, d)
  <2>1. pc[f][d] = "create" /\ UNCHANGED <<indexed, tagged>>
    BY <1>5 DEF JellyfinCreateCollection, At
  <2>2. {me.item} \in SUBSET Items
    BY <1>c
  <2>3. NewBox(d, {me.item}) =>
           ServerTypes' /\ ServersGrow /\ Len(boxes'[d]) = Len(boxes[d]) + 1
    <3> PICK S \in SUBSET Items : S = {me.item}
      BY <2>2
    <3> QED BY <1>a, <2>1, NewBoxGrows
  <2>4. CASE /\ Ok(f, d) /\ NewBox(d, {me.item})
             /\ Goes(f, d, "add", With(me, [box |-> Len(boxes[d]) + 1]))
    <3>1. Len(boxes[d]) + 1 \in 1..Len(boxes'[d])
      BY <1>a, <2>3, <2>4 DEF ServerTypes
    <3>2. \E m \in Local : VisitTo(f, d, "add", m)
      BY <2>1, <2>3, <2>4, <3>1, FindingBox
    <3> QED BY <1>e, <2>3, <2>4, <3>2 DEF Visited, AtServer
  <2>5. CASE /\ Err(f, d, "net") /\ (NewBox(d, {me.item}) \/ UNCHANGED boxes)
             /\ Goes(f, d, "read", With(me, [ops |->
                     With(me.ops, [group |-> "failed", tag |-> "deferred"])]))
    <3>1. ServerTypes' /\ ServersGrow
      BY <1>s, <2>1, <2>3, <2>5 DEF serverVars
    <3>2. /\ With(me.ops, [group |-> "failed", tag |-> "deferred"]) \in [Ops -> Status]
          /\ With(me.ops, [group |-> "failed", tag |-> "deferred"])["group"] = "failed"
      BY <1>f, Outcomes
    <3>3. \E m \in Local : VisitTo(f, d, "read", m)
      BY <2>1, <2>5, <3>1, <3>2, Saying DEF AtServer
    <3> QED BY <1>e, <2>5, <3>1, <3>3 DEF Visited
  <2> QED BY <1>5, <2>4, <2>5 DEF JellyfinCreateCollection, Say, Set, Me, Goto, Goes
<1>6. CASE JellyfinAdd(f, d)
  <2>1. pc[f][d] = "add" /\ kind[d] = "jellyfin" /\ UNCHANGED <<indexed, tagged>>
    BY <1>6 DEF JellyfinAdd, At
  <2>2. me.box \in 1..Len(boxes[d])
    BY <1>a, <1>c, <2>1, VisitHolds DEF AtServer, Holds, ServerTypes
  <2>3. CASE Ok(f, d) /\ PutInBox(d, me.box, me.item)
             /\ Goes(f, d, "tag", With(me, [ops |-> With(me.ops, [group |-> "ok"])]))
    <3> PICK i \in Items, n \in Nat : i = me.item /\ n = me.box
      BY <1>c
    <3>1. ServerTypes' /\ ServersGrow /\ InGroup(d, i)'
      BY <1>a, <2>1, <2>2, <2>3, PutInBoxGrows
    <3>2. \E m \in Local : VisitTo(f, d, "tag", m)
      BY <2>1, <2>3, <3>1, Adding
    <3> QED BY <1>e, <2>3, <3>1, <3>2 DEF Visited, AtServer
  <2>4. CASE Err(f, d, "net") /\ UNCHANGED boxes
             /\ Goes(f, d, "tag", With(me, [ops |-> With(me.ops, [group |-> "failed"])]))
    <3>1. /\ With(me.ops, [group |-> "failed"]) \in [Ops -> Status]
          /\ With(me.ops, [group |-> "failed"])["group"] = "failed"
      BY <1>f, Outcomes
    <3>2. ServerTypes' /\ ServersGrow
      BY <1>s, <2>1, <2>4 DEF serverVars
    <3>3. \E m \in Local : VisitTo(f, d, "tag", m)
      BY <2>1, <2>4, <3>1, <3>2, Saying DEF AtServer
    <3> QED BY <1>e, <2>4, <3>2, <3>3 DEF Visited, AtServer
  <2> QED BY <1>6, <2>3, <2>4 DEF JellyfinAdd, Say, Set, Me, Goto, Goes
<1>7. CASE JellyfinTag(f, d)
  <2>1. pc[f][d] = "tag" /\ UNCHANGED serverVars /\ (Ok(f, d) \/ Err(f, d, "net"))
    BY <1>7 DEF JellyfinTag, At
  <2>2. PICK s \in {"ok", "failed"} :
            Goes(f, d, "read", With(me, [ops |-> With(me.ops, [tag |-> s])]))
    BY <1>7 DEF JellyfinTag, Say, Set, Me, Goto, Goes
  <2>3. /\ With(me.ops, [tag |-> s]) \in [Ops -> Status]
        /\ With(me.ops, [tag |-> s])["group"] = me.ops["group"]
    <3>1. s \in Status
      BY DEF Status
    <3> QED BY <1>f, <3>1, Outcomes
  <2>4. \E m \in Local : VisitTo(f, d, "read", m)
    BY <1>s, <2>1, <2>2, <2>3, Saying DEF AtServer
  <2> QED BY <1>e, <1>s, <2>1, <2>4 DEF Visited
<1> QED BY <1>1, <1>2, <1>3, <1>5, <1>6, <1>7 DEF JellyfinVisit

(* So does every call of a visit to Audiobookshelf (abs.go).               *)
LEMMA AbsVisits ==
    ASSUME DeliveryInv, NEW f \in Fans, NEW d \in Dests, AbsVisit(f, d), kind' = kind
    PROVE  Visited(f, d)
<1> DEFINE me == loc[f][d]
<1>a. ServerTypes /\ budget \in [Faults -> Nat] /\ "net" \in Faults
  BY DEF DeliveryInv, Types, FlowTypes, Faults
<1>b. f \in Visits /\ f # Sweep
  BY MediaServerAssumption DEF Visits
<1>c. me \in Local /\ me.item \in Items /\ me.box \in Nat
  BY <1>b DEF DeliveryInv, Types, WorkerTypes, Local
<1>f. me.ops \in [Ops -> Status]
  BY <1>c DEF Local
<1>e. Ok(f, d) \/ Err(f, d, "net") => Falls /\ hurt' = hurt
  BY <1>a, <1>b, Calling
<1>s. UNCHANGED serverVars => ServerTypes' /\ ServersGrow
  BY <1>a, ServersStill
<1>1. CASE AbsScan(f, d)
  <2>1. /\ pc[f][d] = "scan" /\ UNCHANGED serverVars /\ (Ok(f, d) \/ Err(f, d, "net"))
        /\ AfterScan(f, d) \in {"match", "read"}
    BY <1>1 DEF AbsScan, At, AfterScan
  <2>2. PICK s \in {"ok", "failed"} :
            Goes(f, d, AfterScan(f, d), With(me, [ops |-> With(me.ops, [scan |-> s])]))
    BY <1>1 DEF AbsScan, Say, Set, Me, Goto, Goes
  <2>3. /\ With(me.ops, [scan |-> s]) \in [Ops -> Status]
        /\ With(me.ops, [scan |-> s])["group"] = me.ops["group"]
    <3>1. s \in Status
      BY DEF Status
    <3> QED BY <1>f, <3>1, Outcomes
  <2>4. \E m \in Local : VisitTo(f, d, AfterScan(f, d), m)
    BY <1>s, <2>1, <2>2, <2>3, Saying DEF AtServer
  <2> QED BY <1>e, <1>s, <2>1, <2>4 DEF Visited, AtServer
<1>2. CASE AbsWaitForItem(f, d)
  <2>1. pc[f][d] = "match" /\ UNCHANGED serverVars /\ (Ok(f, d) \/ Err(f, d, "net"))
    BY <1>2 DEF AbsWaitForItem, At
  <2>2. CASE \E i \in AbsFindItem(d, me.book), l \in {"look", "read"} :
                Goes(f, d, l, With(me, [ops |-> With(me.ops, [match |-> "ok"]),
                                        item |-> i]))
    <3>1. AbsFindItem(d, me.book) \subseteq Stand(me.book) \cap Items
      BY VisitHolds, <2>1, MediaServerAssumption
         DEF AbsFindItem, TitleMatches, Named, Stand, Items, AtServer
    <3>2. \E l \in AtServer \cup {"read"} : \E m \in Local : VisitTo(f, d, l, m)
      BY <1>s, <2>1, <2>2, <3>1, Matching DEF AtServer
    <3> QED BY <1>e, <1>s, <2>1, <3>2 DEF Visited
  <2>3. CASE Goes(f, d, "read", With(me, [ops |->
                  With(me.ops, [match |-> "deferred", group |-> "deferred"])]))
    <3>1. /\ With(me.ops, [match |-> "deferred", group |-> "deferred"]) \in [Ops -> Status]
          /\ With(me.ops, [match |-> "deferred", group |-> "deferred"])["group"] = "deferred"
      BY <1>f, Outcomes
    <3>2. \E m \in Local : VisitTo(f, d, "read", m)
      BY <1>s, <2>1, <2>3, <3>1, Saying DEF AtServer
    <3> QED BY <1>e, <1>s, <2>1, <3>2 DEF Visited
  <2> QED BY <1>2, <2>2, <2>3 DEF AbsWaitForItem, Say, SayOf, Set, Me, Goto, Goes
<1>3. CASE AbsItemHasSeries(f, d)
  <2>1. /\ pc[f][d] = "look" /\ UNCHANGED serverVars
        /\ Ok(f, d) \/ Err(f, d, "net")
    BY <1>3 DEF AbsItemHasSeries, At
  <2>2. CASE Goto(f, d, "tag") /\ UNCHANGED loc
    <3>1. \E m \in Local : VisitTo(f, d, "tag", m)
      BY <1>s, <2>1, <2>2, GoingOn
    <3> QED BY <1>e, <1>s, <2>1, <3>1 DEF Visited, AtServer
  <2>3. CASE Goes(f, d, "read", With(me, [ops |-> With(me.ops, [group |-> "existing"])]))
    <3>1. /\ With(me.ops, [group |-> "existing"]) \in [Ops -> Status]
          /\ With(me.ops, [group |-> "existing"])["group"] = "existing"
      BY <1>f, Outcomes
    <3>2. \E m \in Local : VisitTo(f, d, "read", m)
      BY <1>s, <2>1, <2>3, <3>1, Saying DEF AtServer
    <3> QED BY <1>e, <1>s, <2>1, <3>2 DEF Visited
  <2> QED BY <1>3, <2>2, <2>3 DEF AbsItemHasSeries, Say, Set, Me, Goto, Goes
<1>6. CASE AbsPatchSeries(f, d)
  <2>1. pc[f][d] = "tag" /\ kind[d] = "abs" /\ UNCHANGED <<indexed, boxes>>
    BY <1>6 DEF AbsPatchSeries, At
  <2>3. CASE /\ Ok(f, d) /\ tagged' = [tagged EXCEPT ![d] = @ \cup {me.item}]
             /\ Goes(f, d, "read", With(me, [ops |-> With(me.ops, [group |-> "ok"])]))
    <3> PICK i \in Items : i = me.item
      BY <1>c
    <3>1. ServerTypes' /\ ServersGrow /\ InGroup(d, i)'
      BY <1>a, <2>1, <2>3, TaggedGrows
    <3>2. \E m \in Local : VisitTo(f, d, "read", m)
      BY <2>1, <2>3, <3>1, Adding
    <3> QED BY <1>e, <2>3, <3>1, <3>2 DEF Visited
  <2>4. CASE Err(f, d, "net") /\ UNCHANGED tagged
             /\ Goes(f, d, "read", With(me, [ops |-> With(me.ops, [group |-> "failed"])]))
    <3>1. /\ With(me.ops, [group |-> "failed"]) \in [Ops -> Status]
          /\ With(me.ops, [group |-> "failed"])["group"] = "failed"
      BY <1>f, Outcomes
    <3>2. ServerTypes' /\ ServersGrow
      BY <1>s, <2>1, <2>4 DEF serverVars
    <3>3. \E m \in Local : VisitTo(f, d, "read", m)
      BY <2>1, <2>4, <3>1, <3>2, Saying DEF AtServer
    <3> QED BY <1>e, <2>4, <3>2, <3>3 DEF Visited
  <2> QED BY <1>6, <2>3, <2>4 DEF AbsPatchSeries, Say, Set, Me, Goto, Goes
<1> QED BY <1>1, <1>2, <1>3, <1>6 DEF AbsVisit

-----------------------------------------------------------------------------
(* What a step must leave, worker by worker *)

ReportedAt(f, d) ==
    budget["db"] = Budget["db"] /\ f \notin cancelled /\ d \in Enabled /\ pc[f][d] = "done"
       => rows[visited[f]][d] # NoRow

(* What the invariant says of one worker.                                  *)
Worker(v, d) ==
    /\ loc[v][d].row.tries <= Cardinality(Tried(d)) + 1
    /\ loc[v][d].box <= Len(boxes[d])
    /\ v \in Fans => FanHolds(v, d) /\ ReportedAt(v, d)
    /\ v = Sweep => SweepHolds(d)

(* The rows have only been written, the faults only spent, the cancelled   *)
(* only more, and no fan-out has forgotten its book or what it has done.   *)
Onward ==
    /\ ServersGrow
    /\ \A b \in Books, d \in Dests : rows[b][d] # NoRow => rows'[b][d] # NoRow
    /\ budget'["db"] <= budget["db"] /\ cancelled \subseteq cancelled'
    /\ \A f \in Fans : visited[f] # NoBook => visited'[f] = visited[f]
    /\ \A d \in Dests : Tried(d) \subseteq Tried(d)'

Same(v, d) ==
    /\ pc'[v][d] = pc[v][d] /\ loc'[v][d] = loc[v][d]
    /\ v \in Fans => visited'[v] = visited[v]
    /\ v = Sweep => phase' = phase

(* As many fan-outs have ended with a server as are counted, and no fewer  *)
(* later.                                                                  *)
LEMMA TriedCounts ==
    ASSUME NEW d \in Dests
    PROVE  /\ Cardinality(Tried(d)) \in Nat /\ Cardinality(Tried(d)') \in Nat
           /\ Tried(d) \subseteq Tried(d)' => Cardinality(Tried(d)) <= Cardinality(Tried(d)')
           /\ Cardinality(Tried(d)) <= Cardinality(Fans)
<1>1. IsFiniteSet(Fans) /\ Tried(d) \subseteq Fans /\ Tried(d)' \subseteq Fans
  BY MediaServerAssumption DEF Tried
<1>2. IsFiniteSet(Tried(d)) /\ IsFiniteSet(Tried(d)')
  BY <1>1, FS_Subset
<1>3. Cardinality(Tried(d)) \in Nat /\ Cardinality(Tried(d)') \in Nat
  BY <1>2, FS_CardinalityType
<1>4. Tried(d) \subseteq Tried(d)' => Cardinality(Tried(d)) <= Cardinality(Tried(d)')
  BY <1>2, FS_Subset
<1>5. Cardinality(Tried(d)) <= Cardinality(Fans)
  BY <1>1, FS_Subset
<1> QED BY <1>3, <1>4, <1>5

(* What a row says stays so while the servers only grow.                   *)
LEMMA GroupedStays ==
    ASSUME ServersGrow, NEW d \in Dests, NEW b \in Books, NEW row, row.item \in Items,
           Grouped(d, b, row)
    PROVE  Grouped(d, b, row)'
<1>1. \A i \in Books : i \in Items /\ (InGroup(d, i) => InGroup(d, i)')
  BY DEF ServersGrow, Items
<1>2. Lookalikes(b) \subseteq Books
  BY MediaServerAssumption DEF Lookalikes, Named
<1> QED BY <1>1, <1>2 DEF Grouped

(* A worker that does not move keeps what it has.                          *)
LEMMA SameKeeps ==
    ASSUME DeliveryInv, Types', Onward, NEW v \in Visits, NEW d \in Dests, Same(v, d)
    PROVE  Worker(v, d)'
<1>0. loc[v][d] \in Local /\ loc[v][d].row \in Row
  BY DEF DeliveryInv, Types, WorkerTypes, Local
<1>1. (loc[v][d].row.tries <= Cardinality(Tried(d)) + 1)'
  BY <1>0, TriedCounts DEF DeliveryInv, Counted, Onward, Same, Row
<1>2. (loc[v][d].box <= Len(boxes[d]))'
  <2>1. Len(boxes[d]) \in Nat /\ Len(boxes'[d]) \in Nat /\ loc[v][d].box \in Nat
    BY <1>0 DEF DeliveryInv, Types, ServerTypes, Local
  <2> QED BY <2>1 DEF DeliveryInv, Boxed, Onward, ServersGrow, Same
<1>3. ASSUME v \in Fans
      PROVE  FanHolds(v, d)'
  <2>1. FanHolds(v, d)
    BY <1>3 DEF DeliveryInv, FansHold
  <2>2. loc[v][d].item \in Items
    BY <1>0 DEF Local
  <2>3. PICK i \in Items : i = loc[v][d].item
    BY <2>2
  <2>4. InGroup(d, i) => InGroup(d, i)'
    BY DEF Onward, ServersGrow
  <2>5. loc'[v][d].ops["group"] = "ok" => InGroup(d, i)'
    BY <2>1, <2>3, <2>4 DEF FanHolds, Same
  <2>6. loc'[v][d].ops["group"] = "ok" => InGroup(d, loc[v][d].item)'
    BY <2>3, <2>5 DEF Same
  <2> QED BY <1>3, <2>1, <2>6 DEF FanHolds, Same
<1>4. ASSUME v \in Fans
      PROVE  ReportedAt(v, d)'
  <2>1. visited[v] # NoBook => visited[v] \in Books
    BY <1>4 DEF DeliveryInv, Types, FlowTypes
  <2>2. pc[v][d] = "done" => visited[v] \in Books
    BY <1>4, <2>1 DEF DeliveryInv, FansHold, FanHolds
  <2>3. budget["db"] \in Nat /\ Budget["db"] \in Nat /\ budget["db"] <= Budget["db"]
        /\ budget'["db"] \in Nat
    BY MediaServerAssumption DEF DeliveryInv, Types, FlowTypes, Faults
  <2>4. ReportedAt(v, d)
    BY <1>4 DEF DeliveryInv, Reported, ReportedAt
  <2>5. Enabled' = Enabled
    BY DEF Onward, ServersGrow, Enabled
  <2> QED BY <1>4, <2>2, <2>3, <2>4, <2>5 DEF ReportedAt, Onward, Same
<1>5. ASSUME v = Sweep
      PROVE  SweepHolds(d)'
  <2>1. SweepHolds(d)
    BY DEF DeliveryInv, SweepsHold
  <2>2. CASE pc[v][d] = "matched"
    <3> PICK b \in Books, row \in Row : b = loc[v][d].book /\ row = loc[v][d].row
      BY <1>0, <1>5, <2>1, <2>2 DEF SweepHolds, Local
    <3>1. Grouped(d, b, row)' /\ Honest(row)
      BY <1>5, <2>1, <2>2, GroupedStays DEF SweepHolds, Onward, Row
    <3>2. Grouped(d, loc[v][d].book, loc[v][d].row)' /\ Honest(loc[v][d].row)'
      BY <3>1 DEF Same, Honest
    <3> QED BY <1>5, <2>1, <2>2, <3>2 DEF SweepHolds, Paired, Same
  <2>3. CASE pc[v][d] # "matched"
    BY <1>5, <2>1, <2>3 DEF SweepHolds, Paired, Same
  <2> QED BY <2>2, <2>3
<1> QED BY <1>1, <1>2, <1>3, <1>4, <1>5 DEF Worker

(* A step keeps the invariant that leaves each worker as it was or with    *)
(* what the invariant asks of it.                                          *)
LEMMA StepKeeps ==
    ASSUME DeliveryInv, Types', Onward, Semaphore', RowsTrue',
           \A b \in Books, d \in Dests :
              rows'[b][d].tries <= Cardinality(Tried(d)') + 1,
           \A v \in Visits, d \in Dests : Same(v, d) \/ Worker(v, d)'
    PROVE  DeliveryInv'
<1>1. \A v \in Visits, d \in Dests : Worker(v, d)'
  BY SameKeeps
<1>2. \A f \in Fans : f \in Visits
  BY DEF Visits
<1>3. Sweep \in Visits
  BY DEF Visits
<1>4. Counted' /\ Boxed'
  BY <1>1 DEF Counted, Boxed, Worker
<1>5. FansHold'
  BY <1>1, <1>2 DEF FansHold, Worker
<1>7. Reported'
  <2>1. \A f \in Fans, d \in Dests : ReportedAt(f, d)'
    BY <1>1, <1>2 DEF Worker
  <2>2. \A d \in Enabled' : d \in Dests
    BY DEF Enabled
  <2> QED BY <2>1, <2>2 DEF Reported, ReportedAt
<1>6. SweepsHold'
  BY <1>1, <1>3 DEF SweepsHold, Worker
<1> QED BY <1>4, <1>5, <1>6, <1>7 DEF DeliveryInv

(* The step of one worker, to the place l with the locals m.               *)
Moves(v, d, l, m) ==
    /\ v \in Visits /\ d \in Dests /\ l \in FanPCs \cup SweepPCs /\ m \in Local
    /\ Goes(v, d, l, m)

(* The other workers stay as they were.                                    *)
LEMMA OneMoves ==
    ASSUME Types, NEW v, NEW d, NEW l, NEW m, Moves(v, d, l, m)
    PROVE  /\ WorkerTypes' /\ pc'[v][d] = l /\ loc'[v][d] = m
           /\ \A u \in Visits, e \in Dests : u # v \/ e # d =>
                 pc'[u][e] = pc[u][e] /\ loc'[u][e] = loc[u][e]
<1>1. pc' \in [Visits -> [Dests -> FanPCs \cup SweepPCs]]
  BY DEF Types, WorkerTypes, Moves, Goes
<1>2. loc' \in [Visits -> [Dests -> Local]]
  BY DEF Types, WorkerTypes, Moves, Goes
<1>3. pc'[v][d] = l /\ loc'[v][d] = m
  BY DEF Types, WorkerTypes, Moves, Goes
<1>4. \A u \in Visits, e \in Dests : u # v \/ e # d =>
         pc'[u][e] = pc[u][e] /\ loc'[u][e] = loc[u][e]
  BY DEF Types, WorkerTypes, Moves, Goes
<1> QED BY <1>1, <1>2, <1>3, <1>4 DEF WorkerTypes

(* Fewer workers at work are not too many.                                 *)
LEMMA NoMoreWork ==
    ASSUME DeliveryInv, Types', \A v \in Visits : Working(v)' \subseteq Working(v)
    PROVE  Semaphore'
<1> SUFFICES ASSUME NEW v \in Visits
             PROVE  Cardinality(Working(v)') <= MaxConcurrency
  BY DEF Semaphore
<1>1. IsFiniteSet(Working(v))
  BY MediaServerAssumption, FS_Subset DEF Working
<1>2. /\ Cardinality(Working(v)') <= Cardinality(Working(v))
      /\ IsFiniteSet(Working(v)')
  BY <1>1, FS_Subset
<1>3. Cardinality(Working(v)') \in Nat /\ Cardinality(Working(v)) \in Nat
  BY <1>1, <1>2, FS_CardinalityType
<1> QED BY <1>2, <1>3, MediaServerAssumption DEF DeliveryInv, Semaphore

(* A step of a worker that works already, or stops, is no more work.       *)
LEMMA MoveWorks ==
    ASSUME DeliveryInv, Types', NEW v, NEW d, NEW l, NEW m, Moves(v, d, l, m),
           d \in Working(v) \/ l \in Resting
    PROVE  Semaphore'
<1>1. ASSUME NEW u \in Visits, NEW e \in Working(u)'
      PROVE  e \in Working(u)
  <2>1. e \in Dests
    BY <1>1 DEF Working
  <2>2. CASE u # v \/ e # d
    BY <1>1, <2>1, <2>2, OneMoves DEF DeliveryInv, Working
  <2>3. CASE u = v /\ e = d
    BY <1>1, <2>3, OneMoves DEF DeliveryInv, Working
  <2> QED BY <2>2, <2>3
<1> QED BY <1>1, NoMoreWork

(* A step of one worker that writes no row.                                *)
LEMMA MoveKeeps ==
    ASSUME DeliveryInv, Types', NEW v, NEW d, NEW l, NEW m, Moves(v, d, l, m),
           ServersGrow, Semaphore', UNCHANGED <<rows, visited, phase, cancelled>>,
           budget'["db"] <= budget["db"], v \in Fans => pc[v][d] # "done",
           m.row.tries <= Cardinality(Tried(d)) + 1,
           m.box <= Len(boxes'[d]),
           v \in Fans => FanHolds(v, d)' /\ ReportedAt(v, d)',
           v = Sweep => SweepHolds(d)'
    PROVE  DeliveryInv'
<1>1. \A u \in Visits, e \in Dests : u # v \/ e # d => Same(u, e)
  BY OneMoves DEF DeliveryInv, Same
<1>2. \A e \in Dests : Tried(e) \subseteq Tried(e)'
  <2> SUFFICES ASSUME NEW e \in Dests, NEW f \in Tried(e)
               PROVE  f \in Tried(e)'
    OBVIOUS
  <2>1. f \in Fans /\ f \in Visits /\ pc[f][e] = "done"
    BY DEF Tried, Visits
  <2>2. f # v \/ e # d
    BY <2>1
  <2> QED BY <2>1, <2>2, OneMoves DEF DeliveryInv, Tried
<1>3. Onward
  BY <1>2 DEF Onward
<1>4. loc'[v][d] = m /\ v \in Visits /\ d \in Dests
  BY OneMoves DEF DeliveryInv, Moves
<1>5. \A b \in Books, e \in Dests : rows[b][e].tries \in Nat /\ m.row.tries \in Nat
  BY DEF DeliveryInv, Types, RowTypes, Row, Moves, Local
<1>6. \A b \in Books, e \in Dests : rows'[b][e].tries <= Cardinality(Tried(e)') + 1
  BY <1>2, <1>5, TriedCounts DEF DeliveryInv, Counted
<1>7. Worker(v, d)'
  <2>1. (loc[v][d].row.tries <= Cardinality(Tried(d)) + 1)'
    BY <1>2, <1>4, <1>5, TriedCounts DEF DeliveryInv, Counted, Moves, Local, Row
  <2>2. (loc[v][d].box <= Len(boxes[d]))'
    BY <1>4
  <2> QED BY <2>1, <2>2 DEF Worker
<1>8. RowsTrue'
  <2> SUFFICES ASSUME NEW b \in Books, NEW e \in Dests
               PROVE  Grouped(e, b, rows[b][e])' /\ Honest(rows[b][e])'
    BY DEF RowsTrue
  <2> PICK row \in Row : row = rows[b][e]
    BY DEF DeliveryInv, Types, RowTypes
  <2>1. Grouped(e, b, row)' /\ Honest(row)
    BY GroupedStays DEF DeliveryInv, RowsTrue, Row
  <2> QED BY <2>1 DEF Honest
<1> QED BY <1>1, <1>3, <1>6, <1>7, <1>8, StepKeeps

(* What such a step leaves of the right type.                              *)
LEMMA MoveTypes ==
    ASSUME Types, NEW v, NEW d, NEW l, NEW m, Moves(v, d, l, m),
           ServerTypes', Falls, hurt' \subseteq Dests,
           UNCHANGED <<visited, phase, sweeps, cancelled, complete, rows>>,
           stirred' \subseteq Books
    PROVE  Types'
<1>1. WorkerTypes'
  BY OneMoves
<1>2. RowTypes'
  BY DEF Types, RowTypes
<1>3. budget'["db"] <= Budget["db"]
  <2>1. budget["db"] \in Nat /\ budget'["db"] \in Nat /\ Budget["db"] \in Nat
    BY MediaServerAssumption DEF Types, FlowTypes, Falls, Faults
  <2> QED BY <2>1 DEF Types, FlowTypes, Falls
<1>4. FlowTypes'
  BY <1>3 DEF Types, FlowTypes, Falls
<1> QED BY <1>1, <1>2, <1>4 DEF Types

-----------------------------------------------------------------------------
(* The steps of a fan-out *)

(* A call of a visit, of any backend.                                      *)
LEMMA VisitKeeps ==
    ASSUME DeliveryInv, NEW f \in Fans, NEW d \in Dests, Visit(f, d)
    PROVE  DeliveryInv'
<1>1. UNCHANGED <<kind, visited, phase, sweeps, cancelled, complete, rows, stirred>>
  BY DEF Visit, flowVars
<1>2. Visited(f, d)
  BY <1>1, PlexVisits, EmbyVisits, JellyfinVisits, AbsVisits DEF Visit
<1>3. PICK l \in AtServer \cup {"read"}, m \in Local : VisitTo(f, d, l, m)
  BY <1>2 DEF Visited
<1>4. l \in FanPCs /\ l # "done" /\ l # "queued" /\ f \in Visits /\ f # Sweep
  BY MediaServerAssumption DEF AtServer, FanPCs, Visits
<1>5. Moves(f, d, l, m)
  BY <1>3, <1>4 DEF VisitTo, Moves
<1>6. Types'
  BY <1>1, <1>2, <1>5, MoveTypes DEF Visited, DeliveryInv, Types, FlowTypes
<1>7. d \in Working(f) /\ pc[f][d] # "done" /\ pc[f][d] \in AtServer
  BY <1>3 DEF VisitTo, Working, AtServer, Resting
<1>8. Semaphore'
  BY <1>5, <1>6, <1>7, MoveWorks
<1>9. pc'[f][d] = l /\ loc'[f][d] = m
  BY <1>5, OneMoves DEF DeliveryInv
<1>10. FanHolds(f, d)'
  <2>1. m.book = visited[f] /\ visited[f] \in Books
    BY <1>3, <1>7, VisitHolds DEF VisitTo
  <2>2. visited'[f] # NoBook /\ pc'[f][d] # "idle" /\ pc'[f][d] \in FanPCs
    BY <1>1, <1>4, <1>9, <2>1, MediaServerAssumption DEF AtServer
  <2>3. /\ l \in {"look", "create", "add", "tag"} => m.item \in Stand(m.book)
        /\ l = "add" => m.box # 0
        /\ l \in {"scan", "match"} => m.ops["group"] # "ok"
        /\ m.ops["group"] = "ok" => m.item \in Stand(m.book) /\ InGroup(d, m.item)'
    BY <1>3 DEF VisitTo, Holds
  <2>4. m.ops["group"] = "ok" => InGroup(d, loc[f][d].item)'
    BY <1>9, <2>3
  <2> QED BY <1>1, <1>4, <1>9, <2>1, <2>2, <2>3, <2>4 DEF FanHolds
<1>11. ReportedAt(f, d)'
  BY <1>4, <1>9 DEF ReportedAt
<1>12. m.row.tries <= Cardinality(Tried(d)) + 1 /\ m.box <= Len(boxes'[d])
  BY <1>3, <1>4 DEF VisitTo, Holds, DeliveryInv, Counted
<1> QED BY <1>1, <1>2, <1>4, <1>5, <1>6, <1>7, <1>8, <1>10, <1>11, <1>12, MoveKeeps
        DEF Visited, Falls

(* The loop that starts the workers lets no more of them run than it may   *)
(* (destinations.go).                                                      *)
LEMMA AcquireKeeps ==
    ASSUME DeliveryInv, NEW v \in Visits, NEW d \in Dests, Acquire(v, d)
    PROVE  DeliveryInv'
<1> DEFINE l == IF v # Sweep THEN "scan" ELSE IF phase = "scan" THEN "refresh" ELSE "list"
           me == loc[v][d]
<1>1. /\ UNCHANGED <<kind, visited, phase, sweeps, cancelled, complete, rows, hurt, budget,
                     stirred, serverVars>>
      /\ pc[v][d] = "queued" /\ Cardinality(Working(v)) < MaxConcurrency
  BY DEF Acquire, flowVars
<1>2. PICK m \in Local : m = me
  BY DEF DeliveryInv, Types, WorkerTypes
<1>3. l \in FanPCs \cup SweepPCs /\ (v \in Fans => l \in FanPCs /\ l = "scan")
  BY MediaServerAssumption DEF FanPCs, SweepPCs, AtServer
<1>4. Goes(v, d, l, m)
  BY <1>2 DEF Acquire, Goto, Goes, DeliveryInv, Types, WorkerTypes
<1> HIDE DEF l
<1>5. Moves(v, d, l, m)
  BY <1>3, <1>4 DEF Moves
<1>6. ServerTypes' /\ ServersGrow /\ Falls
  BY <1>1, ServersStill DEF DeliveryInv, Types, FlowTypes, Falls, Faults
<1>7. Types'
  BY <1>1, <1>5, <1>6, MoveTypes DEF DeliveryInv, Types, FlowTypes
<1>8. pc'[v][d] = l /\ loc'[v][d] = m
  BY <1>5, OneMoves DEF DeliveryInv
<1>9. Semaphore'
  <2> SUFFICES ASSUME NEW u \in Visits
               PROVE  Cardinality(Working(u)') <= MaxConcurrency
    BY DEF Semaphore
  <2>1. Working(u)' \subseteq IF u = v THEN Working(u) \cup {d} ELSE Working(u)
    BY <1>5, OneMoves DEF Working, DeliveryInv
  <2>2. IsFiniteSet(Working(u))
    BY MediaServerAssumption, FS_Subset DEF Working
  <2>3. /\ IsFiniteSet(Working(u) \cup {d})
        /\ Cardinality(Working(u) \cup {d}) <= Cardinality(Working(u)) + 1
        /\ Cardinality(Working(u)) \in Nat /\ Cardinality(Working(u) \cup {d}) \in Nat
    <3>1. IsFiniteSet(Working(u) \cup {d}) /\ Cardinality(Working(u)) \in Nat
      BY <2>2, FS_AddElement, FS_CardinalityType
    <3>2. Cardinality(Working(u) \cup {d}) \in Nat
      BY <3>1, FS_CardinalityType
    <3>3. Cardinality(Working(u) \cup {d}) \in {Cardinality(Working(u)), Cardinality(Working(u)) + 1}
      BY <2>2, FS_AddElement
    <3> QED BY <3>1, <3>2, <3>3
  <2>4. CASE u = v
    <3>1. Cardinality(Working(u)') <= Cardinality(Working(u) \cup {d})
          /\ IsFiniteSet(Working(u)')
      BY <2>1, <2>3, <2>4, FS_Subset
    <3>2. Cardinality(Working(u)') \in Nat
      BY <3>1, FS_CardinalityType
    <3> QED BY <1>1, <2>3, <2>4, <3>1, <3>2, MediaServerAssumption
  <2>5. CASE u # v
    <3>1. Cardinality(Working(u)') <= Cardinality(Working(u)) /\ IsFiniteSet(Working(u)')
      BY <2>1, <2>2, <2>5, FS_Subset
    <3>2. Cardinality(Working(u)') \in Nat
      BY <3>1, FS_CardinalityType
    <3> QED BY <2>3, <3>1, <3>2, MediaServerAssumption DEF DeliveryInv, Semaphore
  <2> QED BY <2>4, <2>5
<1>10. ASSUME v \in Fans
       PROVE  FanHolds(v, d)' /\ ReportedAt(v, d)'
  <2>1. FanHolds(v, d) /\ l = "scan"
    BY <1>3, <1>10 DEF DeliveryInv, FansHold
  <2>2. me.ops["group"] # "ok" /\ me.book = visited[v] /\ visited[v] # NoBook
    BY <1>1, <2>1 DEF FanHolds, FanPCs
  <2> QED BY <1>1, <1>2, <1>8, <2>1, <2>2 DEF FanHolds, ReportedAt, FanPCs, AtServer
<1>11. ASSUME v = Sweep
       PROVE  SweepHolds(d)'
  <2>1. SweepHolds(d) /\ phase \in {"idle", "scan", "reconcile"}
    BY DEF DeliveryInv, SweepsHold, Types, FlowTypes
  <2>2. phase # "idle"
    BY <1>1, <1>11, <2>1 DEF SweepHolds
  <2> QED BY <1>1, <1>8, <1>11, <2>1, <2>2 DEF SweepHolds, SweepPCs, Listing, Grouping, l
<1>12. m.row.tries <= Cardinality(Tried(d)) + 1 /\ m.box <= Len(boxes'[d])
  BY <1>1, <1>2 DEF DeliveryInv, Counted, Boxed, serverVars
<1> QED BY <1>1, <1>5, <1>6, <1>7, <1>8, <1>9, <1>10, <1>11, <1>12, MoveKeeps DEF Falls

(* A worker whose time is over keeps what it has.                          *)
LEMMA ExpireKeeps ==
    ASSUME DeliveryInv, NEW v \in Visits, NEW d \in Dests, Expire(v, d)
    PROVE  DeliveryInv'
<1> DEFINE me == loc[v][d]
           l  == pc[v][d]
<1>1. /\ UNCHANGED <<kind, visited, phase, sweeps, cancelled, complete, rows, hurt, stirred,
                     serverVars, pc>>
      /\ d \in Working(v) /\ Spend("time")
  BY DEF Expire, flowVars
<1>2. me \in Local
  BY DEF DeliveryInv, Types, WorkerTypes
<1>3. PICK m \in Local :
          /\ m = With(me, [cut |-> TRUE]) /\ m.ops = me.ops /\ m.book = me.book
          /\ m.item = me.item /\ m.box = me.box /\ m.row = me.row
          /\ m.list = me.list /\ m.pairs = me.pairs
  BY <1>2, LocalsCut
<1>4. Moves(v, d, l, m)
  BY <1>1, <1>3 DEF Expire, Set, Moves, Goes, DeliveryInv, Types, WorkerTypes
<1>5. ServerTypes' /\ ServersGrow /\ Falls
  BY <1>1, ServersStill, Spending DEF DeliveryInv, Types, FlowTypes, Faults
<1>6. Types'
  BY <1>1, <1>4, <1>5, MoveTypes DEF DeliveryInv, Types, FlowTypes
<1>7. Semaphore'
  BY <1>1, <1>4, <1>6, MoveWorks
<1>8. pc'[v][d] = l /\ loc'[v][d] = m /\ l # "done"
  BY <1>1, <1>4, OneMoves DEF DeliveryInv, Working, Resting
<1>9. ASSUME v \in Fans
      PROVE  FanHolds(v, d)' /\ ReportedAt(v, d)'
  <2>1. FanHolds(v, d)
    BY <1>9 DEF DeliveryInv, FansHold
  <2>2. InGroup(d, m.item) => InGroup(d, m.item)'
    BY <1>5 DEF ServersGrow, Local
  <2>3. m.ops["group"] = "ok" => InGroup(d, loc[v][d].item)'
    BY <1>3, <1>8, <2>1, <2>2 DEF FanHolds
  <2> QED BY <1>1, <1>3, <1>8, <2>1, <2>3 DEF FanHolds, ReportedAt
<1>10. ASSUME v = Sweep
       PROVE  SweepHolds(d)'
  <2>1. SweepHolds(d)
    BY DEF DeliveryInv, SweepsHold
  <2>2. CASE l = "matched"
    <3> PICK b \in Books, row \in Row : b = me.book /\ row = me.row
      BY <1>2, <1>10, <2>1, <2>2 DEF SweepHolds, Local
    <3>1. Grouped(d, b, row)' /\ Honest(row)
      BY <1>5, <1>10, <2>1, <2>2, GroupedStays DEF SweepHolds, Row
    <3>2. Grouped(d, loc[v][d].book, loc[v][d].row)' /\ Honest(loc[v][d].row)'
      BY <1>3, <1>8, <3>1 DEF Honest
    <3> QED BY <1>1, <1>3, <1>8, <1>10, <2>1, <2>2, <3>2 DEF SweepHolds, Paired
  <2>3. CASE l # "matched"
    BY <1>1, <1>3, <1>8, <1>10, <2>1, <2>3 DEF SweepHolds, Paired
  <2> QED BY <2>2, <2>3
<1>11. m.row.tries <= Cardinality(Tried(d)) + 1 /\ m.box <= Len(boxes'[d])
  BY <1>1, <1>3 DEF DeliveryInv, Counted, Boxed, serverVars
<1> QED BY <1>1, <1>4, <1>5, <1>6, <1>7, <1>8, <1>9, <1>10, <1>11, MoveKeeps DEF Falls

(* What recordOutcomes makes of a row: never the row that stands for none, *)
(* synced only if no outcome failed, one attempt more (destinations.go).   *)
LEMMA RecordedRow ==
    ASSUME NEW row \in Row, NEW o \in [Ops -> Status], NEW i \in Items
    PROVE  LET new == Recorded(row, o, i) IN
           /\ new \in Row /\ new # NoRow /\ Honest(new)
           /\ new.tries = row.tries + 1 /\ new.ops = o
           /\ i # NoItem => new.item = i
<1> DEFINE new == Recorded(row, o, i)
<1>1. Summary(o) \in States /\ (Summary(o) # "failed" => \A k \in Ops : o[k] # "failed")
  BY DEF Summary, States
<1>2. new \in Row
  BY <1>1 DEF Recorded, Row
<1>3. new.tries = row.tries + 1 /\ new.ops = o /\ new.state = Summary(o)
      /\ (i # NoItem => new.item = i)
  BY DEF Recorded
<1>4. new.tries # NoRow.tries
  BY <1>3 DEF Row, NoRow
<1> QED BY <1>1, <1>2, <1>3, <1>4 DEF Honest

(* The row is read, or taken for none, or the fan-out was cancelled.       *)
LEMMA RecordReadKeeps ==
    ASSUME DeliveryInv, NEW f \in Fans, NEW d \in Dests, RecordRead(f, d)
    PROVE  DeliveryInv'
<1> DEFINE me == loc[f][d]
<1>1. /\ UNCHANGED <<kind, visited, phase, sweeps, cancelled, complete, rows, hurt, stirred,
                     serverVars>>
      /\ pc[f][d] = "read"
  BY DEF RecordRead, flowVars
<1>2. f \in Visits /\ f # Sweep /\ me \in Local /\ FanHolds(f, d)
  BY MediaServerAssumption DEF Visits, DeliveryInv, Types, WorkerTypes, FansHold
<1>3. visited[f] \in Books /\ rows[visited[f]][d] \in Row
  BY <1>1, <1>2 DEF FanHolds, DeliveryInv, Types, RowTypes, FlowTypes
<1>4. PICK l \in {"write", "done"}, m \in Local :
          /\ Goes(f, d, l, m) /\ Falls
          /\ m.row.tries <= Cardinality(Tried(d)) + 1 /\ m.box <= Len(boxes[d])
          /\ l = "done" => f \in cancelled /\ m = Fresh
          /\ l = "write" => m.book = me.book /\ m.item = me.item /\ m.ops = me.ops
  <2>1. CASE Set(f, d, [row |-> rows[visited[f]][d]]) /\ Goto(f, d, "write")
             /\ UNCHANGED budget
    <3>1. PICK m \in Local :
              /\ m = With(me, [row |-> rows[visited[f]][d]]) /\ m.row = rows[visited[f]][d]
              /\ m.book = me.book /\ m.item = me.item /\ m.ops = me.ops /\ m.box = me.box
      BY <1>2, <1>3, LocalsRow
    <3>2. Goes(f, d, "write", m) /\ Falls
      BY <2>1, <3>1 DEF Set, Goto, Goes, Falls, DeliveryInv, Types, FlowTypes, Faults
    <3> QED BY <1>2, <1>3, <3>1, <3>2 DEF DeliveryInv, Counted, Boxed
  <2>2. CASE Spend("db") /\ Goto(f, d, "write") /\ UNCHANGED loc
    <3>1. PICK m \in Local : m = me
      BY <1>2
    <3>2. Goes(f, d, "write", m)
      BY <2>2, <3>1 DEF Goto, Goes, DeliveryInv, Types, WorkerTypes
    <3>3. Falls
      BY <2>2, Spending DEF DeliveryInv, Types, FlowTypes, Faults
    <3> QED BY <1>2, <3>1, <3>2, <3>3 DEF DeliveryInv, Counted, Boxed
  <2>3. CASE f \in cancelled /\ UNCHANGED budget /\ Stop(f, d, "done")
    <3>1. PICK m \in Local : m = Fresh
      BY FreshLocal
    <3>2. Goes(f, d, "done", m) /\ Falls
      BY <2>3, <3>1 DEF Stop, Goto, Goes, Falls, DeliveryInv, Types, FlowTypes, Faults
    <3>3. m.row.tries = 0 /\ m.box = 0 /\ Len(boxes[d]) \in Nat
      BY <3>1 DEF Fresh, NoRow, DeliveryInv, Types, ServerTypes
    <3> QED BY <2>3, <3>1, <3>2, <3>3, TriedCounts
  <2> QED BY <2>1, <2>2, <2>3 DEF RecordRead
<1>5. Moves(f, d, l, m)
  BY <1>2, <1>4 DEF Moves, FanPCs
<1>6. ServerTypes' /\ ServersGrow
  BY <1>1, ServersStill DEF DeliveryInv, Types
<1>7. Types'
  BY <1>1, <1>4, <1>5, <1>6, MoveTypes DEF DeliveryInv, Types, FlowTypes
<1>8. Semaphore'
  BY <1>1, <1>5, <1>7, MoveWorks DEF Working, Resting
<1>9. pc'[f][d] = l /\ loc'[f][d] = m
  BY <1>5, OneMoves DEF DeliveryInv
<1>10. FanHolds(f, d)'
  <2>1. CASE l = "done"
    <3>1. visited'[f] # NoBook /\ m.ops["group"] = "none"
      BY <1>1, <1>2, <1>4, <2>1, FreshLocal DEF FanHolds
    <3> QED BY <1>9, <2>1, <3>1 DEF FanHolds, FanPCs
  <2>2. CASE l = "write"
    <3>1. InGroup(d, m.item) => InGroup(d, m.item)'
      BY <1>6 DEF ServersGrow, Local
    <3>2. m.ops["group"] = "ok" => InGroup(d, loc[f][d].item)'
      BY <1>2, <1>4, <1>9, <2>2, <3>1 DEF FanHolds
    <3>3. visited'[f] # NoBook /\ m.book = visited'[f]
      BY <1>1, <1>2, <1>4, <2>2 DEF FanHolds, FanPCs
    <3>4. m.ops["group"] = "ok" => m.item \in Stand(m.book)
      BY <1>2, <1>4, <2>2 DEF FanHolds
    <3> QED BY <1>9, <2>2, <3>2, <3>3, <3>4 DEF FanHolds, FanPCs
  <2> QED BY <2>1, <2>2
<1>11. ReportedAt(f, d)'
  BY <1>1, <1>4, <1>9 DEF ReportedAt
<1>12. m.box <= Len(boxes'[d])
  BY <1>1, <1>4 DEF serverVars
<1> QED BY <1>1, <1>2, <1>4, <1>5, <1>6, <1>7, <1>8, <1>10, <1>11, <1>12, MoveKeeps DEF Falls

(* A step of one worker that writes the row of a book with its server.     *)
LEMMA WriteKeeps ==
    ASSUME DeliveryInv, Types', NEW v, NEW d, NEW l, NEW m, Moves(v, d, l, m),
           ServersGrow, Semaphore', UNCHANGED <<visited, phase, cancelled>>,
           NEW b \in Books, NEW new \in Row, rows' = [rows EXCEPT ![b][d] = new],
           new # NoRow, Honest(new), Grouped(d, b, new)',
           new.tries <= Cardinality(Tried(d)') + 1,
           budget'["db"] <= budget["db"], v \in Fans => pc[v][d] # "done",
           m.row.tries <= Cardinality(Tried(d)') + 1,
           m.box <= Len(boxes'[d]),
           v \in Fans => FanHolds(v, d)' /\ ReportedAt(v, d)',
           v = Sweep => SweepHolds(d)'
    PROVE  DeliveryInv'
<1>1. \A u \in Visits, e \in Dests : u # v \/ e # d => Same(u, e)
  BY OneMoves DEF DeliveryInv, Same
<1>2. \A e \in Dests : Tried(e) \subseteq Tried(e)'
  <2> SUFFICES ASSUME NEW e \in Dests, NEW f \in Tried(e)
               PROVE  f \in Tried(e)'
    OBVIOUS
  <2>1. f \in Fans /\ f \in Visits /\ pc[f][e] = "done"
    BY DEF Tried, Visits
  <2>2. f # v \/ e # d
    BY <2>1
  <2> QED BY <2>1, <2>2, OneMoves DEF DeliveryInv, Tried
<1>3. /\ d \in Dests /\ v \in Visits /\ rows'[b][d] = new
      /\ \A c \in Books, e \in Dests : c # b \/ e # d => rows'[c][e] = rows[c][e]
  BY DEF DeliveryInv, Types, RowTypes, Moves
<1>4. Onward
  BY <1>2, <1>3 DEF Onward
<1>5. \A c \in Books, e \in Dests : rows[c][e].tries \in Nat
  BY DEF DeliveryInv, Types, RowTypes, Row
<1>6. \A c \in Books, e \in Dests : rows'[c][e].tries <= Cardinality(Tried(e)') + 1
  BY <1>2, <1>3, <1>5, TriedCounts DEF DeliveryInv, Counted
<1>7. Worker(v, d)'
  BY OneMoves DEF DeliveryInv, Worker
<1>8. RowsTrue'
  <2> SUFFICES ASSUME NEW c \in Books, NEW e \in Dests
               PROVE  Grouped(e, c, rows[c][e])' /\ Honest(rows[c][e])'
    BY DEF RowsTrue
  <2>1. CASE c = b /\ e = d
    BY <1>3, <2>1 DEF Grouped, Honest
  <2>2. CASE c # b \/ e # d
    <3> PICK row \in Row : row = rows[c][e]
      BY DEF DeliveryInv, Types, RowTypes
    <3>1. Grouped(e, c, row)' /\ Honest(row)
      BY GroupedStays DEF DeliveryInv, RowsTrue, Row
    <3> QED BY <1>3, <2>2, <3>1 DEF Honest
  <2> QED BY <2>1, <2>2
<1> QED BY <1>1, <1>4, <1>6, <1>7, <1>8, StepKeeps

(* The row is written, or the statement failed, or the fan-out was         *)
(* cancelled.                                                              *)
LEMMA RecordWriteKeeps ==
    ASSUME DeliveryInv, NEW f \in Fans, NEW d \in Dests, RecordWrite(f, d)
    PROVE  DeliveryInv'
<1>1. /\ UNCHANGED <<kind, visited, phase, sweeps, cancelled, complete, hurt, serverVars>>
      /\ pc[f][d] = "write" /\ Stop(f, d, "done")
  BY DEF RecordWrite, flowVars
<1>2. f \in Visits /\ f # Sweep /\ FanHolds(f, d)
  BY MediaServerAssumption DEF Visits, DeliveryInv, FansHold
<1> PICK me \in Local : me = loc[f][d]
  BY <1>2 DEF DeliveryInv, Types, WorkerTypes
<1>3. visited[f] \in Books /\ me.book = visited[f]
  BY <1>1, <1>2 DEF FanHolds, FanPCs, DeliveryInv, Types, FlowTypes
<1> PICK b \in Books : b = visited[f]
  BY <1>3
<1>4. PICK m \in Local : m = Fresh
  BY FreshLocal
<1>5. Moves(f, d, "done", m)
  BY <1>1, <1>2, <1>4 DEF Stop, Goto, Goes, Moves, FanPCs
<1>6. ServerTypes' /\ ServersGrow
  BY <1>1, ServersStill DEF DeliveryInv, Types
<1>7. pc'[f][d] = "done" /\ loc'[f][d] = m
  BY <1>5, OneMoves DEF DeliveryInv
<1>8. FanHolds(f, d)'
  <2>1. visited'[f] # NoBook /\ m.ops["group"] = "none"
    BY <1>1, <1>2, <1>4, FreshLocal DEF FanHolds
  <2> QED BY <1>7, <2>1 DEF FanHolds, FanPCs
<1>9. m.row.tries = 0 /\ m.box = 0 /\ Len(boxes[d]) \in Nat
  BY <1>4 DEF Fresh, NoRow, DeliveryInv, Types, ServerTypes
<1>10. WorkerTypes'
  BY <1>5, OneMoves DEF DeliveryInv
<1>11. budget["db"] \in Nat /\ Budget["db"] \in Nat /\ budget["db"] <= Budget["db"]
  BY MediaServerAssumption DEF DeliveryInv, Types, FlowTypes, Faults
<1>12. CASE /\ f \notin cancelled /\ UNCHANGED budget
            /\ rows' = [rows EXCEPT ![b][d] = Recorded(me.row, me.ops, me.item)]
            /\ stirred' = IF phase = "idle" THEN stirred ELSE stirred \cup {b}
  <2>1. PICK new \in Row :
            /\ new = Recorded(me.row, me.ops, me.item) /\ new # NoRow /\ Honest(new)
            /\ new.tries = me.row.tries + 1 /\ new.ops = me.ops
            /\ me.item # NoItem => new.item = me.item
    <3>1. me.row \in Row /\ me.item \in Items
      BY DEF Local
    <3>2. me.ops \in [Ops -> Status]
      BY DEF Local
    <3> QED BY <3>1, <3>2, RecordedRow
  <2>2. Grouped(d, b, new)'
    <3> SUFFICES ASSUME me.ops["group"] = "ok"
                 PROVE  Grouped(d, b, new)'
      BY <2>1 DEF Grouped
    <3>1. me.item \in Stand(b) /\ InGroup(d, me.item)
      BY <1>2, <1>3 DEF FanHolds
    <3>2. PICK i \in Books : i = me.item
      BY <1>3, <3>1, MediaServerAssumption DEF Stand, Named
    <3>3. new.item = i
      BY <2>1, <3>2, MediaServerAssumption DEF NoItem
    <3>4. InGroup(d, i)'
      BY <1>6, <3>1, <3>2 DEF ServersGrow, Items
    <3>5. i = b \/ i \in Lookalikes(b)
      BY <3>1, <3>2 DEF Stand, Lookalikes
    <3>6. CASE i = b
      BY <1>1, <3>3, <3>4, <3>6 DEF Grouped
    <3>7. CASE i \in Lookalikes(b)
      BY <1>1, <3>4, <3>7 DEF Grouped
    <3> QED BY <3>5, <3>6, <3>7
  <2>3. RowTypes' /\ FlowTypes'
    BY <1>1, <1>3, <1>12, <2>1 DEF RowTypes, FlowTypes, DeliveryInv, Types
  <2>4. Types'
    BY <1>6, <1>10, <2>3 DEF Types
  <2>5. Semaphore'
    BY <1>5, <2>4, MoveWorks DEF Resting
  <2>6. ReportedAt(f, d)'
    BY <1>1, <1>3, <1>12, <2>1 DEF ReportedAt, DeliveryInv, Types, RowTypes
  <2>7. new.tries <= Cardinality(Tried(d)') + 1
    <3>1. f \notin Tried(d) /\ Tried(d) \cup {f} \subseteq Tried(d)'
      BY <1>1, <1>5, <1>7, OneMoves DEF Tried, DeliveryInv, Visits
    <3>2. IsFiniteSet(Tried(d)) /\ IsFiniteSet(Tried(d)')
      BY MediaServerAssumption, FS_Subset DEF Tried
    <3>3. /\ Cardinality(Tried(d) \cup {f}) = Cardinality(Tried(d)) + 1
          /\ IsFiniteSet(Tried(d) \cup {f})
      BY <3>1, <3>2, FS_AddElement
    <3>4. Cardinality(Tried(d)) + 1 <= Cardinality(Tried(d)')
      BY <3>1, <3>2, <3>3, FS_Subset
    <3>5. me.row.tries <= Cardinality(Tried(d)) + 1 /\ me.row.tries \in Nat
      BY <1>2 DEF DeliveryInv, Counted, Local, Row
    <3> QED BY <2>1, <3>4, <3>5, TriedCounts
  <2>8. m.row.tries <= Cardinality(Tried(d)') + 1 /\ m.box <= Len(boxes'[d])
    BY <1>1, <1>9, TriedCounts DEF serverVars
  <2>9. rows' = [rows EXCEPT ![b][d] = new]
    BY <1>12, <2>1
  <2>10. budget'["db"] <= budget["db"]
    BY <1>11, <1>12
  <2>11. UNCHANGED <<visited, phase, cancelled>> /\ pc[f][d] # "done" /\ f # Sweep
    BY <1>1, <1>2
  <2> QED BY <1>5, <1>6, <1>8, <2>1, <2>2, <2>4, <2>5, <2>6, <2>7, <2>8, <2>9, <2>10, <2>11,
             WriteKeeps
<1>13. CASE /\ IF f \in cancelled THEN UNCHANGED budget ELSE Spend("db")
            /\ UNCHANGED <<rows, stirred>>
  <2>1. Falls /\ (f \in cancelled \/ budget'["db"] < budget["db"])
    BY <1>11, <1>13, Spending DEF Falls, DeliveryInv, Types, FlowTypes, Faults
  <2>2. Types'
    BY <1>1, <1>5, <1>6, <1>13, <2>1, MoveTypes DEF DeliveryInv, Types, FlowTypes
  <2>3. Semaphore'
    BY <1>5, <2>2, MoveWorks DEF Resting
  <2>4. ReportedAt(f, d)'
    <3>1. budget'["db"] \in Nat
      BY <2>1 DEF Falls, Faults
    <3> QED BY <1>1, <1>11, <2>1, <3>1 DEF ReportedAt
  <2>5. m.row.tries <= Cardinality(Tried(d)) + 1 /\ m.box <= Len(boxes'[d])
    BY <1>1, <1>9, TriedCounts DEF serverVars
  <2>6. budget'["db"] <= budget["db"] /\ UNCHANGED rows
    BY <1>13, <2>1 DEF Falls
  <2>7. UNCHANGED <<visited, phase, cancelled>> /\ pc[f][d] # "done" /\ f # Sweep
    BY <1>1, <1>2
  <2> QED BY <1>5, <1>6, <1>8, <2>2, <2>3, <2>4, <2>5, <2>6, <2>7, MoveKeeps
<1> QED BY <1>12, <1>13 DEF RecordWrite, Me

-----------------------------------------------------------------------------
(* The steps of the sweep *)

(* A step of the sweep's worker that writes no row, to the place l with    *)
(* the locals m.                                                           *)
SweptTo(d, l, m) ==
    /\ pc[Sweep][d] \in {"refresh", "list"} \cup Listing \cup Grouping
    /\ l \in {"done", "failed"} \cup Listing \cup Grouping
    /\ Goes(Sweep, d, l, m)
    /\ l \notin {"done", "failed"} => phase = "reconcile"
    /\ m.row.tries <= Cardinality(Tried(d)) + 1
    /\ m.box <= Len(boxes'[d])
    /\ l \in {"matching", "matched"} => Paired(m)
    /\ l = "matched" =>
          /\ <<m.item, m.book>> \in m.pairs
          /\ Grouped(d, m.book, m.row)' /\ Honest(m.row)

(* Such a step keeps the invariant.                                        *)
LEMMA SweptKeeps ==
    ASSUME DeliveryInv, NEW d \in Dests, NEW l, NEW m \in Local, SweptTo(d, l, m),
           ServerTypes', ServersGrow, Falls, hurt' \subseteq Dests,
           UNCHANGED <<visited, phase, sweeps, cancelled, complete, rows, stirred>>
    PROVE  DeliveryInv'
<1>1. Sweep \in Visits /\ Sweep \notin Fans
  BY MediaServerAssumption DEF Visits
<1>2. l \in SweepPCs /\ l # "idle" /\ l # "queued" /\ l # "refresh" /\ l # "list"
  BY DEF SweptTo, SweepPCs, Listing, Grouping
<1>3. Moves(Sweep, d, l, m)
  BY <1>1, <1>2 DEF SweptTo, Moves
<1>4. Types'
  BY <1>3, MoveTypes DEF DeliveryInv, Types, FlowTypes
<1>5. d \in Working(Sweep)
  BY DEF SweptTo, Working, Resting, Listing, Grouping
<1>6. Semaphore'
  BY <1>3, <1>4, <1>5, MoveWorks
<1>7. pc'[Sweep][d] = l /\ loc'[Sweep][d] = m
  BY <1>3, OneMoves DEF DeliveryInv
<1>8. SweepHolds(d)'
  <2>1. l = "matched" => (Grouped(d, loc[Sweep][d].book, loc[Sweep][d].row)
                          /\ Honest(loc[Sweep][d].row))'
    <3> PICK b \in Books \cup {NoBook}, row \in Row : b = m.book /\ row = m.row
      BY DEF Local
    <3>1. l = "matched" => Grouped(d, b, row)' /\ Honest(row)
      BY DEF SweptTo
    <3>2. l = "matched" => Grouped(d, loc[Sweep][d].book, loc[Sweep][d].row)'
      BY <1>7, <3>1
    <3>3. l = "matched" => Honest(loc[Sweep][d].row)'
      BY <1>7, <3>1 DEF Honest
    <3> QED BY <1>7, <3>1, <3>2, <3>3
  <2>2. l \in {"list"} \cup Listing \cup Grouping => phase' = "reconcile"
    BY <1>2 DEF SweptTo, Listing, Grouping
  <2>3. /\ l \in {"matching", "matched"} => Paired(loc[Sweep][d])'
        /\ l = "matched" => <<loc'[Sweep][d].item, loc'[Sweep][d].book>> \in loc'[Sweep][d].pairs
    BY <1>7 DEF SweptTo, Paired
  <2> QED BY <1>2, <1>7, <2>1, <2>2, <2>3 DEF SweepHolds
<1>9. m.row.tries <= Cardinality(Tried(d)) + 1 /\ m.box <= Len(boxes'[d])
  BY DEF SweptTo
<1> QED BY <1>1, <1>3, <1>4, <1>6, <1>8, <1>9, MoveKeeps DEF Falls

(* What the worker of the sweep holds.                                     *)
LEMMA SweepHas ==
    ASSUME DeliveryInv, NEW d \in Dests
    PROVE  /\ loc[Sweep][d] \in Local /\ loc[Sweep][d].row \in Row
           /\ loc[Sweep][d].row.tries <= Cardinality(Tried(d)) + 1
           /\ loc[Sweep][d].box \in Nat /\ loc[Sweep][d].box <= Len(boxes[d])
           /\ Len(boxes[d]) \in Nat
           /\ loc[Sweep][d].todo \subseteq Books /\ loc[Sweep][d].ids \in [Books -> Items]
           /\ loc[Sweep][d].list \subseteq Books
           /\ loc[Sweep][d].pairs \subseteq Books \X Books
           /\ budget \in [Faults -> Nat] /\ "net" \in Faults /\ "db" \in Faults
<1>1. Sweep \in Visits
  BY DEF Visits
<1>2. loc[Sweep][d] \in Local
  BY <1>1 DEF DeliveryInv, Types, WorkerTypes
<1>3. /\ loc[Sweep][d].row.tries <= Cardinality(Tried(d)) + 1
      /\ loc[Sweep][d].box <= Len(boxes[d])
  BY <1>1 DEF DeliveryInv, Counted, Boxed
<1>4. Len(boxes[d]) \in Nat /\ budget \in [Faults -> Nat]
  BY DEF DeliveryInv, Types, ServerTypes, FlowTypes
<1>5. "net" \in Faults /\ "db" \in Faults
  BY DEF Faults
<1> QED BY <1>2, <1>3, <1>4, <1>5 DEF Local

(* The sweep's worker stops with a server.                                 *)
LEMMA StopKeeps ==
    ASSUME DeliveryInv, NEW d \in Dests, NEW l \in {"done", "failed"},
           pc[Sweep][d] \in {"refresh", "list"} \cup Listing \cup Grouping,
           Stop(Sweep, d, l), UNCHANGED serverVars, Falls, hurt' \subseteq Dests,
           UNCHANGED <<kind, visited, phase, sweeps, cancelled, complete, rows, stirred>>
    PROVE  DeliveryInv'
<1>1. PICK m \in Local : m = Fresh
  BY FreshLocal
<1>2. m.row.tries = 0 /\ m.box = 0
  BY <1>1 DEF Fresh, NoRow
<1>3. Goes(Sweep, d, l, m)
  BY <1>1 DEF Stop, Goto, Goes
<1>4. ServerTypes' /\ ServersGrow
  BY ServersStill DEF DeliveryInv, Types
<1>5. 0 <= Cardinality(Tried(d)) + 1 /\ 0 <= Len(boxes'[d])
  BY <1>4, TriedCounts DEF ServerTypes
<1>6. SweptTo(d, l, m)
  BY <1>2, <1>3, <1>5 DEF SweptTo
<1> QED BY <1>4, <1>6, SweptKeeps

(* What a call of a reconcile does, whatever the backend.                  *)
AtReconcile(d, P) == pc[Sweep][d] \in P /\ kind[d] \in {"plex", "emby"}
Listed(d) ==
    /\ pc[Sweep][d] = "list" /\ Ok(Sweep, d) /\ UNCHANGED serverVars
    /\ \E P \in SUBSET (Books \X Books) :
          /\ \A p \in P : p[1] \in Named(p[2]) \cap indexed[d]
          /\ kind[d] \in {"plex", "emby"} => \A b \in indexed[d] \cap complete : <<b, b>> \in P
          /\ Set(Sweep, d, [list |-> indexed[d], pairs |-> P])
    /\ Goto(Sweep, d, "matching")
Failed(d) ==
    /\ pc[Sweep][d] \in {"list", "load", "identity"}
    /\ Err(Sweep, d, "net") \/ Err(Sweep, d, "db")
    /\ UNCHANGED serverVars /\ Stop(Sweep, d, "failed")
Loaded(d) ==
    /\ AtReconcile(d, {"load"}) /\ Ok(Sweep, d) /\ UNCHANGED serverVars
    /\ \E T \in SUBSET Books, l \in {"identity", "look", "add"} :
          /\ \A b \in complete \cap InSeries \cap loc[Sweep][d].list :
                rows[b][d].item \in Named(b) \cap loc[Sweep][d].list => b \in T
          /\ l = "add" => T = {}
          /\ Set(Sweep, d, [todo |-> T, ids |-> ItemIDs(d)])
          /\ Goto(Sweep, d, l)
Looked(d) ==
    /\ AtReconcile(d, {"identity", "look"}) /\ Ok(Sweep, d)
    /\ UNCHANGED <<serverVars, loc>>
    /\ Goto(Sweep, d, "look") \/ Goto(Sweep, d, "create")
Found(d) ==
    /\ AtReconcile(d, {"look", "create"}) /\ Ok(Sweep, d)
    /\ UNCHANGED <<indexed, tagged>>
    /\ \/ UNCHANGED boxes /\ boxes[d] # <<>> /\ Set(Sweep, d, [box |-> 1])
       \/ /\ \E S \in SUBSET Items : NewBox(d, S)
          /\ Set(Sweep, d, [box |-> Len(boxes[d]) + 1])
    /\ Goto(Sweep, d, "add")
GaveUp(d) ==
    /\ AtReconcile(d, {"look", "create"}) /\ Err(Sweep, d, "net")
    /\ UNCHANGED <<indexed, tagged>>
    /\ UNCHANGED boxes \/ \E S \in SUBSET Items : NewBox(d, S)
    /\ Set(Sweep, d, [todo |-> {}]) /\ Goto(Sweep, d, "add")
AddedAgain(d) ==
    /\ AtReconcile(d, {"add"})
    /\ \E b \in loc[Sweep][d].todo :
          /\ \/ Ok(Sweep, d) /\ PutInBox(d, loc[Sweep][d].box, loc[Sweep][d].ids[b])
             \/ Err(Sweep, d, "net") /\ UNCHANGED boxes
          /\ Set(Sweep, d, [todo |-> loc[Sweep][d].todo \ {b}])
    /\ UNCHANGED <<pc, indexed, tagged>>

Reconciling(d) ==
    Listed(d) \/ Failed(d) \/ Loaded(d) \/ Looked(d) \/ Found(d) \/ GaveUp(d)
    \/ AddedAgain(d)

(* The items matched with books are listed ones of the same title, and a   *)
(* listed item of a complete book is matched with the book.                *)
LEMMA Pairing ==
    ASSUME DeliveryInv, NEW d \in Dests
    PROVE  \E P \in SUBSET (Books \X Books) :
              /\ P = ByTitle(indexed[d])
              /\ \A p \in P : p[1] \in Named(p[2]) \cap indexed[d]
              /\ \A b \in indexed[d] \cap complete : <<b, b>> \in P
<1>1. indexed[d] \subseteq Books /\ complete \subseteq Books
  BY DEF DeliveryInv, Types, ServerTypes, RowTypes
<1>2. ByTitle(indexed[d]) \in SUBSET (Books \X Books)
  BY <1>1 DEF ByTitle
<1>3. \A p \in ByTitle(indexed[d]) : p[1] \in Named(p[2]) \cap indexed[d]
  BY <1>1 DEF ByTitle, Named
<1>4. \A b \in indexed[d] \cap complete : <<b, b>> \in ByTitle(indexed[d])
  BY DEF ByTitle
<1> QED BY <1>2, <1>3, <1>4

(* So does every call of a reconcile of Plex (plex.go).                    *)
LEMMA PlexReconciles ==
    ASSUME DeliveryInv, NEW d \in Dests, PlexReconcile(d)
    PROVE  Reconciling(d)
<1> DEFINE me == loc[Sweep][d]
<1>1. me.todo \subseteq Books /\ indexed[d] \subseteq Books /\ complete \subseteq Books
  BY SweepHas DEF DeliveryInv, Types, ServerTypes, RowTypes
<1>2. CASE PlexListAlbums(d)
  <2>1. PICK P \in SUBSET (Books \X Books) :
            /\ P = ByTitle(indexed[d])
            /\ \A p \in P : p[1] \in Named(p[2]) \cap indexed[d]
            /\ \A b \in indexed[d] \cap complete : <<b, b>> \in P
    BY Pairing
  <2> QED BY <1>2, <2>1 DEF PlexListAlbums, At, Me, Reconciling, Listed, Failed
<1>3. CASE PlexSeries(d)
  <2>1. PICK T \in SUBSET Books : T = PlexSeriesBooks(d, me.list, ItemIDs(d))
    BY <1>1 DEF PlexSeriesBooks
  <2>2. \A b \in complete \cap InSeries \cap me.list :
           rows[b][d].item \in Named(b) \cap me.list => b \in T
    BY <1>1, <2>1 DEF PlexSeriesBooks, ItemIDs
  <2>3. Err(Sweep, d, "db") /\ Stop(Sweep, d, "failed") => Failed(d)
    BY <1>3 DEF PlexSeries, At, Failed
  <2>4. ASSUME Ok(Sweep, d), Set(Sweep, d, [todo |-> T, ids |-> ItemIDs(d)]),
               Goto(Sweep, d, IF T = {} THEN "add" ELSE "identity")
        PROVE  Loaded(d)
    <3>1. PICK l \in {"identity", "look", "add"} :
              l = IF T = {} THEN "add" ELSE "identity"
      OBVIOUS
    <3> QED BY <1>3, <2>2, <2>4, <3>1 DEF PlexSeries, At, Loaded, AtReconcile
  <2> QED BY <1>3, <2>1, <2>3, <2>4 DEF PlexSeries, Me, Reconciling
<1>4. CASE PlexMachineIdentifier(d)
  BY <1>4 DEF PlexMachineIdentifier, At, Reconciling, Looked, Failed, AtReconcile
<1>5. CASE PlexFindCollection(Sweep, d)
  BY <1>5 DEF PlexFindCollection, PlexNoGroup, At, Reconciling, Looked, Found, GaveUp,
              AtReconcile, serverVars
<1>6. CASE PlexCreateCollection(Sweep, d)
  <2>1. {} \in SUBSET Items
    OBVIOUS
  <2> QED BY <1>6, <2>1 DEF PlexCreateCollection, PlexNoGroup, At, Reconciling, Found,
                            GaveUp, AtReconcile
<1>7. CASE PlexAddAgain(d)
  <2>1. FirstOf(me.todo) \in me.todo
    BY <1>7 DEF PlexAddAgain, Me, FirstOf
  <2> QED BY <1>7, <2>1 DEF PlexAddAgain, At, Me, Reconciling, AddedAgain, AtReconcile
<1> QED BY <1>2, <1>3, <1>4, <1>5, <1>6, <1>7 DEF PlexReconcile

(* So does every call of a reconcile of Emby (emby.go).                    *)
LEMMA EmbyReconciles ==
    ASSUME DeliveryInv, NEW d \in Dests, EmbyReconcile(d)
    PROVE  Reconciling(d)
<1> DEFINE me == loc[Sweep][d]
<1>1. me.todo \subseteq Books /\ indexed[d] \subseteq Books /\ complete \subseteq Books
      /\ me.ids \in [Books -> Items]
  BY SweepHas DEF DeliveryInv, Types, ServerTypes, RowTypes
<1>2. CASE EmbyListItems(d)
  <2>1. PICK P \in SUBSET (Books \X Books) :
            /\ P = ByTitle(indexed[d])
            /\ \A p \in P : p[1] \in Named(p[2]) \cap indexed[d]
            /\ \A b \in indexed[d] \cap complete : <<b, b>> \in P
    BY Pairing
  <2> QED BY <1>2, <2>1 DEF EmbyListItems, At, Me, Reconciling, Listed, Failed
<1>3. CASE EmbySeries(d)
  <2>1. PICK T \in SUBSET Books :
            T = {b \in complete \cap InSeries : EmbyIDs(d)[b] # NoItem}
    BY <1>1
  <2>2. \A b \in complete \cap InSeries \cap me.list :
           rows[b][d].item \in Named(b) \cap me.list => b \in T
    BY <1>1, <2>1, MediaServerAssumption DEF EmbyIDs, ItemIDs, NoItem, Named
  <2>3. Err(Sweep, d, "db") /\ Stop(Sweep, d, "failed") => Failed(d)
    BY <1>3 DEF EmbySeries, At, Failed
  <2>4. ASSUME Ok(Sweep, d), Set(Sweep, d, [todo |-> T, ids |-> ItemIDs(d)]),
               Goto(Sweep, d, IF T = {} THEN "add" ELSE "look")
        PROVE  Loaded(d)
    <3>1. PICK l \in {"identity", "look", "add"} :
              l = IF T = {} THEN "add" ELSE "look"
      OBVIOUS
    <3> QED BY <1>3, <2>2, <2>4, <3>1 DEF EmbySeries, At, Loaded, AtReconcile
  <2> QED BY <1>3, <2>1, <2>3, <2>4 DEF EmbySeries, EmbyIDs, Me, Reconciling
<1>5. CASE EmbyFindCollection(Sweep, d)
  BY <1>5 DEF EmbyFindCollection, EmbyNoGroup, At, Reconciling, Looked, Found, GaveUp,
              AtReconcile, serverVars
<1>6. CASE EmbyCreateCollection(Sweep, d)
  <2>1. PICK seed \in EmbySeeds(Sweep, d) :
            \/ /\ Ok(Sweep, d) /\ NewBox(d, {seed})
               /\ Set(Sweep, d, [box |-> Len(boxes[d]) + 1]) /\ Goto(Sweep, d, "add")
            \/ /\ EmbyNoGroup(Sweep, d)
               /\ \E done \in Perhaps(Sweep, d) :
                     IF done THEN NewBox(d, {seed}) ELSE UNCHANGED boxes
    BY <1>6 DEF EmbyCreateCollection
  <2>2. {seed} \in SUBSET Items
    BY <1>1 DEF EmbySeeds, Me
  <2> QED BY <1>6, <2>1, <2>2 DEF EmbyCreateCollection, EmbyNoGroup, At, Reconciling,
                                  Found, GaveUp, AtReconcile
<1>7. CASE EmbyAddAgain(d)
  <2>1. FirstOf(me.todo) \in me.todo
    BY <1>7 DEF EmbyAddAgain, Me, FirstOf
  <2> QED BY <1>7, <2>1 DEF EmbyAddAgain, At, Me, Reconciling, AddedAgain, AtReconcile
<1> QED BY <1>2, <1>3, <1>5, <1>6, <1>7 DEF EmbyReconcile

(* Jellyfin and ABS only list (jellyfin.go, abs.go).                       *)
LEMMA Reconciles ==
    ASSUME DeliveryInv, NEW d \in Dests, ReconcileCalls(d)
    PROVE  /\ Reconciling(d)
           /\ UNCHANGED <<kind, visited, phase, sweeps, cancelled, complete, rows, stirred>>
<1>1. indexed[d] \in SUBSET Books
  BY DEF DeliveryInv, Types, ServerTypes
<1>2. ASSUME JellyfinListAudioBooks(d)
      PROVE  Listed(d) \/ Failed(d)
  <2>1. PICK P \in SUBSET (Books \X Books) :
            /\ P = ByTitle(indexed[d])
            /\ \A p \in P : p[1] \in Named(p[2]) \cap indexed[d]
    BY Pairing
  <2> QED BY <1>2, <2>1 DEF JellyfinListAudioBooks, At, Listed, Failed
<1>3. ASSUME AbsListItems(d)
      PROVE  Listed(d) \/ Failed(d)
  <2>0. {<<b, b>> : b \in indexed[d]} \in SUBSET (Books \X Books)
    BY <1>1
  <2>1. PICK P \in SUBSET (Books \X Books) : P = {<<b, b>> : b \in indexed[d]}
    BY <2>0
  <2>2. \A p \in P : p[1] \in Named(p[2]) \cap indexed[d]
    BY <1>1, <2>1 DEF Named
  <2> QED BY <1>3, <2>1, <2>2 DEF AbsListItems, At, Listed, Failed
<1>4. Reconciling(d)
  BY <1>2, <1>3, PlexReconciles, EmbyReconciles DEF ReconcileCalls, Reconciling
<1> QED BY <1>4 DEF ReconcileCalls, flowVars

(* Where a call of a reconcile leaves the worker and its server.           *)
LEMMA ReconcilesTo ==
    ASSUME DeliveryInv, NEW d \in Dests, Reconciling(d), kind' = kind
    PROVE  /\ ServerTypes' /\ ServersGrow /\ Falls /\ hurt' \subseteq Dests
           /\ \E l \in {"failed", "matching", "identity", "add"} \cup Grouping, m \in Local :
                 SweptTo(d, l, m)
<1> PICK me \in Local : me = loc[Sweep][d]
  BY SweepHas
<1>1. /\ me.row.tries <= Cardinality(Tried(d)) + 1 /\ me.box \in Nat
      /\ me.box <= Len(boxes[d]) /\ Len(boxes[d]) \in Nat /\ me.todo \subseteq Books
      /\ me.ids \in [Books -> Items]
  BY SweepHas
<1>2. ServerTypes /\ UNCHANGED serverVars => ServerTypes' /\ ServersGrow /\ boxes' = boxes
  BY ServersStill DEF serverVars
<1>3. ServerTypes /\ hurt \subseteq Dests /\ pc[Sweep][d] \in SweepPCs
      /\ pc \in [Visits -> [Dests -> FanPCs \cup SweepPCs]]
      /\ loc \in [Visits -> [Dests -> Local]] /\ Sweep \in Visits
  BY DEF DeliveryInv, Types, FlowTypes, WorkerTypes, Visits, SweepsHold, SweepHolds
<1>4. pc[Sweep][d] \in {"list"} \cup Listing \cup Grouping => phase = "reconcile"
  BY DEF DeliveryInv, SweepsHold, SweepHolds
<1>5. \A k \in {"net", "db"} : Ok(Sweep, d) \/ Err(Sweep, d, k)
         => Falls /\ hurt' \subseteq Dests
  BY <1>3, SweepHas, Calling
<1>6. ASSUME NEW l \in {"matching", "identity", "add"} \cup Grouping, NEW m \in Local,
             Goes(Sweep, d, l, m), m.row = me.row, m.box <= Len(boxes'[d]),
             pc[Sweep][d] \in {"list"} \cup Listing \cup Grouping,
             l = "matching" => Paired(m)
      PROVE  SweptTo(d, l, m)
  BY <1>1, <1>4, <1>6 DEF SweptTo, Listing, Grouping
<1>7. CASE Listed(d)
  <2>1. PICK P \in SUBSET (Books \X Books) :
            /\ \A p \in P : p[1] \in Named(p[2]) \cap indexed[d]
            /\ Set(Sweep, d, [list |-> indexed[d], pairs |-> P])
    BY <1>7 DEF Listed
  <2>2. indexed[d] \in SUBSET Books
    BY <1>3 DEF ServerTypes
  <2>3. PICK m \in Local : /\ m = With(me, [list |-> indexed[d], pairs |-> P])
                           /\ m.row = me.row /\ m.box = me.box
                           /\ m.list = indexed[d] /\ m.pairs = P
    BY <2>2, LocalsList
  <2>4. Goes(Sweep, d, "matching", m) /\ UNCHANGED serverVars /\ Ok(Sweep, d)
        /\ pc[Sweep][d] = "list"
    BY <1>7, <2>1, <2>3 DEF Listed, Set, Goto, Goes
  <2>5. m.box <= Len(boxes'[d])
    BY <1>1, <1>2, <1>3, <2>3, <2>4
  <2>6. SweptTo(d, "matching", m)
    BY <1>6, <2>1, <2>3, <2>4, <2>5 DEF Paired
  <2> QED BY <1>2, <1>3, <1>5, <2>4, <2>6
<1>8. CASE Failed(d)
  <2>1. PICK m \in Local : m = Fresh
    BY FreshLocal
  <2>2. Goes(Sweep, d, "failed", m) /\ m.row.tries = 0 /\ m.box = 0
    BY <1>8, <2>1 DEF Failed, Stop, Goto, Goes, Fresh, NoRow
  <2>3. UNCHANGED serverVars /\ pc[Sweep][d] \in {"list"} \cup Listing
    BY <1>8 DEF Failed, Listing
  <2>4. SweptTo(d, "failed", m)
    BY <1>1, <1>2, <1>3, <2>2, <2>3, TriedCounts DEF SweptTo
  <2> QED BY <1>2, <1>3, <1>5, <1>8, <2>3, <2>4 DEF Failed
<1>9. CASE Loaded(d)
  <2>1. PICK T \in SUBSET Books, l \in {"identity", "look", "add"} :
            Set(Sweep, d, [todo |-> T, ids |-> ItemIDs(d)]) /\ Goto(Sweep, d, l)
    BY <1>9 DEF Loaded
  <2>2. PICK ids \in [Books -> Items] : ids = ItemIDs(d)
    BY DEF ItemIDs, DeliveryInv, Types, RowTypes, Row
  <2>3. PICK m \in Local : /\ m = With(me, [todo |-> T, ids |-> ids])
                           /\ m.row = me.row /\ m.box = me.box
    BY LocalsIds
  <2>4. Goes(Sweep, d, l, m) /\ UNCHANGED serverVars /\ Ok(Sweep, d)
        /\ pc[Sweep][d] = "load"
    BY <1>9, <2>1, <2>2, <2>3 DEF Loaded, AtReconcile, Set, Goto, Goes
  <2>5. m.box <= Len(boxes'[d])
    BY <1>1, <1>2, <1>3, <2>3, <2>4
  <2>6. SweptTo(d, l, m)
    BY <1>6, <2>3, <2>4, <2>5 DEF Listing, Grouping
  <2> QED BY <1>2, <1>3, <1>5, <2>4, <2>6 DEF Grouping
<1>10. CASE Looked(d)
  <2>1. PICK l \in {"look", "create"} : Goto(Sweep, d, l)
    BY <1>10 DEF Looked
  <2>2. PICK m \in Local : m = me
    BY <1>1
  <2>3. Goes(Sweep, d, l, m) /\ UNCHANGED serverVars /\ Ok(Sweep, d)
        /\ pc[Sweep][d] \in {"identity", "look"}
    BY <1>3, <1>10, <2>1, <2>2 DEF Looked, AtReconcile, Goto, Goes
  <2>4. m.box <= Len(boxes'[d])
    BY <1>1, <1>2, <1>3, <2>2, <2>3
  <2>5. SweptTo(d, l, m)
    BY <1>6, <2>2, <2>3, <2>4 DEF Listing, Grouping
  <2> QED BY <1>2, <1>3, <1>5, <2>3, <2>5 DEF Grouping
<1>11. CASE Found(d)
  <2>1. PICK n \in Nat : Set(Sweep, d, [box |-> n]) /\ n <= Len(boxes'[d])
                         /\ ServerTypes' /\ ServersGrow
    <3>1. CASE UNCHANGED boxes /\ boxes[d] # <<>> /\ Set(Sweep, d, [box |-> 1])
      <4>1. Len(boxes[d]) >= 1
        BY <1>1, <1>3, <3>1 DEF ServerTypes
      <4>2. UNCHANGED serverVars
        BY <1>11, <3>1 DEF Found, serverVars
      <4>3. 1 \in Nat /\ 1 <= Len(boxes'[d])
        BY <1>1, <3>1, <4>1
      <4> QED BY <1>2, <1>3, <3>1, <4>2, <4>3
    <3>2. CASE /\ \E S \in SUBSET Items : NewBox(d, S)
               /\ Set(Sweep, d, [box |-> Len(boxes[d]) + 1])
      <4>1. ServerTypes' /\ ServersGrow /\ Len(boxes'[d]) = Len(boxes[d]) + 1
        BY <1>3, <1>11, <3>2, NewBoxGrows DEF Found
      <4>2. Len(boxes[d]) + 1 \in Nat /\ Len(boxes[d]) + 1 <= Len(boxes'[d])
        BY <1>1, <4>1
      <4> QED BY <3>2, <4>1, <4>2
    <3> QED BY <1>11, <3>1, <3>2 DEF Found
  <2>2. PICK m \in Local : m = With(me, [box |-> n]) /\ m.row = me.row /\ m.box = n
    BY <1>1, LocalsBox
  <2>3. Goes(Sweep, d, "add", m) /\ Ok(Sweep, d) /\ pc[Sweep][d] \in {"look", "create"}
    BY <1>11, <2>1, <2>2 DEF Found, AtReconcile, Set, Goto, Goes
  <2>4. SweptTo(d, "add", m)
    BY <1>6, <2>1, <2>2, <2>3 DEF Grouping
  <2> QED BY <1>5, <2>1, <2>3, <2>4
<1>12. CASE GaveUp(d)
  <2>1. ServerTypes' /\ ServersGrow /\ Len(boxes[d]) <= Len(boxes'[d])
    <3>1. CASE UNCHANGED boxes
      BY <1>1, <1>2, <1>3, <1>12, <3>1 DEF GaveUp, serverVars
    <3>2. CASE \E S \in SUBSET Items : NewBox(d, S)
      BY <1>1, <1>3, <1>12, <3>2, NewBoxGrows DEF GaveUp
    <3> QED BY <1>12, <3>1, <3>2 DEF GaveUp
  <2>2. PICK m \in Local : /\ m = With(me, [todo |-> {}]) /\ m.row = me.row
                           /\ m.box = me.box
    BY <1>1, LocalsTodo
  <2>3. Goes(Sweep, d, "add", m) /\ Err(Sweep, d, "net")
        /\ pc[Sweep][d] \in {"look", "create"}
    BY <1>12, <2>2 DEF GaveUp, AtReconcile, Set, Goto, Goes
  <2>4. m.box <= Len(boxes'[d])
    <3>1. Len(boxes'[d]) \in Nat
      BY <2>1 DEF ServerTypes
    <3> QED BY <1>1, <2>1, <2>2, <3>1
  <2>5. SweptTo(d, "add", m)
    BY <1>6, <2>2, <2>3, <2>4 DEF Grouping
  <2> QED BY <1>5, <2>1, <2>3, <2>5
<1>13. CASE AddedAgain(d)
  <2>1. PICK b \in me.todo :
            /\ \/ Ok(Sweep, d) /\ PutInBox(d, me.box, me.ids[b])
               \/ Err(Sweep, d, "net") /\ UNCHANGED boxes
            /\ Set(Sweep, d, [todo |-> me.todo \ {b}])
    BY <1>13 DEF AddedAgain
  <2>2. me.ids[b] \in Items
    BY <1>1
  <2>3. ServerTypes' /\ ServersGrow /\ Len(boxes'[d]) = Len(boxes[d])
    <3>1. CASE PutInBox(d, me.box, me.ids[b])
      BY <1>1, <1>3, <1>13, <2>2, <3>1, PutInBoxGrows DEF AddedAgain
    <3>2. CASE UNCHANGED boxes
      BY <1>2, <1>3, <1>13, <3>2 DEF AddedAgain, serverVars
    <3> QED BY <2>1, <3>1, <3>2
  <2>4. PICK m \in Local : /\ m = With(me, [todo |-> me.todo \ {b}]) /\ m.row = me.row
                           /\ m.box = me.box
    BY <1>1, LocalsTodo
  <2>5. Goes(Sweep, d, "add", m) /\ pc[Sweep][d] = "add"
    <3>1. pc[Sweep][d] = "add" /\ pc' = pc
      BY <1>13 DEF AddedAgain, AtReconcile
    <3>2. pc' = [pc EXCEPT ![Sweep][d] = "add"]
      BY <1>3, <3>1
    <3>3. loc' = [loc EXCEPT ![Sweep][d] = m]
      BY <2>1, <2>4 DEF Set
    <3> QED BY <3>1, <3>2, <3>3 DEF Goes
  <2>6. SweptTo(d, "add", m)
    BY <1>1, <1>6, <2>3, <2>4, <2>5 DEF Grouping
  <2> QED BY <1>5, <2>1, <2>3, <2>6
<1> QED BY <1>7, <1>8, <1>9, <1>10, <1>11, <1>12, <1>13 DEF Reconciling

(* A call of a reconcile.                                                  *)
LEMMA ReconcileKeeps ==
    ASSUME DeliveryInv, NEW d \in Dests, ReconcileCalls(d)
    PROVE  DeliveryInv'
BY Reconciles, ReconcilesTo, SweptKeeps

(* The scan is asked for, or cannot be (TriggerScanAll).                   *)
LEMMA RefreshKeeps ==
    ASSUME DeliveryInv, NEW d \in Dests, Refresh(d)
    PROVE  DeliveryInv'
<1>1. PICK l \in {"done", "failed"} :
          Stop(Sweep, d, l) /\ (Ok(Sweep, d) \/ Err(Sweep, d, "net"))
  BY DEF Refresh
<1>2. UNCHANGED <<kind, visited, phase, sweeps, cancelled, complete, rows, stirred>>
      /\ UNCHANGED serverVars /\ pc[Sweep][d] = "refresh"
  BY DEF Refresh, flowVars
<1>3. Falls /\ hurt' \in {hurt, hurt \cup {d}}
  <2>1. Sweep \in Visits
    BY DEF Visits
  <2> QED BY <1>1, <2>1, SweepHas, Calling
<1>4. hurt' \subseteq Dests
  BY <1>3 DEF DeliveryInv, Types, FlowTypes
<1> QED BY <1>1, <1>2, <1>3, <1>4, StopKeeps

(* A reconcile goes on to the collections, or ends.                        *)
LEMMA MatchedKeeps ==
    ASSUME DeliveryInv, NEW d \in Dests, Matched(d) \/ Reconciled(d)
    PROVE  DeliveryInv'
<1>1. /\ UNCHANGED <<kind, visited, phase, sweeps, cancelled, complete, rows, stirred>>
      /\ UNCHANGED serverVars /\ UNCHANGED <<hurt, budget>>
      /\ pc[Sweep][d] \in {"matching", "add"}
  BY DEF Matched, Reconciled, flowVars
<1>2. Falls /\ hurt' \subseteq Dests
  BY <1>1 DEF Falls, Faults, DeliveryInv, Types, FlowTypes
<1>3. CASE \E l \in {"done", "failed"} : Stop(Sweep, d, l)
  BY <1>1, <1>2, <1>3, StopKeeps DEF Listing, Grouping
<1>4. CASE /\ pc[Sweep][d] = "matching" /\ Goto(Sweep, d, "load")
           /\ Set(Sweep, d, [item |-> NoItem])
  <2>1. PICK m \in Local : /\ m = With(loc[Sweep][d], [item |-> NoItem])
                           /\ m.row = loc[Sweep][d].row /\ m.box = loc[Sweep][d].box
    BY SweepHas, LocalsNoItem DEF Items
  <2>2. Goes(Sweep, d, "load", m)
    BY <1>4, <2>1 DEF Set, Goto, Goes
  <2>3. ServerTypes' /\ ServersGrow
    BY <1>1, ServersStill DEF DeliveryInv, Types
  <2>4. phase = "reconcile"
    BY <1>4 DEF DeliveryInv, SweepsHold, SweepHolds, Listing
  <2>5. m.row.tries <= Cardinality(Tried(d)) + 1 /\ m.box <= Len(boxes'[d])
    BY <1>1, <2>1, SweepHas DEF serverVars
  <2>6. SweptTo(d, "load", m)
    BY <1>4, <2>2, <2>4, <2>5 DEF SweptTo, Listing
  <2> QED BY <1>1, <1>2, <2>3, <2>6, SweptKeeps
<1> QED BY <1>3, <1>4 DEF Matched, Reconciled

(* The item and the book that are matched next are among those that are    *)
(* still to be matched.                                                    *)
LEMMA NextPair ==
    ASSUME DeliveryInv, NEW d \in Dests, NEW i \in NextItems(d)
    PROVE  LET pairs == loc[Sweep][d].pairs
               b     == FirstOf({c \in Books : <<i, c>> \in pairs})
           IN  i \in Books /\ b \in Books /\ <<i, b>> \in pairs
<1> DEFINE pairs == loc[Sweep][d].pairs
           items == {p[1] : p \in pairs}
<1>1. pairs \subseteq Books \X Books
  BY SweepHas
<1>2. i \in items
  BY DEF NextItems, Me
<1>3. PICK p \in pairs : p[1] = i
  BY <1>2
<1>4. PICK c \in Books : <<i, c>> \in pairs
  BY <1>1, <1>3
<1>5. FirstOf({x \in Books : <<i, x>> \in pairs}) \in {x \in Books : <<i, x>> \in pairs}
  BY <1>4 DEF FirstOf
<1> QED BY <1>1, <1>3, <1>5

(* The row of a matched book is read, or cannot be.                        *)
LEMMA MatchReadKeeps ==
    ASSUME DeliveryInv, NEW d \in Dests, MatchRead(d)
    PROVE  DeliveryInv'
<1> DEFINE me == loc[Sweep][d]
<1>0. PICK i \in Books, b \in Books :
          /\ <<i, b>> \in me.pairs
          /\ \/ /\ Ok(Sweep, d) /\ Goto(Sweep, d, "matched")
                /\ Set(Sweep, d, [item |-> i, book |-> b, row |-> rows[b][d]])
             \/ /\ Err(Sweep, d, "db") /\ UNCHANGED pc
                /\ Set(Sweep, d, [item |-> i, pairs |-> me.pairs \ {<<i, b>>}])
  BY NextPair DEF MatchRead, Me
<1>1. /\ UNCHANGED <<kind, visited, phase, sweeps, cancelled, complete, rows, stirred>>
      /\ UNCHANGED serverVars /\ pc[Sweep][d] = "matching"
  BY DEF MatchRead, flowVars
<1>2. ServerTypes' /\ ServersGrow
  BY <1>1, ServersStill DEF DeliveryInv, Types
<1>3. phase = "reconcile" /\ Paired(me)
  BY <1>1 DEF DeliveryInv, SweepsHold, SweepHolds, Listing
<1>5. Falls /\ hurt' \in {hurt, hurt \cup {d}}
  <2>1. Sweep \in Visits
    BY DEF Visits
  <2> QED BY <1>0, <2>1, SweepHas, Calling
<1>6. hurt' \subseteq Dests
  BY <1>5 DEF DeliveryInv, Types, FlowTypes
<1>9. i \in Items
  BY DEF Items
<1>7. CASE /\ Set(Sweep, d, [item |-> i, book |-> b, row |-> rows[b][d]])
           /\ Goto(Sweep, d, "matched")
  <2>1. PICK row \in Row : row = rows[b][d]
    BY DEF DeliveryInv, Types, RowTypes
  <2>2. PICK m \in Local : /\ m = With(me, [item |-> i, book |-> b, row |-> row])
                           /\ m.item = i /\ m.book = b /\ m.row = row /\ m.box = me.box
                           /\ m.pairs = me.pairs /\ m.list = me.list
    BY <1>9, SweepHas, LocalsRead
  <2>3. Goes(Sweep, d, "matched", m)
    BY <1>7, <2>1, <2>2 DEF Set, Goto, Goes
  <2>4. Grouped(d, b, row)' /\ Honest(row)
    BY <1>2, <2>1, GroupedStays DEF DeliveryInv, RowsTrue, Row
  <2>5. m.row.tries <= Cardinality(Tried(d)) + 1 /\ m.box <= Len(boxes'[d])
    BY <1>1, <2>1, <2>2, SweepHas DEF serverVars, DeliveryInv, Counted
  <2>6. Grouped(d, m.book, m.row)' /\ Honest(m.row)
    BY <2>2, <2>4
  <2>8. Paired(m) /\ <<m.item, m.book>> \in m.pairs
    BY <1>0, <1>3, <2>2 DEF Paired
  <2>7. SweptTo(d, "matched", m)
    BY <1>1, <1>3, <2>3, <2>5, <2>6, <2>8 DEF SweptTo, Listing
  <2> QED BY <1>1, <1>2, <1>5, <1>6, <2>7, SweptKeeps
<1>8. CASE Set(Sweep, d, [item |-> i, pairs |-> me.pairs \ {<<i, b>>}]) /\ UNCHANGED pc
  <2>1. PICK m \in Local : /\ m = With(me, [item |-> i, pairs |-> me.pairs \ {<<i, b>>}])
                           /\ m.row = me.row /\ m.box = me.box
                           /\ m.pairs = me.pairs \ {<<i, b>>} /\ m.list = me.list
    <3>1. PICK P \in SUBSET (Books \X Books) : P = me.pairs \ {<<i, b>>}
      BY SweepHas
    <3> QED BY <1>9, <3>1, SweepHas, LocalsPairs
  <2>2. Goes(Sweep, d, "matching", m)
    BY <1>1, <1>8, <2>1 DEF Set, Goes, DeliveryInv, Types, WorkerTypes
  <2>3. m.row.tries <= Cardinality(Tried(d)) + 1 /\ m.box <= Len(boxes'[d])
    BY <1>1, <2>1, SweepHas DEF serverVars
  <2>5. Paired(m)
    BY <1>3, <2>1 DEF Paired
  <2>4. SweptTo(d, "matching", m)
    BY <1>1, <1>3, <2>2, <2>3, <2>5 DEF SweptTo, Listing
  <2> QED BY <1>1, <1>2, <1>5, <1>6, <2>4, SweptKeeps
<1> QED BY <1>0, <1>7, <1>8

(* What upsertBookDestinationItem makes of a row: never the row that       *)
(* stands for none, and nothing but its item is new where it had failed    *)
(* (destination_ids.go).                                                   *)
LEMMA ItemRow ==
    ASSUME NEW row \in Row, NEW i \in Books, Honest(row)
    PROVE  LET new == WithItem(row, i) IN
           /\ new \in Row /\ new # NoRow /\ Honest(new)
           /\ new.tries = row.tries /\ new.ops = row.ops /\ new.item = i
<1> DEFINE new == WithItem(row, i)
<1>1. new \in Row /\ new.tries = row.tries /\ new.ops = row.ops /\ new.item = i
  BY DEF WithItem, Row, Items, States
<1>2. new.state = IF row.state = "pending" THEN "synced" ELSE row.state
  BY DEF WithItem, Row
<1>3. new # NoRow
  BY <1>2 DEF NoRow
<1>4. Honest(new)
  BY <1>1, <1>2 DEF Honest
<1> QED BY <1>1, <1>3, <1>4

(* It is written back with the item, or that fails.                        *)
LEMMA MatchWriteKeeps ==
    ASSUME DeliveryInv, NEW d \in Dests, MatchWrite(d)
    PROVE  DeliveryInv'
<1>1. /\ UNCHANGED <<kind, visited, phase, sweeps, cancelled, complete, stirred>>
      /\ UNCHANGED serverVars /\ pc[Sweep][d] = "matched"
  BY DEF MatchWrite, flowVars
<1>2. ServerTypes' /\ ServersGrow
  BY <1>1, ServersStill DEF DeliveryInv, Types
<1>3. SweepHolds(d) /\ phase = "reconcile" /\ Sweep \in Visits /\ Sweep \notin Fans
  BY <1>1, MediaServerAssumption DEF DeliveryInv, SweepsHold, SweepHolds, Listing, Visits
<1> PICK b \in Books, i \in Books : b = loc[Sweep][d].book /\ i = loc[Sweep][d].item
  BY <1>1, <1>3, SweepHas DEF SweepHolds
<1>14. i \in Named(b) /\ Paired(loc[Sweep][d])
  <2>1. <<i, b>> \in loc[Sweep][d].pairs /\ Paired(loc[Sweep][d])
    BY <1>1, <1>3 DEF SweepHolds
  <2> QED BY <2>1 DEF Paired
<1> PICK row \in Row : row = loc[Sweep][d].row
  BY SweepHas
<1>4. Grouped(d, b, row) /\ Honest(row) /\ row.item \in Items /\ row.tries \in Nat
  BY <1>1, <1>3 DEF SweepHolds, Row
<1>5. NoBook \in Books \cup {NoBook} /\ NoRow \in Row /\ NoRow.tries = 0
  BY FreshLocal DEF NoRow
<1>6. PICK m \in Local :
          /\ m = With(loc[Sweep][d], [book |-> NoBook, row |-> NoRow,
                                      pairs |-> loc[Sweep][d].pairs \ {<<i, b>>}])
          /\ m.row = NoRow /\ m.box = loc[Sweep][d].box
          /\ m.list = loc[Sweep][d].list /\ m.pairs = loc[Sweep][d].pairs \ {<<i, b>>}
  <2>1. PICK P \in SUBSET (Books \X Books) : P = loc[Sweep][d].pairs \ {<<i, b>>}
    BY SweepHas
  <2>2. NoBook \in Books \cup {NoBook} /\ NoRow \in Row /\ loc[Sweep][d] \in Local
    BY <1>5, SweepHas
  <2> QED BY <2>1, <2>2, LocalsWritten
<1>7. Goes(Sweep, d, "matching", m)
  BY <1>6 DEF MatchWrite, Me, Set, Goto, Goes
<1>8. m.row.tries <= Cardinality(Tried(d)) + 1 /\ m.box <= Len(boxes'[d])
  BY <1>1, <1>5, <1>6, SweepHas, TriedCounts DEF serverVars
<1>9. Ok(Sweep, d) \/ Err(Sweep, d, "db")
  BY DEF MatchWrite
<1>10. Falls /\ hurt' \in {hurt, hurt \cup {d}}
  BY <1>3, <1>9, SweepHas, Calling
<1>11. hurt' \subseteq Dests
  BY <1>10 DEF DeliveryInv, Types, FlowTypes
<1>15. Paired(m)
  BY <1>6, <1>14 DEF Paired
<1>12. CASE UNCHANGED rows
  <2>1. SweptTo(d, "matching", m)
    BY <1>1, <1>3, <1>7, <1>8, <1>15 DEF SweptTo, Listing
  <2> QED BY <1>1, <1>2, <1>10, <1>11, <1>12, <2>1, SweptKeeps
<1>13. CASE rows' = [rows EXCEPT ![b][d] = WithItem(row, i)]
  <2>1. PICK new \in Row :
            /\ new = WithItem(row, i) /\ new # NoRow /\ Honest(new)
            /\ new.tries = row.tries /\ new.ops = row.ops /\ new.item = i
    BY <1>4, ItemRow
  <2>2. rows' = [rows EXCEPT ![b][d] = new]
    BY <1>13, <2>1
  <2>3. Moves(Sweep, d, "matching", m)
    BY <1>3, <1>7 DEF Moves, SweepPCs, Listing
  <2>4. RowTypes' /\ FlowTypes'
    <3>1. RowTypes'
      BY <1>1, <2>2 DEF RowTypes, DeliveryInv, Types
    <3>2. budget'["db"] <= Budget["db"]
      BY <1>10, MediaServerAssumption DEF Falls, Faults, FlowTypes, DeliveryInv, Types
    <3>3. FlowTypes'
      BY <1>1, <1>10, <1>11, <3>2 DEF Falls, FlowTypes, DeliveryInv, Types
    <3> QED BY <3>1, <3>3
  <2>5. Types'
    BY <1>2, <2>3, <2>4, OneMoves DEF DeliveryInv, Types
  <2>6. Semaphore'
    BY <1>1, <2>3, <2>5, MoveWorks DEF Working, Resting
  <2>7. Grouped(d, b, new)'
    <3>1. Grouped(d, b, row)'
      BY <1>2, <1>4, GroupedStays
    <3>2. i = b \/ Named(b) \subseteq Lookalikes(b)
      BY <1>14 DEF Lookalikes, Named
    <3>3. b \in Named(b)
      BY DEF Named
    <3> QED BY <2>1, <3>1, <3>2, <3>3 DEF Grouped
  <2>8. pc'[Sweep][d] = "matching"
    BY <2>3, OneMoves DEF DeliveryInv
  <2>15. loc'[Sweep][d] = m
    BY <2>3, OneMoves DEF DeliveryInv
  <2>9. SweepHolds(d)'
    BY <1>1, <1>3, <1>15, <2>8, <2>15 DEF SweepHolds, Paired, SweepPCs, Listing
  <2>10. \A e \in Dests : Tried(e) \subseteq Tried(e)'
    <3> SUFFICES ASSUME NEW e \in Dests, NEW f \in Tried(e)
                 PROVE  f \in Tried(e)'
      OBVIOUS
    <3> QED BY <1>3, <2>3, OneMoves DEF DeliveryInv, Tried, Visits
  <2>11. row.tries <= Cardinality(Tried(d)) + 1
    BY SweepHas
  <2>12. new.tries <= Cardinality(Tried(d)') + 1
    BY <1>4, <2>1, <2>10, <2>11, TriedCounts
  <2>13. m.row.tries <= Cardinality(Tried(d)') + 1
    BY <1>5, <1>6, TriedCounts
  <2>14. budget'["db"] <= budget["db"] /\ UNCHANGED <<visited, phase, cancelled>>
    BY <1>1, <1>10 DEF Falls
  <2> QED BY <1>2, <1>3, <1>8, <2>1, <2>2, <2>3, <2>5, <2>6, <2>7, <2>9, <2>12, <2>13,
             <2>14, WriteKeeps
<1> QED BY <1>12, <1>13 DEF MatchWrite, Me

-----------------------------------------------------------------------------
(* The steps of more than one worker *)

(* A step that writes no row and changes no server.                        *)
LEMMA QuietKeeps ==
    ASSUME DeliveryInv, Types', UNCHANGED <<kind, serverVars, rows>>,
           budget'["db"] <= budget["db"], cancelled \subseteq cancelled',
           \A f \in Fans : visited[f] # NoBook => visited'[f] = visited[f],
           \A d \in Dests : Tried(d) \subseteq Tried(d)',
           \A v \in Visits : Working(v)' \subseteq Working(v),
           \A v \in Visits, d \in Dests : Same(v, d) \/ Worker(v, d)'
    PROVE  DeliveryInv'
<1>1. ServerTypes' /\ ServersGrow
  BY ServersStill DEF DeliveryInv, Types
<1>2. Onward
  BY <1>1 DEF Onward
<1>3. RowsTrue'
  <2> SUFFICES ASSUME NEW b \in Books, NEW d \in Dests
               PROVE  Grouped(d, b, rows[b][d])' /\ Honest(rows[b][d])'
    BY DEF RowsTrue
  <2> PICK row \in Row : row = rows[b][d]
    BY DEF DeliveryInv, Types, RowTypes
  <2>1. Grouped(d, b, row)' /\ Honest(row)
    BY <1>1, GroupedStays DEF DeliveryInv, RowsTrue, Row
  <2> QED BY <2>1 DEF Honest
<1>4. \A b \in Books, d \in Dests : rows'[b][d].tries <= Cardinality(Tried(d)') + 1
  <2> SUFFICES ASSUME NEW b \in Books, NEW d \in Dests
               PROVE  rows'[b][d].tries <= Cardinality(Tried(d)') + 1
    OBVIOUS
  <2>1. rows[b][d].tries \in Nat /\ rows[b][d].tries <= Cardinality(Tried(d)) + 1
    BY DEF DeliveryInv, Types, RowTypes, Row, Counted
  <2> QED BY <2>1, TriedCounts
<1>5. Semaphore'
  BY NoMoreWork
<1> QED BY <1>2, <1>3, <1>4, <1>5, StepKeeps

(* A worker that is given its book, or has none, with the locals to match. *)
LEMMA FreshWorker ==
    ASSUME Types', NEW v \in Visits, NEW d \in Dests,
           loc'[v][d].row = NoRow, loc'[v][d].box = 0,
           v \in Fans => FanHolds(v, d)' /\ ReportedAt(v, d)',
           v = Sweep => SweepHolds(d)'
    PROVE  Worker(v, d)'
<1>1. Len(boxes'[d]) \in Nat /\ Cardinality(Tried(d)') \in Nat
  BY TriedCounts DEF Types, ServerTypes
<1>2. (loc[v][d].row.tries <= Cardinality(Tried(d)) + 1)' /\ (loc[v][d].box <= Len(boxes[d]))'
  BY <1>1 DEF NoRow
<1> QED BY <1>2 DEF Worker

(* A fan-out begins: it queues a worker for every enabled server, or none  *)
(* if the list of them cannot be read (destinations.go).                   *)
LEMMA FanOutKeeps ==
    ASSUME DeliveryInv, NEW f \in Fans, NEW b \in Books, FanOut(f, b)
    PROVE  DeliveryInv'
<1>1. /\ UNCHANGED <<kind, serverVars, rows, hurt, phase, sweeps, stirred, cancelled>>
      /\ visited[f] = NoBook /\ visited' = [visited EXCEPT ![f] = b]
      /\ complete' = complete \cup {b}
  BY DEF FanOut
<1>2. /\ f \in Visits /\ f # Sweep /\ Sweep \in Visits /\ Sweep \notin Fans
      /\ visited \in [Fans -> Books \cup {NoBook}] /\ b # NoBook
      /\ pc \in [Visits -> [Dests -> FanPCs \cup SweepPCs]]
      /\ loc \in [Visits -> [Dests -> Local]]
  BY MediaServerAssumption DEF Visits, DeliveryInv, Types, FlowTypes, WorkerTypes
<1>3. \A d \in Dests : FanHolds(f, d) /\ pc[f][d] = "idle"
  BY <1>1 DEF DeliveryInv, FansHold, FanHolds
<1>4. \A d \in Dests : Fresh \in Local /\ [Fresh EXCEPT !.book = b] \in Local
  BY FreshLocal
<1>5. Falls
  BY Spending DEF FanOut, Falls, DeliveryInv, Types, FlowTypes, Faults
<1>6. PICK P \in [Dests -> {"queued", "done"}], m \in [Dests -> Local] :
          /\ pc' = [pc EXCEPT ![f] = P] /\ loc' = [loc EXCEPT ![f] = m]
          /\ \A d \in Dests :
                /\ P[d] = "queued" => m[d] = [Fresh EXCEPT !.book = b]
                /\ P[d] = "done" => m[d] = Fresh \/ m[d] = loc[f][d]
                /\ P[d] = "done" /\ d \in Enabled => budget'["db"] < budget["db"]
  <2>1. CASE /\ pc' = [pc EXCEPT ![f] = [d \in Dests |->
                           IF d \in Enabled THEN "queued" ELSE "done"]]
             /\ loc' = [loc EXCEPT ![f] = [d \in Dests |->
                           IF d \in Enabled THEN [Fresh EXCEPT !.book = b] ELSE Fresh]]
    <3>1. PICK P \in [Dests -> {"queued", "done"}] :
              P = [d \in Dests |-> IF d \in Enabled THEN "queued" ELSE "done"]
      OBVIOUS
    <3>4. PICK m \in [Dests -> Local] :
              m = [d \in Dests |-> IF d \in Enabled THEN [Fresh EXCEPT !.book = b] ELSE Fresh]
      BY <1>4
    <3>2. \A d \in Dests :
             /\ P[d] = "queued" => m[d] = [Fresh EXCEPT !.book = b]
             /\ P[d] = "done" => m[d] = Fresh \/ m[d] = loc[f][d]
             /\ P[d] = "done" => d \notin Enabled
      BY <3>1, <3>4
    <3>3. pc' = [pc EXCEPT ![f] = P] /\ loc' = [loc EXCEPT ![f] = m]
      BY <2>1, <3>1, <3>4
    <3>5. \A d \in Dests :
             /\ P[d] = "queued" => m[d] = [Fresh EXCEPT !.book = b]
             /\ P[d] = "done" => m[d] = Fresh \/ m[d] = loc[f][d]
             /\ P[d] = "done" /\ d \in Enabled => budget'["db"] < budget["db"]
      BY <3>2
    <3> WITNESS P \in [Dests -> {"queued", "done"}], m \in [Dests -> Local]
    <3> QED BY <3>3, <3>5
  <2>2. CASE Spend("db") /\ pc' = [pc EXCEPT ![f] = [d \in Dests |-> "done"]] /\ UNCHANGED loc
    <3>1. budget'["db"] < budget["db"]
      BY <2>2, Spending DEF DeliveryInv, Types, FlowTypes, Faults
    <3>2. loc' = [loc EXCEPT ![f] = loc[f]] /\ loc[f] \in [Dests -> Local]
      BY <1>2, <2>2
    <3>3. [d \in Dests |-> "done"] \in [Dests -> {"queued", "done"}]
      OBVIOUS
    <3> QED BY <2>2, <3>1, <3>2, <3>3
  <2> QED BY <2>1, <2>2 DEF FanOut
<1>7. /\ pc'[f] = P /\ loc'[f] = m /\ visited'[f] = b
      /\ \A v \in Visits : v # f => pc'[v] = pc[v] /\ loc'[v] = loc[v]
      /\ \A g \in Fans : g # f => visited'[g] = visited[g]
  BY <1>1, <1>2, <1>6
<1>8. WorkerTypes'
  <2>1. P \in [Dests -> FanPCs \cup SweepPCs]
    BY <1>6 DEF FanPCs
  <2> QED BY <1>2, <1>6, <2>1 DEF WorkerTypes
<1>9. Types'
  <2>1. ServerTypes' /\ RowTypes'
    BY <1>1 DEF DeliveryInv, Types, ServerTypes, RowTypes, serverVars
  <2>2. budget'["db"] <= Budget["db"]
    BY <1>5, MediaServerAssumption DEF Falls, Faults, FlowTypes, DeliveryInv, Types
  <2>3. FlowTypes'
    BY <1>1, <1>2, <1>5, <2>2 DEF Falls, FlowTypes, DeliveryInv, Types
  <2> QED BY <1>8, <2>1, <2>3 DEF Types
<1>10. \A v \in Visits, d \in Dests : Same(v, d) \/ Worker(v, d)'
  <2> SUFFICES ASSUME NEW v \in Visits, NEW d \in Dests
               PROVE  Same(v, d) \/ Worker(v, d)'
    OBVIOUS
  <2>1. CASE v # f
    BY <1>1, <1>7, <2>1 DEF Same
  <2>2. CASE v = f
    <3>1. ReportedAt(f, d)'
      <4>1. budget["db"] \in Nat /\ budget'["db"] \in Nat /\ Budget["db"] \in Nat
            /\ budget["db"] <= Budget["db"]
        BY <1>5, MediaServerAssumption DEF Falls, Faults, FlowTypes, DeliveryInv, Types
      <4>2. Enabled' = Enabled
        BY <1>1 DEF Enabled
      <4> QED BY <1>6, <1>7, <4>1, <4>2 DEF ReportedAt
    <3>2. CASE P[d] = "queued"
      <4>1. /\ m[d].book = b /\ m[d].row = NoRow /\ m[d].box = 0
            /\ m[d].ops["group"] = "none"
        BY <1>6, <3>2, FreshLocal DEF Fresh
      <4>2. FanHolds(f, d)'
        BY <1>2, <1>7, <3>2, <4>1 DEF FanHolds, FanPCs, AtServer
      <4> QED BY <1>2, <1>7, <1>9, <2>2, <3>1, <4>1, <4>2, FreshWorker
    <3>3. CASE P[d] = "done" /\ m[d] = Fresh
      <4>1. m[d].row = NoRow /\ m[d].box = 0 /\ m[d].ops["group"] = "none"
        BY <3>3, FreshLocal DEF Fresh
      <4>2. FanHolds(f, d)'
        BY <1>2, <1>7, <3>3, <4>1 DEF FanHolds, FanPCs, AtServer
      <4> QED BY <1>2, <1>7, <1>9, <2>2, <3>1, <4>1, <4>2, FreshWorker
    <3>4. CASE P[d] = "done" /\ m[d] = loc[f][d]
      <4>1. FanHolds(f, d)'
        <5>1. PICK i : i = loc[f][d].item
          OBVIOUS
        <5>2. InGroup(d, i)' = InGroup(d, i)
          BY <1>1 DEF InGroup, serverVars
        <5>3. loc'[f][d] = loc[f][d]
          BY <1>7, <3>4
        <5>4. loc'[f][d].ops["group"] = "ok" =>
                 loc'[f][d].item \in Stand(loc'[f][d].book) /\ InGroup(d, loc[f][d].item)'
          BY <1>3, <5>1, <5>2, <5>3 DEF FanHolds
        <5> QED BY <1>2, <1>7, <3>4, <5>4 DEF FanHolds, FanPCs, AtServer
      <4>2. (loc[v][d].row.tries <= Cardinality(Tried(d)) + 1)'
            /\ (loc[v][d].box <= Len(boxes[d]))'
        <5>1. Tried(d) \subseteq Tried(d)'
          BY <1>3, <1>7 DEF Tried, Visits
        <5>2. loc[f][d].row.tries \in Nat /\ loc[f][d].row.tries <= Cardinality(Tried(d)) + 1
              /\ loc[f][d].box <= Len(boxes[d])
          BY <1>2 DEF DeliveryInv, Counted, Boxed, Local, Row
        <5> QED BY <1>1, <1>7, <2>2, <3>4, <5>1, <5>2, TriedCounts DEF serverVars
      <4> QED BY <1>2, <2>2, <3>1, <4>1, <4>2 DEF Worker
    <3> QED BY <1>6, <3>2, <3>3, <3>4
  <2> QED BY <2>1, <2>2
<1>11. \A d \in Dests : Tried(d) \subseteq Tried(d)'
  BY <1>3, <1>7 DEF Tried, Visits
<1>12. \A v \in Visits : Working(v)' \subseteq Working(v)
  BY <1>6, <1>7 DEF Working, Resting
<1>13. \A g \in Fans : visited[g] # NoBook => visited'[g] = visited[g]
  BY <1>1, <1>7
<1> QED BY <1>1, <1>5, <1>9, <1>10, <1>11, <1>12, <1>13, QuietKeeps DEF Falls

(* A fan-out is cancelled: what was queued is given up, what runs goes on  *)
(* with every call failing.                                                *)
LEMMA CancelKeeps ==
    ASSUME DeliveryInv, NEW f \in Fans, Cancel(f)
    PROVE  DeliveryInv'
<1>1. /\ UNCHANGED <<kind, visited, phase, sweeps, serverVars, complete, rows, hurt, stirred>>
      /\ visited[f] # NoBook /\ cancelled' = cancelled \cup {f} /\ Spend("cancel")
  BY DEF Cancel
<1>2. /\ f \in Visits /\ f # Sweep /\ Sweep \in Visits /\ Sweep \notin Fans
      /\ pc \in [Visits -> [Dests -> FanPCs \cup SweepPCs]]
      /\ loc \in [Visits -> [Dests -> Local]]
  BY MediaServerAssumption DEF Visits, DeliveryInv, Types, WorkerTypes
<1>3. Falls
  BY <1>1, Spending DEF DeliveryInv, Types, FlowTypes, Faults
<1>4. /\ \A v \in Visits : v # f => pc'[v] = pc[v] /\ loc'[v] = loc[v]
      /\ \A d \in Dests : pc'[f][d] = IF pc[f][d] = "queued" THEN "done" ELSE pc[f][d]
      /\ \A d \in Dests : loc'[f][d] = IF pc[f][d] \in Resting \cup {"queued"} THEN Fresh
                                       ELSE [loc[f][d] EXCEPT !.cut = TRUE]
  BY <1>2 DEF Cancel
<1>5. WorkerTypes'
  <2>1. [d \in Dests |-> IF pc[f][d] = "queued" THEN "done" ELSE pc[f][d]]
           \in [Dests -> FanPCs \cup SweepPCs]
    BY <1>2 DEF FanPCs
  <2>2. pc' \in [Visits -> [Dests -> FanPCs \cup SweepPCs]]
    BY <1>2, <2>1 DEF Cancel
  <2>3. \A d \in Dests : [loc[f][d] EXCEPT !.cut = TRUE] \in Local
    <3>1. \A m \in Local : [m EXCEPT !.cut = TRUE] \in Local
      BY DEF Local
    <3> QED BY <1>2, <3>1
  <2>4. [d \in Dests |-> IF pc[f][d] \in Resting \cup {"queued"} THEN Fresh
                         ELSE [loc[f][d] EXCEPT !.cut = TRUE]] \in [Dests -> Local]
    BY <2>3, FreshLocal
  <2>5. loc' \in [Visits -> [Dests -> Local]]
    BY <1>2, <2>4 DEF Cancel
  <2> QED BY <2>2, <2>5 DEF WorkerTypes
<1>6. Types'
  <2>1. ServerTypes' /\ RowTypes'
    BY <1>1 DEF DeliveryInv, Types, ServerTypes, RowTypes, serverVars
  <2>2. budget'["db"] <= Budget["db"]
    BY <1>3, MediaServerAssumption DEF Falls, Faults, FlowTypes, DeliveryInv, Types
  <2>3. FlowTypes'
    BY <1>1, <1>3, <2>2 DEF Falls, FlowTypes, DeliveryInv, Types
  <2> QED BY <1>5, <2>1, <2>3 DEF Types
<1>7. \A v \in Visits, d \in Dests : Same(v, d) \/ Worker(v, d)'
  <2> SUFFICES ASSUME NEW v \in Visits, NEW d \in Dests
               PROVE  Same(v, d) \/ Worker(v, d)'
    OBVIOUS
  <2>1. CASE v # f
    BY <1>1, <1>4, <2>1 DEF Same
  <2>2. CASE v = f
    <3>1. ReportedAt(f, d)'
      BY <1>1 DEF ReportedAt
    <3>2. FanHolds(f, d) /\ pc[f][d] # "idle"
      BY <1>1 DEF DeliveryInv, FansHold, FanHolds
    <3>3. CASE pc[f][d] \in Resting \cup {"queued"}
      <4>1. pc'[f][d] = "done" /\ loc'[f][d] = Fresh
        BY <1>4, <3>2, <3>3 DEF FanHolds, FanPCs, AtServer, Resting
      <4>2. Fresh.row = NoRow /\ Fresh.box = 0 /\ Fresh.ops["group"] = "none"
        BY FreshLocal DEF Fresh
      <4>3. FanHolds(f, d)'
        BY <1>1, <4>1, <4>2 DEF FanHolds, FanPCs, AtServer
      <4> QED BY <1>2, <1>6, <2>2, <3>1, <4>1, <4>2, <4>3, FreshWorker
    <3>4. CASE pc[f][d] \notin Resting \cup {"queued"}
      <4>1. /\ pc'[f][d] = pc[f][d] /\ loc'[f][d].book = loc[f][d].book
            /\ loc'[f][d].item = loc[f][d].item /\ loc'[f][d].box = loc[f][d].box
            /\ loc'[f][d].ops = loc[f][d].ops /\ loc'[f][d].row = loc[f][d].row
        <5>1. PICK m \in Local : m = loc[f][d]
          BY <1>2
        <5>2. PICK n : n = [m EXCEPT !.cut = TRUE]
          OBVIOUS
        <5>3. /\ n.book = m.book /\ n.item = m.item /\ n.box = m.box /\ n.ops = m.ops
              /\ n.row = m.row
          BY <5>2 DEF Local
        <5> QED BY <1>4, <3>4, <5>1, <5>2, <5>3
      <4>2. FanHolds(f, d)'
        <5>1. loc[f][d].ops["group"] = "ok" => InGroup(d, loc[f][d].item)'
          BY <1>1, <3>2, <4>1 DEF FanHolds, InGroup, serverVars
        <5> QED BY <1>1, <3>2, <4>1, <5>1 DEF FanHolds
      <4>3. (loc[v][d].row.tries <= Cardinality(Tried(d)) + 1)'
            /\ (loc[v][d].box <= Len(boxes[d]))'
        <5>1. Tried(d) \subseteq Tried(d)'
          BY <1>4 DEF Tried, Visits
        <5>2. loc[f][d].row.tries \in Nat /\ loc[f][d].row.tries <= Cardinality(Tried(d)) + 1
              /\ loc[f][d].box <= Len(boxes[d])
          BY <1>2 DEF DeliveryInv, Counted, Boxed, Local, Row
        <5> QED BY <1>1, <2>2, <4>1, <5>1, <5>2, TriedCounts DEF serverVars
      <4> QED BY <1>2, <2>2, <3>1, <4>2, <4>3 DEF Worker
    <3> QED BY <3>3, <3>4
  <2> QED BY <2>1, <2>2
<1>8. \A d \in Dests : Tried(d) \subseteq Tried(d)'
  BY <1>4 DEF Tried, Visits
<1>9. \A v \in Visits : Working(v)' \subseteq Working(v)
  BY <1>4 DEF Working, Resting
<1>10. cancelled \subseteq cancelled'
  BY <1>1
<1> QED BY <1>1, <1>3, <1>6, <1>7, <1>8, <1>9, <1>10, QuietKeeps DEF Falls

(* The sweep begins, goes from the scans to the reconciles, or ends: every *)
(* one of its workers starts again, or none works.                         *)
LEMMA TurnKeeps ==
    ASSUME DeliveryInv, StartSweep \/ StartReconcile \/ EndSweep
    PROVE  DeliveryInv'
<1>1. /\ UNCHANGED <<kind, visited, serverVars, complete, rows, cancelled, budget>>
      /\ hurt' = {} /\ stirred' = {} /\ sweeps' \in {sweeps, sweeps + 1}
      /\ phase' \in {"idle", "scan", "reconcile"}
  BY DEF StartSweep, StartReconcile, EndSweep, QueueSweep
<1>2. /\ Sweep \in Visits /\ Sweep \notin Fans
      /\ pc \in [Visits -> [Dests -> FanPCs \cup SweepPCs]]
      /\ loc \in [Visits -> [Dests -> Local]] /\ loc[Sweep] \in [Dests -> Local]
  BY MediaServerAssumption DEF Visits, DeliveryInv, Types, WorkerTypes
<1>3. PICK P \in [Dests -> {"queued", "done", "idle"}], m \in [Dests -> Local] :
          /\ pc' = [pc EXCEPT ![Sweep] = P] /\ loc' = [loc EXCEPT ![Sweep] = m]
          /\ \A d \in Dests : /\ P[d] = "queued" => phase' # "idle"
                              /\ m[d] = Fresh \/ m[d] = loc[Sweep][d]
  <2>1. CASE EndSweep
    <3>1. loc' = [loc EXCEPT ![Sweep] = loc[Sweep]]
      BY <1>2, <2>1 DEF EndSweep
    <3>2. [d \in Dests |-> "idle"] \in [Dests -> {"queued", "done", "idle"}]
      OBVIOUS
    <3> QED BY <1>2, <2>1, <3>1, <3>2 DEF EndSweep
  <2>2. CASE StartSweep \/ StartReconcile
    <3> DEFINE P == [d \in Dests |-> IF d \in Enabled THEN "queued" ELSE "done"]
               m == [d \in Dests |-> Fresh]
    <3>1. P \in [Dests -> {"queued", "done", "idle"}] /\ m \in [Dests -> Local]
      BY FreshLocal
    <3>2. pc' = [pc EXCEPT ![Sweep] = P] /\ loc' = [loc EXCEPT ![Sweep] = m]
          /\ phase' # "idle"
      BY <2>2 DEF StartSweep, StartReconcile, QueueSweep
    <3>3. \A d \in Dests : m[d] = Fresh
      OBVIOUS
    <3> HIDE DEF P, m
    <3> QED BY <3>1, <3>2, <3>3
  <2> QED BY <2>1, <2>2
<1>4. /\ \A v \in Visits : v # Sweep => pc'[v] = pc[v] /\ loc'[v] = loc[v]
      /\ pc'[Sweep] = P /\ loc'[Sweep] = m
  BY <1>2, <1>3
<1>5. WorkerTypes'
  <2>1. P \in [Dests -> FanPCs \cup SweepPCs]
    BY <1>3 DEF FanPCs, SweepPCs
  <2> QED BY <1>2, <1>3, <2>1 DEF WorkerTypes
<1>6. Types'
  <2>1. ServerTypes' /\ RowTypes'
    BY <1>1 DEF DeliveryInv, Types, ServerTypes, RowTypes, serverVars
  <2>2. FlowTypes'
    BY <1>1 DEF FlowTypes, DeliveryInv, Types
  <2> QED BY <1>5, <2>1, <2>2 DEF Types
<1>7. \A d \in Dests : Tried(d)' = Tried(d)
  BY <1>2, <1>4 DEF Tried, Visits
<1>8. \A v \in Visits, d \in Dests : Same(v, d) \/ Worker(v, d)'
  <2> SUFFICES ASSUME NEW v \in Visits, NEW d \in Dests
               PROVE  Same(v, d) \/ Worker(v, d)'
    OBVIOUS
  <2>1. CASE v # Sweep
    BY <1>1, <1>4, <2>1 DEF Same
  <2>2. CASE v = Sweep
    <3>1. SweepHolds(d)'
      BY <1>1, <1>3, <1>4 DEF SweepHolds, SweepPCs, Listing, Grouping
    <3>2. CASE m[d] = Fresh
      <4>1. Fresh.row = NoRow /\ Fresh.box = 0
        BY DEF Fresh
      <4> QED BY <1>2, <1>4, <1>6, <2>2, <3>1, <3>2, <4>1, FreshWorker
    <3>3. CASE m[d] = loc[Sweep][d]
      <4>1. (loc[v][d].row.tries <= Cardinality(Tried(d)) + 1)'
            /\ (loc[v][d].box <= Len(boxes[d]))'
        BY <1>1, <1>4, <1>7, <2>2, <3>3, SweepHas DEF serverVars
      <4> QED BY <1>2, <2>2, <3>1, <4>1 DEF Worker
    <3> QED BY <1>3, <3>2, <3>3
  <2> QED BY <2>1, <2>2
<1>9. \A v \in Visits : Working(v)' \subseteq Working(v)
  BY <1>3, <1>4 DEF Working, Resting
<1>10. budget'["db"] <= budget["db"]
  BY <1>1 DEF DeliveryInv, Types, FlowTypes, Faults
<1> QED BY <1>1, <1>6, <1>7, <1>8, <1>9, <1>10, QuietKeeps

(* A server indexes a book that it finds on disk.                          *)
LEMMA IndexKeeps ==
    ASSUME DeliveryInv, NEW d \in Dests, NEW b \in Books, Index(d, b)
    PROVE  DeliveryInv'
<1>1. /\ UNCHANGED <<kind, visited, phase, sweeps, cancelled, boxes, complete, rows, pc, loc,
                     hurt, budget, stirred>>
      /\ indexed' = [indexed EXCEPT ![d] = @ \cup {b}]
      /\ tagged' = tagged \/ tagged' = [tagged EXCEPT ![d] = @ \cup {b}]
  BY DEF Index, flowVars, workerVars
<1>2. ServerTypes' /\ ServersGrow
  <2>1. ServerTypes /\ b \in Items
    BY DEF DeliveryInv, Types, Items
  <2>2. ServerTypes'
    BY <1>1, <2>1 DEF ServerTypes
  <2>3. \A e \in Dests : Len(boxes[e]) <= Len(boxes'[e])
    BY <1>1, <2>1 DEF ServerTypes
  <2>4. \A e \in Dests, i \in Items : InGroup(e, i) => InGroup(e, i)'
    <3>1. \A e \in Dests : tagged[e] \subseteq tagged'[e]
      BY <1>1, <2>1 DEF ServerTypes
    <3> QED BY <1>1, <3>1 DEF InGroup
  <2> QED BY <1>1, <2>2, <2>3, <2>4 DEF ServersGrow
<1>3. Types'
  <2>1. RowTypes' /\ WorkerTypes' /\ FlowTypes'
    BY <1>1 DEF DeliveryInv, Types, RowTypes, WorkerTypes, FlowTypes
  <2> QED BY <1>2, <2>1 DEF Types
<1>4. \A v \in Visits, e \in Dests : Same(v, e)
  BY <1>1 DEF Same
<1>5. \A e \in Dests : Tried(e)' = Tried(e)
  BY <1>1 DEF Tried
<1>6. Onward
  <2>1. budget'["db"] <= budget["db"]
    BY <1>1 DEF DeliveryInv, Types, FlowTypes, Faults
  <2> QED BY <1>1, <1>2, <1>5, <2>1 DEF Onward
<1>7. Semaphore'
  BY <1>1 DEF DeliveryInv, Semaphore, Working
<1>8. RowsTrue'
  <2> SUFFICES ASSUME NEW c \in Books, NEW e \in Dests
               PROVE  Grouped(e, c, rows[c][e])' /\ Honest(rows[c][e])'
    BY DEF RowsTrue
  <2> PICK row \in Row : row = rows[c][e]
    BY DEF DeliveryInv, Types, RowTypes
  <2>1. Grouped(e, c, row)' /\ Honest(row)
    BY <1>2, GroupedStays DEF DeliveryInv, RowsTrue, Row
  <2> QED BY <1>1, <2>1 DEF Honest
<1>9. \A c \in Books, e \in Dests : rows'[c][e].tries <= Cardinality(Tried(e)') + 1
  BY <1>1, <1>5 DEF DeliveryInv, Counted
<1> QED BY <1>3, <1>4, <1>6, <1>7, <1>8, <1>9, StepKeeps

(* Nothing remembers the workers of before a restart.                      *)
LEMMA CrashKeeps ==
    ASSUME DeliveryInv, Crash
    PROVE  DeliveryInv'
<1>1. /\ UNCHANGED <<kind, serverVars, complete, rows, visited, sweeps>>
      /\ phase' = "idle" /\ hurt' = {} /\ stirred' = {} /\ Spend("crash")
      /\ cancelled' = cancelled \cup {f \in Fans : visited[f] # NoBook /\ ~Ended(f)}
  BY DEF Crash
<1>2. Sweep \in Visits /\ Sweep \notin Fans /\ \A f \in Fans : f \in Visits /\ f # Sweep
  BY MediaServerAssumption DEF Visits
<1>3. \A v \in Visits, d \in Dests :
         /\ loc'[v][d] = Fresh
         /\ pc'[v][d] = IF v # Sweep /\ visited[v] # NoBook THEN "done" ELSE "idle"
  BY DEF Crash
<1>4. Falls
  BY <1>1, Spending DEF DeliveryInv, Types, FlowTypes, Faults
<1>5. WorkerTypes'
  <2>1. pc' \in [Visits -> [Dests -> FanPCs \cup SweepPCs]]
    BY DEF Crash, FanPCs, SweepPCs
  <2>2. loc' \in [Visits -> [Dests -> Local]]
    BY FreshLocal DEF Crash
  <2> QED BY <2>1, <2>2 DEF WorkerTypes
<1>6. Types'
  <2>1. ServerTypes' /\ RowTypes'
    BY <1>1 DEF DeliveryInv, Types, ServerTypes, RowTypes, serverVars
  <2>2. budget'["db"] <= Budget["db"]
    BY <1>4, MediaServerAssumption DEF Falls, Faults, FlowTypes, DeliveryInv, Types
  <2>3. FlowTypes'
    BY <1>1, <1>4, <2>2 DEF Falls, FlowTypes, DeliveryInv, Types
  <2> QED BY <1>5, <2>1, <2>3 DEF Types
<1>7. \A d \in Dests : Tried(d) \subseteq Tried(d)'
  <2> SUFFICES ASSUME NEW d \in Dests, NEW f \in Tried(d)
               PROVE  f \in Tried(d)'
    OBVIOUS
  <2>1. f \in Fans /\ pc[f][d] = "done" /\ FanHolds(f, d)
    BY DEF Tried, DeliveryInv, FansHold
  <2>2. visited[f] # NoBook
    BY <2>1 DEF FanHolds
  <2> QED BY <1>2, <1>3, <2>1, <2>2 DEF Tried
<1>8. \A v \in Visits, d \in Dests : Worker(v, d)'
  <2> SUFFICES ASSUME NEW v \in Visits, NEW d \in Dests
               PROVE  Worker(v, d)'
    OBVIOUS
  <2>1. Fresh.row = NoRow /\ Fresh.box = 0 /\ Fresh.ops["group"] = "none"
    BY FreshLocal DEF Fresh
  <2>2. ASSUME v \in Fans
        PROVE  FanHolds(v, d)' /\ ReportedAt(v, d)'
    <3>1. FanHolds(v, d)'
      BY <1>1, <1>2, <1>3, <2>1, <2>2 DEF FanHolds, FanPCs, AtServer
    <3>2. ReportedAt(v, d)'
      <4>1. CASE v \in cancelled' \/ visited[v] = NoBook
        BY <1>1, <1>2, <1>3, <2>2, <4>1 DEF ReportedAt
      <4>2. CASE v \notin cancelled' /\ visited[v] # NoBook
        <5>1. Ended(v) /\ v \notin cancelled
          BY <1>1, <2>2, <4>2
        <5>2. FanHolds(v, d) /\ pc[v][d] \in Resting
          BY <2>2, <5>1 DEF Ended, DeliveryInv, FansHold
        <5>3. pc[v][d] = "done"
          BY <4>2, <5>2 DEF FanHolds, FanPCs, AtServer, Resting
        <5>4. budget["db"] \in Nat /\ budget'["db"] \in Nat /\ Budget["db"] \in Nat
              /\ budget["db"] <= Budget["db"]
          BY <1>4, MediaServerAssumption DEF Falls, Faults, FlowTypes, DeliveryInv, Types
        <5>5. Enabled' = Enabled
          BY <1>1 DEF Enabled
        <5> QED BY <1>1, <1>4, <2>2, <5>1, <5>3, <5>4, <5>5
                DEF ReportedAt, DeliveryInv, Reported, Falls
      <4> QED BY <4>1, <4>2
    <3> QED BY <3>1, <3>2
  <2>3. ASSUME v = Sweep
        PROVE  SweepHolds(d)'
    BY <1>1, <1>3, <2>3 DEF SweepHolds, SweepPCs, Listing, Grouping
  <2> QED BY <1>3, <1>6, <2>1, <2>2, <2>3, FreshWorker
<1>9. \A v \in Visits : Working(v)' \subseteq Working(v)
  BY <1>3 DEF Working, Resting
<1>10. cancelled \subseteq cancelled' /\ UNCHANGED <<kind, serverVars, rows>>
  BY <1>1
<1>11. \A g \in Fans : visited[g] # NoBook => visited'[g] = visited[g]
  BY <1>1
<1> QED BY <1>4, <1>6, <1>7, <1>8, <1>9, <1>10, <1>11, QuietKeeps DEF Falls

(* Nothing happens.                                                        *)
LEMMA StillKeeps ==
    ASSUME DeliveryInv, UNCHANGED vars
    PROVE  DeliveryInv'
<1>1. UNCHANGED <<kind, visited, phase, sweeps, cancelled, boxes, complete, rows, pc, loc,
                  hurt, budget, stirred, indexed, tagged>>
  BY DEF vars, serverVars, workerVars
<1>2. Types'
  BY <1>1 DEF DeliveryInv, Types, ServerTypes, RowTypes, WorkerTypes, FlowTypes
<1>3. \A v \in Visits, e \in Dests : Same(v, e)
  BY <1>1 DEF Same
<1>4. \A e \in Dests : Tried(e)' = Tried(e)
  BY <1>1 DEF Tried
<1>5. \A v \in Visits : Working(v)' = Working(v)
  BY <1>1 DEF Working
<1>6. budget'["db"] <= budget["db"]
  BY <1>1 DEF DeliveryInv, Types, FlowTypes, Faults
<1> QED BY <1>1, <1>2, <1>3, <1>4, <1>5, <1>6, QuietKeeps DEF serverVars

-----------------------------------------------------------------------------
(* The invariant *)

(* The row of a delivery that failed before is a true one.                 *)
LEMMA FailedBeforeRow ==
    /\ FailedBefore \in Row /\ Honest(FailedBefore)
    /\ FailedBefore.tries = 1 /\ FailedBefore.ops["group"] = "deferred"
<1>1. PICK o : o = [NoRow.ops EXCEPT !["scan"] = "ok", !["match"] = "failed",
                                     !["group"] = "deferred"]
  OBVIOUS
<1>2. o \in [Ops -> Status] /\ o["group"] = "deferred"
  BY <1>1 DEF NoRow, Ops, Status
<1>3. NoRow \in Row /\ NoItem \in Items /\ NoRow.tries = 0
  BY FreshLocal DEF Items, NoRow
<1>4. FailedBefore = Recorded(NoRow, o, NoItem)
  BY <1>1 DEF FailedBefore
<1>5. /\ Recorded(NoRow, o, NoItem) \in Row /\ Honest(Recorded(NoRow, o, NoItem))
      /\ Recorded(NoRow, o, NoItem).tries = NoRow.tries + 1
      /\ Recorded(NoRow, o, NoItem).ops = o
  BY <1>2, <1>3, RecordedRow
<1> QED BY <1>2, <1>3, <1>4, <1>5

(* It holds when the program starts, with nothing delivered or everything  *)
(* tried.                                                                  *)
LEMMA InitHolds ==
    ASSUME Init
    PROVE  DeliveryInv
<1>1. Sweep \in Visits /\ Sweep \notin Fans /\ \A f \in Fans : f \in Visits
  BY MediaServerAssumption DEF Visits
<1>2. \A v \in Visits, d \in Dests : pc[v][d] = "idle" /\ loc[v][d] = Fresh
  BY DEF Init
<1>3. Fresh.row = NoRow /\ Fresh.box = 0 /\ Fresh.ops["group"] = "none" /\ NoRow.tries = 0
      /\ NoRow.ops["group"] = "none"
  BY FreshLocal DEF Fresh, NoRow
<1>4. \A b \in Books, d \in Dests :
         /\ rows[b][d] \in Row /\ Honest(rows[b][d]) /\ rows[b][d].ops["group"] # "ok"
         /\ rows[b][d].tries \in {0, 1}
  <2>1. Honest(NoRow)
    BY DEF Honest, NoRow
  <2>2. \A b \in Books, d \in Dests : rows[b][d] \in {NoRow, FailedBefore}
    BY DEF Init
  <2> QED BY <1>3, <2>1, <2>2, FreshLocal, FailedBeforeRow
<1>5. Types
  <2>1. ServerTypes
    <3>1. kind \in Layouts /\ indexed = [d \in Dests |-> {}]
          /\ boxes = [d \in Dests |-> <<>>] /\ tagged = [d \in Dests |-> {}]
      BY DEF Init
    <3>2. <<>> \in Seq(SUBSET Items)
      OBVIOUS
    <3> QED BY <3>1, <3>2 DEF ServerTypes
  <2>2. RowTypes
    <3>1. rows \in [Books -> [Dests -> Row]]
      BY FreshLocal, FailedBeforeRow DEF Init
    <3> QED BY <3>1, DeliveryAssumption DEF Init, RowTypes
  <2>3. WorkerTypes
    BY FreshLocal DEF Init, WorkerTypes, SweepPCs
  <2>4. FlowTypes
    <3>1. budget \in [Faults -> Nat] /\ budget["db"] = Budget["db"]
      BY MediaServerAssumption, DeliveryAssumption DEF Init, Faults
    <3>2. budget["db"] <= Budget["db"]
      BY <3>1, MediaServerAssumption DEF Faults
    <3>3. /\ visited = [f \in Fans |-> NoBook] /\ phase = "idle" /\ sweeps = 0
          /\ stirred = {} /\ cancelled = {} /\ hurt = {}
      BY DEF Init
    <3> QED BY <3>1, <3>2, <3>3 DEF FlowTypes
  <2> QED BY <2>1, <2>2, <2>3, <2>4 DEF Types
<1>6. Semaphore
  <2> SUFFICES ASSUME NEW v \in Visits
               PROVE  Cardinality(Working(v)) <= MaxConcurrency
    BY DEF Semaphore
  <2>1. Working(v) = {}
    BY <1>2 DEF Working, Resting
  <2> QED BY <2>1, FS_EmptySet, MediaServerAssumption
<1>7. Counted
  <2> SUFFICES ASSUME NEW d \in Dests
               PROVE  /\ \A b \in Books : rows[b][d].tries <= Cardinality(Tried(d)) + 1
                      /\ \A v \in Visits : loc[v][d].row.tries <= Cardinality(Tried(d)) + 1
    BY DEF Counted
  <2>1. Cardinality(Tried(d)) \in Nat
    BY TriedCounts
  <2> QED BY <1>2, <1>3, <1>4, <2>1
<1>8. Boxed
  BY <1>2, <1>3, <1>5 DEF Boxed, Types, ServerTypes
<1>9. FansHold
  BY <1>1, <1>2, <1>3 DEF FansHold, FanHolds, Init, FanPCs, AtServer
<1>10. RowsTrue
  BY <1>4 DEF RowsTrue, Grouped
<1>11. SweepsHold
  BY <1>1, <1>2 DEF SweepsHold, SweepHolds, SweepPCs, Listing, Grouping
<1>12. Reported
  BY <1>1, <1>2 DEF Reported, Enabled
<1> QED BY <1>5, <1>6, <1>7, <1>8, <1>9, <1>10, <1>11, <1>12 DEF DeliveryInv

(* Every step keeps it.                                                    *)
LEMMA NextKeeps ==
    ASSUME DeliveryInv, [Next]_vars
    PROVE  DeliveryInv'
<1>1. Sweep \in Visits /\ \A f \in Fans : f \in Visits
  BY DEF Visits
<1>2. CASE \E f \in Fans : \/ \E b \in Books : FanOut(f, b)
                           \/ Cancel(f)
                           \/ \E d \in Dests : FanStep(f, d)
  BY <1>1, <1>2, FanOutKeeps, CancelKeeps, AcquireKeeps, VisitKeeps, RecordReadKeeps,
     RecordWriteKeeps DEF FanStep
<1>3. CASE StartSweep \/ StartReconcile \/ EndSweep
  BY <1>3, TurnKeeps
<1>4. CASE \E d \in Dests : SweepStep(d)
  BY <1>1, <1>4, AcquireKeeps, RefreshKeeps, ReconcileKeeps, MatchReadKeeps,
     MatchWriteKeeps, MatchedKeeps DEF SweepStep
<1>5. CASE \E v \in Visits, d \in Dests : Expire(v, d)
  BY <1>5, ExpireKeeps
<1>6. CASE \E d \in Dests, b \in Books : Index(d, b)
  BY <1>6, IndexKeeps
<1>7. CASE Crash
  BY <1>7, CrashKeeps
<1>8. CASE Finished \/ UNCHANGED vars
  BY <1>8, StillKeeps DEF Finished
<1> QED BY <1>2, <1>3, <1>4, <1>5, <1>6, <1>7, <1>8 DEF Next

(* The invariant of the deliveries.                                        *)
THEOREM DeliveryInvariant == Spec => []DeliveryInv
<1>1. Init => DeliveryInv
  BY InitHolds
<1>2. DeliveryInv /\ [Next]_vars => DeliveryInv'
  BY NextKeeps
<1> QED BY <1>1, <1>2, PTL DEF Spec

(* Servers, rows and workers keep their types, a row counts no more        *)
(* attempts than there were fan-outs and the one before them, and a        *)
(* fan-out or a sweep never has more workers at work than it may.          *)
THEOREM DeliveryTypeCorrect == Spec => []DeliveryTypeOK
<1>1. ASSUME DeliveryInv
      PROVE  DeliveryTypeOK
  <2>1. Types /\ Semaphore
    BY <1>1 DEF DeliveryInv
  <2>2. Cardinality(Fans) \in Nat
    BY MediaServerAssumption, FS_CardinalityType
  <2>3. ASSUME NEW row \in Row, NEW d \in Dests, row.tries <= Cardinality(Tried(d)) + 1
        PROVE  row \in RowType
    <3>1. row.tries \in Nat /\ row.tries <= Cardinality(Fans) + 1
      BY <2>2, <2>3, TriedCounts DEF Row
    <3>2. row.tries \in 0..Cardinality(Fans) + 1
      BY <2>2, <3>1
    <3> QED BY <3>2 DEF Row, RowType
  <2>4. \A b \in Books, d \in Dests : rows[b][d] \in RowType
    BY <1>1, <2>1, <2>3 DEF DeliveryInv, Counted, Types, RowTypes
  <2>5. ASSUME NEW v \in Visits, NEW d \in Dests
        PROVE  /\ Me(v, d).book \in Books \cup {NoBook} /\ Me(v, d).item \in Items
               /\ Me(v, d).box \in 0..Len(boxes[d]) /\ Me(v, d).row \in RowType
               /\ Me(v, d).todo \subseteq Books /\ Me(v, d).pairs \subseteq Books \X Books
    <3>1. loc[v][d] \in Local
      BY <2>1 DEF Types, WorkerTypes
    <3>2. loc[v][d].row \in RowType
      BY <1>1, <2>3, <3>1 DEF DeliveryInv, Counted, Local
    <3>3. loc[v][d].box \in Nat /\ Len(boxes[d]) \in Nat /\ loc[v][d].box <= Len(boxes[d])
      BY <1>1, <2>1, <3>1 DEF DeliveryInv, Boxed, Types, ServerTypes, Local
    <3> QED BY <3>1, <3>2, <3>3 DEF Me, Local
  <2>6. /\ kind \in Layouts /\ complete \subseteq Books
        /\ indexed \in [Dests -> SUBSET Books] /\ tagged \in [Dests -> SUBSET Items]
        /\ \A d \in Dests : boxes[d] \in Seq(SUBSET Items)
    BY <2>1 DEF Types, ServerTypes, RowTypes
  <2>7. \A v \in Visits : Cardinality(Working(v)) <= MaxConcurrency
    BY <2>1 DEF Semaphore
  <2> QED BY <2>4, <2>5, <2>6, <2>7 DEF DeliveryTypeOK
<1> QED BY <1>1, DeliveryInvariant, PTL

(* What a book's rows say of its servers is so: every server has a row for *)
(* the book once its fan-out has ended, a row that says the book was put   *)
(* in its series names an item that is in it, and a row that says synced   *)
(* has no outcome that failed, whatever fan-outs and reconciles have       *)
(* written the row in whatever order.                                      *)
THEOREM RowsTruthful == Spec => []TruthfulRow
<1>1. ASSUME DeliveryInv
      PROVE  TruthfulRow
  <2>1. Answered
    <3> SUFFICES ASSUME NEW f \in Fans, Ended(f), f \notin cancelled,
                        budget["db"] = Budget["db"], NEW d \in Enabled
                 PROVE  rows[visited[f]][d] # NoRow
      BY DEF Answered
    <3>1. d \in Dests /\ FanHolds(f, d)
      BY <1>1 DEF Enabled, DeliveryInv, FansHold
    <3>2. pc[f][d] \in Resting /\ visited[f] # NoBook
      BY <3>1 DEF Ended
    <3>3. pc[f][d] = "done"
      BY <3>1, <3>2 DEF FanHolds, FanPCs, AtServer, Resting
    <3> QED BY <1>1, <3>3 DEF DeliveryInv, Reported
  <2>2. GroupIsTrue
    BY <1>1 DEF DeliveryInv, RowsTrue, Grouped, GroupIsTrue
  <2>3. SyncedIsHonest
    BY <1>1 DEF DeliveryInv, RowsTrue, Honest, SyncedIsHonest
  <2> QED BY <2>1, <2>2, <2>3 DEF TruthfulRow
<1> QED BY <1>1, DeliveryInvariant, PTL

-----------------------------------------------------------------------------
(* A reconcile without failures *)

(* A step leaves the sweep's worker at a server alone, and writes no rows  *)
(* of that server but of the books it notes.                               *)
Untouched(d) ==
    /\ pc'[Sweep][d] = pc[Sweep][d] /\ loc'[Sweep][d] = loc[Sweep][d]
    /\ d \in hurt => d \in hurt'
    /\ phase = "reconcile" =>
          /\ stirred \subseteq stirred'
          /\ \A b \in Books \ stirred' : rows'[b][d].item = rows[b][d].item

(* Then what the worker has is as good as before, even if its time is now  *)
(* over.                                                                   *)
LEMMA UntouchedFills ==
    ASSUME DeliveryInv, ServersGrow, NEW d \in Dests, FillAt(d),
           pc'[Sweep][d] = pc[Sweep][d],
           LET me == loc[Sweep][d]  new == loc'[Sweep][d] IN
              /\ new.list = me.list /\ new.todo = me.todo /\ new.ids = me.ids
              /\ new.box = me.box /\ new.pairs = me.pairs,
           d \in hurt => d \in hurt',
           phase = "reconcile" =>
              /\ stirred \subseteq stirred'
              /\ \A b \in Books \ stirred' : rows'[b][d].item = rows[b][d].item
    PROVE  FillAt(d)'
<1> DEFINE me == loc[Sweep][d]
           at == pc[Sweep][d]
<1> SUFFICES ASSUME kind[d] \in {"plex", "emby"}, d \notin hurt
             PROVE  Filled(d, pc[Sweep][d], loc[Sweep][d])'
  BY DEF FillAt, ServersGrow
<1>1. Filled(d, at, me)
  BY DEF FillAt
<1>2. me.list \subseteq Books
  BY SweepHas
<1>3. at \in {"matching", "matched", "load", "identity"} \cup Grouping => phase = "reconcile"
  BY DEF DeliveryInv, SweepsHold, SweepHolds, Listing
<1>4. \A b \in Books : InGroup(d, b) => InGroup(d, b)'
  BY DEF ServersGrow, Items
<1>5. at \in {"matching", "matched", "load"} =>
         \A b \in me.list \ stirred' :
            rows'[b][d].item \in Named(b) \cap me.list \/ <<b, b>> \in me.pairs
  BY <1>1, <1>2, <1>3 DEF Filled
<1>6. at \in {"identity"} \cup Grouping =>
         \A b \in (me.list \cap InSeries) \ stirred' :
            \E i \in Named(b) \cap me.list :
               /\ me.ids[b] = i
               /\ b \in me.todo \/ (at = "add" /\ InGroup(d, i)')
  <2> SUFFICES ASSUME at \in {"identity"} \cup Grouping,
                      NEW b \in (me.list \cap InSeries) \ stirred'
               PROVE  \E i \in Named(b) \cap me.list :
                         /\ me.ids[b] = i
                         /\ b \in me.todo \/ (at = "add" /\ InGroup(d, i)')
    OBVIOUS
  <2>1. /\ me.ids[b] \in Named(b) \cap me.list
        /\ b \in me.todo \/ (at = "add" /\ InGroup(d, me.ids[b]))
    BY <1>1, <1>3 DEF Filled
  <2> PICK i \in Named(b) \cap me.list : i = me.ids[b]
    BY <2>1
  <2>2. InGroup(d, i) => InGroup(d, i)'
    BY <1>2, <1>4
  <2> QED BY <2>1, <2>2
<1>7. at \in {"identity"} \cup Grouping =>
         \A b \in (me.list \cap InSeries) \ stirred' :
            /\ loc'[Sweep][d].ids[b] \in Named(b) \cap me.list
            /\ b \in me.todo \/ (at = "add" /\ InGroup(d, loc[Sweep][d].ids[b])')
  <2> SUFFICES ASSUME at \in {"identity"} \cup Grouping,
                      NEW b \in (me.list \cap InSeries) \ stirred'
               PROVE  /\ loc'[Sweep][d].ids[b] \in Named(b) \cap me.list
                      /\ b \in me.todo \/ (at = "add" /\ InGroup(d, loc[Sweep][d].ids[b])')
    OBVIOUS
  <2> PICK i \in Named(b) \cap me.list :
               /\ i = loc'[Sweep][d].ids[b]
               /\ b \in me.todo \/ (at = "add" /\ InGroup(d, i)')
    BY <1>6
  <2> QED OBVIOUS
<1> QED BY <1>1, <1>5, <1>7 DEF Filled

(* A step that leaves the sweep alone and forgets no complete book.        *)
LEMMA AsideFills ==
    ASSUME FillInv, ServersGrow, \A d \in Dests : Untouched(d),
           complete \subseteq complete', \A d \in Dests : indexed'[d] \subseteq complete'
    PROVE  ListsComplete' /\ Fills'
<1>1. \A d \in Dests : FillAt(d)'
  BY UntouchedFills DEF FillInv, Fills, Untouched
<1>2. \A d \in Dests : loc'[Sweep][d].list \subseteq complete'
  BY DEF FillInv, ListsComplete, Untouched
<1> QED BY <1>1, <1>2 DEF Fills, ListsComplete

(* Only its own worker moves in a step of a fan-out.                       *)
LEMMA FanMoves ==
    ASSUME DeliveryInv, NEW f \in Fans, NEW d \in Dests, FanStep(f, d)
    PROVE  /\ pc'[Sweep] = pc[Sweep] /\ loc'[Sweep] = loc[Sweep]
           /\ ServersGrow /\ hurt' = hurt /\ complete' = complete /\ phase' = phase
<1>1. Sweep # f /\ f \in Visits /\ Sweep \in Visits
  BY MediaServerAssumption DEF Visits
<1>2. /\ pc \in [Visits -> [Dests -> FanPCs \cup SweepPCs]]
      /\ loc \in [Visits -> [Dests -> Local]] /\ ServerTypes
  BY DEF DeliveryInv, Types, WorkerTypes
<1>3. CASE Visit(f, d)
  <2>1. kind' = kind /\ complete' = complete /\ phase' = phase
    BY <1>3 DEF Visit, flowVars
  <2>2. Visited(f, d)
    BY <1>3, <2>1, PlexVisits, EmbyVisits, JellyfinVisits, AbsVisits DEF Visit
  <2>3. PICK l \in AtServer \cup {"read"}, m \in Local : VisitTo(f, d, l, m)
    BY <2>2 DEF Visited
  <2> QED BY <1>1, <1>2, <2>1, <2>2, <2>3 DEF Visited, VisitTo, Goes
<1>4. CASE Acquire(f, d) \/ RecordRead(f, d) \/ RecordWrite(f, d)
  <2>1. /\ UNCHANGED <<kind, serverVars, hurt, complete, phase>>
    BY <1>4 DEF Acquire, RecordRead, RecordWrite, flowVars
  <2>2. ServersGrow
    BY <1>2, <2>1, ServersStill
  <2>3. \E l : pc' = [pc EXCEPT ![f][d] = l]
    BY <1>4 DEF Acquire, RecordRead, RecordWrite, Goto, Stop
  <2>4. loc' = loc \/ \E m : loc' = [loc EXCEPT ![f][d] = m]
    BY <1>4 DEF Acquire, RecordRead, RecordWrite, Set, Stop
  <2> QED BY <1>1, <1>2, <2>1, <2>2, <2>3, <2>4
<1> QED BY <1>3, <1>4 DEF FanStep

(* A fan-out does a reconcile no harm but where it writes a row, which is  *)
(* noted.                                                                  *)
LEMMA FanFills ==
    ASSUME FillInv, NEW f \in Fans,
           (\E b \in Books : FanOut(f, b)) \/ Cancel(f) \/ \E d \in Dests : FanStep(f, d)
    PROVE  ListsComplete' /\ Fills'
<1>1. Sweep # f /\ f \in Visits /\ Sweep \in Visits
  BY MediaServerAssumption DEF Visits
<1>2. /\ pc \in [Visits -> [Dests -> FanPCs \cup SweepPCs]]
      /\ loc \in [Visits -> [Dests -> Local]] /\ ServerTypes
      /\ rows \in [Books -> [Dests -> Row]]
      /\ \A d \in Dests : indexed[d] \subseteq complete
  BY DEF FillInv, ListsComplete, DeliveryInv, Types, WorkerTypes, RowTypes
<1>3. CASE (\E b \in Books : FanOut(f, b)) \/ Cancel(f)
  <2>1. /\ UNCHANGED <<kind, serverVars, hurt, rows, stirred>>
        /\ complete \subseteq complete'
    BY <1>3 DEF FanOut, Cancel
  <2>2. pc'[Sweep] = pc[Sweep] /\ loc'[Sweep] = loc[Sweep]
    BY <1>1, <1>2, <1>3 DEF FanOut, Cancel
  <2>3. ServersGrow
    BY <1>2, <2>1, ServersStill
  <2>4. \A d \in Dests : Untouched(d)
    BY <2>1, <2>2 DEF Untouched
  <2>5. \A d \in Dests : indexed'[d] \subseteq complete'
    BY <1>2, <2>1 DEF serverVars
  <2> QED BY <2>1, <2>3, <2>4, <2>5, AsideFills
<1>4. ASSUME NEW d \in Dests, FanStep(f, d)
      PROVE  ListsComplete' /\ Fills'
  <2>1. /\ pc'[Sweep] = pc[Sweep] /\ loc'[Sweep] = loc[Sweep]
        /\ ServersGrow /\ hurt' = hurt /\ complete' = complete
    BY <1>4, FanMoves DEF FillInv
  <2>2. indexed' = indexed
    BY <1>4 DEF FanStep, Visit, Acquire, RecordRead, RecordWrite, serverVars,
                PlexVisit, PlexScan, PlexWaitForAlbum, PlexFindCollection,
                PlexCreateCollection, PlexAdd,
                EmbyVisit, EmbyScan, EmbyWaitForItem, EmbyFindCollection,
                EmbyCreateCollection, EmbyAdd, EmbyTag,
                JellyfinVisit, JellyfinScan, JellyfinWaitForAudioBook,
                JellyfinFindCollection, JellyfinCreateCollection, JellyfinAdd, JellyfinTag,
                AbsVisit, AbsScan, AbsWaitForItem, AbsItemHasSeries, AbsPatchSeries
  <2>3. UNCHANGED <<rows, stirred>> \/ RecordWrite(f, d)
    BY <1>4 DEF FanStep, Visit, Acquire, RecordRead
  <2>4. phase = "reconcile" => /\ stirred \subseteq stirred'
                               /\ \A b \in Books \ stirred' : rows'[b] = rows[b]
    BY <1>2, <2>3 DEF RecordWrite
  <2>5. \A e \in Dests : Untouched(e)
    BY <2>1, <2>4 DEF Untouched
  <2>6. \A e \in Dests : indexed'[e] \subseteq complete'
    BY <1>2, <2>1, <2>2
  <2> QED BY <2>1, <2>5, <2>6, AsideFills
<1> QED BY <1>3, <1>4

(* A step of the sweep's worker at a server leaves the others alone: it is *)
(* enough that it leaves its own locals as they must be.                   *)
LEMMA SweptFills ==
    ASSUME FillInv, NEW d \in Dests, NEW l, NEW m \in Local, Goes(Sweep, d, l, m),
           ServersGrow, hurt \subseteq hurt', UNCHANGED <<stirred, indexed, complete>>,
           \A b \in Books, e \in Dests : e # d => rows'[b][e] = rows[b][e],
           m.list \subseteq complete,
           kind[d] \in {"plex", "emby"} /\ d \notin hurt' => Filled(d, l, m)'
    PROVE  ListsComplete' /\ Fills'
<1>1. /\ Sweep \in Visits /\ pc \in [Visits -> [Dests -> FanPCs \cup SweepPCs]]
      /\ loc \in [Visits -> [Dests -> Local]]
  BY DEF Visits, FillInv, DeliveryInv, Types, WorkerTypes
<1>2. /\ pc'[Sweep][d] = l /\ loc'[Sweep][d] = m
      /\ \A e \in Dests : e # d => pc'[Sweep][e] = pc[Sweep][e]
                                   /\ loc'[Sweep][e] = loc[Sweep][e]
  BY <1>1 DEF Goes
<1>3. ASSUME NEW e \in Dests
      PROVE  FillAt(e)'
  <2>1. CASE e = d
    <3>1. kind' = kind
      BY DEF ServersGrow
    <3>2. kind[d] \in {"plex", "emby"} /\ d \notin hurt' =>
             Filled(d, pc[Sweep][d], loc[Sweep][d])'
      BY <1>2
    <3> QED BY <2>1, <3>1, <3>2 DEF FillAt
  <2>2. CASE e # d
    BY <1>2, <2>2, UntouchedFills DEF FillInv, Fills
  <2> QED BY <2>1, <2>2
<1>4. ListsComplete'
  <2>1. \A e \in Dests : loc'[Sweep][e].list \subseteq complete'
    BY <1>2 DEF FillInv, ListsComplete
  <2>2. \A e \in Dests : indexed'[e] \subseteq complete'
    BY DEF FillInv, ListsComplete
  <2> QED BY <2>1, <2>2 DEF ListsComplete
<1> QED BY <1>3, <1>4 DEF Fills

(* A call that failed is remembered.                                       *)
LEMMA ErrHurts ==
    ASSUME NEW d \in Dests, NEW k, Err(Sweep, d, k)
    PROVE  d \in hurt' /\ hurt \subseteq hurt'
BY DEF Err

(* Every call of a reconcile leaves what is needed of it: the listing has  *)
(* complete books, the rows read have the items of those that were         *)
(* matched, and every book of a series is added in the end.                *)
LEMMA ReconcileFills ==
    ASSUME FillInv, NEW d \in Dests, Reconciling(d), kind' = kind,
           UNCHANGED <<complete, rows, stirred>>
    PROVE  ListsComplete' /\ Fills'
<1> PICK me \in Local : me = loc[Sweep][d]
  BY SweepHas DEF FillInv
<1>1. /\ DeliveryInv /\ ServerTypes /\ me.row \in Row /\ me.box \in Nat
      /\ me.box <= Len(boxes[d])
      /\ Len(boxes[d]) \in Nat /\ me.todo \subseteq Books /\ me.list \subseteq Books
      /\ me.ids \in [Books -> Items]
  BY SweepHas DEF FillInv, DeliveryInv, Types
<1>2. me.list \subseteq complete /\ indexed[d] \subseteq complete /\ complete \subseteq Books
  BY <1>1 DEF FillInv, ListsComplete, Types, RowTypes, DeliveryInv
<1>3. ServersGrow
  BY <1>1, ReconcilesTo
<1>4. kind[d] \in {"plex", "emby"} /\ d \notin hurt => Filled(d, pc[Sweep][d], me)
  BY DEF FillInv, Fills, FillAt
<1>5. \A b \in Books : InGroup(d, b) => InGroup(d, b)'
  BY <1>3 DEF ServersGrow, Items
<1>6. ASSUME NEW l, NEW m \in Local, Goes(Sweep, d, l, m), hurt \subseteq hurt',
             UNCHANGED indexed, m.list \subseteq complete,
             kind[d] \in {"plex", "emby"} /\ d \notin hurt' => Filled(d, l, m)'
      PROVE  ListsComplete' /\ Fills'
  BY <1>3, <1>6, SweptFills
<1>7. CASE Listed(d)
  <2>1. PICK P \in SUBSET (Books \X Books) :
            /\ Set(Sweep, d, [list |-> indexed[d], pairs |-> P])
            /\ kind[d] \in {"plex", "emby"} => \A b \in indexed[d] \cap complete : <<b, b>> \in P
    BY <1>7 DEF Listed
  <2>2. indexed[d] \in SUBSET Books
    BY <1>1 DEF ServerTypes
  <2>3. PICK m \in Local : /\ m = With(me, [list |-> indexed[d], pairs |-> P])
                           /\ m.list = indexed[d] /\ m.pairs = P
    BY <2>2, LocalsList
  <2>4. Goes(Sweep, d, "matching", m) /\ UNCHANGED indexed /\ hurt' = hurt
    BY <1>7, <2>1, <2>3 DEF Listed, Set, Goto, Goes, Ok, serverVars
  <2>5. kind[d] \in {"plex", "emby"} => Filled(d, "matching", m)'
    BY <1>2, <2>1, <2>3 DEF Filled, Grouping
  <2> QED BY <1>2, <1>6, <2>3, <2>4, <2>5
<1>8. CASE Failed(d)
  <2>1. PICK m \in Local : m = Fresh
    BY FreshLocal
  <2>2. Goes(Sweep, d, "failed", m) /\ m.list = {}
    BY <1>8, <2>1 DEF Failed, Stop, Goto, Goes, Fresh
  <2>3. UNCHANGED indexed /\ d \in hurt' /\ hurt \subseteq hurt'
    BY <1>8, ErrHurts DEF Failed, serverVars
  <2> QED BY <1>6, <2>2, <2>3
<1>9. CASE Loaded(d)
  <2>1. PICK T \in SUBSET Books, l \in {"identity", "look", "add"} :
            /\ \A b \in complete \cap InSeries \cap me.list :
                  rows[b][d].item \in Named(b) \cap me.list => b \in T
            /\ l = "add" => T = {}
            /\ Set(Sweep, d, [todo |-> T, ids |-> ItemIDs(d)]) /\ Goto(Sweep, d, l)
    BY <1>9 DEF Loaded
  <2>2. PICK ids \in [Books -> Items] : ids = ItemIDs(d)
    BY DEF ItemIDs, FillInv, DeliveryInv, Types, RowTypes, Row
  <2>3. PICK m \in Local : /\ m = With(me, [todo |-> T, ids |-> ids])
                           /\ m.todo = T /\ m.ids = ids /\ m.list = me.list
    BY LocalsIds
  <2>4. Goes(Sweep, d, l, m) /\ UNCHANGED indexed /\ hurt' = hurt
        /\ pc[Sweep][d] = "load"
    BY <1>9, <2>1, <2>2, <2>3 DEF Loaded, AtReconcile, Set, Goto, Goes, Ok, serverVars
  <2>5. kind[d] \in {"plex", "emby"} /\ d \notin hurt' => Filled(d, l, m)'
    <3> SUFFICES ASSUME kind[d] \in {"plex", "emby"}, d \notin hurt
                 PROVE  Filled(d, l, m)'
      BY <2>4
    <3>1. \A b \in me.list \ stirred : rows[b][d].item \in Named(b) \cap me.list
      BY <1>4, <2>4 DEF Filled
    <3>2. \A b \in (me.list \cap InSeries) \ stirred :
             ids[b] \in Named(b) \cap me.list /\ b \in T
      BY <1>1, <1>2, <2>1, <2>2, <3>1 DEF ItemIDs
    <3> QED BY <2>1, <2>3, <3>2 DEF Filled, Grouping
  <2> QED BY <1>2, <1>6, <2>3, <2>4, <2>5
<1>10. CASE Looked(d)
  <2>1. PICK l \in {"look", "create"} : Goto(Sweep, d, l)
    BY <1>10 DEF Looked
  <2>2. loc' = [loc EXCEPT ![Sweep][d] = me]
    BY <1>10, <1>1 DEF Looked, DeliveryInv, Types, WorkerTypes
  <2>3. Goes(Sweep, d, l, me) /\ UNCHANGED indexed /\ hurt' = hurt
        /\ pc[Sweep][d] \in {"identity", "look"}
    BY <1>10, <2>1, <2>2 DEF Looked, AtReconcile, Goto, Goes, Ok, serverVars
  <2>4. kind[d] \in {"plex", "emby"} /\ d \notin hurt' => Filled(d, l, me)'
    BY <1>4, <2>3 DEF Filled, Grouping
  <2> QED BY <1>2, <1>6, <2>3, <2>4
<1>11. CASE Found(d)
  <2>1. PICK n \in Nat : Set(Sweep, d, [box |-> n]) /\ n # 0
    <3>1. Len(boxes[d]) + 1 \in Nat /\ Len(boxes[d]) + 1 # 0 /\ 1 \in Nat /\ 1 # 0
      BY <1>1
    <3> QED BY <1>11, <3>1 DEF Found
  <2>2. PICK m \in Local : /\ m = With(me, [box |-> n]) /\ m.box = n /\ m.list = me.list
                           /\ m.todo = me.todo /\ m.ids = me.ids
    BY LocalsBox
  <2>3. Goes(Sweep, d, "add", m) /\ UNCHANGED indexed /\ hurt' = hurt
        /\ pc[Sweep][d] \in {"look", "create"}
    BY <1>11, <2>1, <2>2 DEF Found, AtReconcile, Set, Goto, Goes, Ok
  <2>4. kind[d] \in {"plex", "emby"} /\ d \notin hurt' => Filled(d, "add", m)'
    BY <1>4, <2>1, <2>2, <2>3 DEF Filled, Grouping
  <2> QED BY <1>2, <1>6, <2>2, <2>3, <2>4
<1>12. CASE GaveUp(d)
  <2>1. PICK m \in Local : m = With(me, [todo |-> {}]) /\ m.list = me.list
    BY LocalsTodo
  <2>2. Goes(Sweep, d, "add", m) /\ UNCHANGED indexed
    BY <1>12, <2>1 DEF GaveUp, Set, Goto, Goes
  <2>3. d \in hurt' /\ hurt \subseteq hurt'
    BY <1>12, ErrHurts DEF GaveUp
  <2> QED BY <1>2, <1>6, <2>1, <2>2, <2>3
<1>13. CASE AddedAgain(d)
  <2>1. PICK b \in me.todo :
            /\ \/ Ok(Sweep, d) /\ PutInBox(d, me.box, me.ids[b])
               \/ Err(Sweep, d, "net") /\ UNCHANGED boxes
            /\ Set(Sweep, d, [todo |-> me.todo \ {b}])
    BY <1>13 DEF AddedAgain
  <2>2. me.ids[b] \in Items /\ b \in Books
    BY <1>1
  <2>3. PICK m \in Local : /\ m = With(me, [todo |-> me.todo \ {b}]) /\ m.list = me.list
                           /\ m.todo = me.todo \ {b} /\ m.ids = me.ids /\ m.box = me.box
    BY <1>1, LocalsTodo
  <2>4. Goes(Sweep, d, "add", m) /\ pc[Sweep][d] = "add" /\ UNCHANGED <<indexed, tagged>>
    <3>1. pc[Sweep][d] = "add" /\ pc' = pc /\ UNCHANGED <<indexed, tagged>>
      BY <1>13 DEF AddedAgain, AtReconcile
    <3>2. pc' = [pc EXCEPT ![Sweep][d] = "add"]
      BY <1>1, <3>1 DEF DeliveryInv, Types, WorkerTypes
    <3>3. loc' = [loc EXCEPT ![Sweep][d] = m]
      BY <2>1, <2>3 DEF Set
    <3> QED BY <3>1, <3>2, <3>3 DEF Goes
  <2>5. CASE Err(Sweep, d, "net")
    <3>1. d \in hurt' /\ hurt \subseteq hurt'
      BY <2>5, ErrHurts
    <3> QED BY <1>2, <1>6, <2>3, <2>4, <3>1
  <2>6. CASE Ok(Sweep, d) /\ PutInBox(d, me.box, me.ids[b])
    <3>1. hurt' = hurt
      BY <2>6 DEF Ok
    <3>2. kind[d] \in {"plex", "emby"} /\ d \notin hurt => Filled(d, "add", m)'
      <4> SUFFICES ASSUME kind[d] \in {"plex", "emby"}, d \notin hurt
                   PROVE  Filled(d, "add", m)'
        OBVIOUS
      <4>1. Filled(d, "add", me)
        BY <1>4, <2>4
      <4>2. me.box # 0
        BY <2>1, <4>1 DEF Filled
      <4>3. me.box \in 1..Len(boxes[d])
        BY <1>1, <4>2
      <4>4. InGroup(d, me.ids[b])'
        BY <1>1, <2>2, <2>4, <2>6, <4>3, PutInBoxGrows
      <4>6. \A c \in (me.list \cap InSeries) \ stirred :
               /\ me.ids[c] \in Named(c) \cap me.list
               /\ c \in me.todo \/ InGroup(d, me.ids[c])
        BY <4>1 DEF Filled, Grouping
      <4>7. \A c \in (me.list \cap InSeries) \ stirred :
               /\ me.ids[c] \in Named(c) \cap me.list
               /\ c \in me.todo \ {b} \/ InGroup(d, me.ids[c])'
        BY <1>1, <1>5, <4>4, <4>6
      <4> QED BY <2>3, <4>2, <4>7 DEF Filled, Grouping
    <3> QED BY <1>2, <1>6, <2>3, <2>4, <3>1, <3>2
  <2> QED BY <2>1, <2>5, <2>6
<1> QED BY <1>7, <1>8, <1>9, <1>10, <1>11, <1>12, <1>13 DEF Reconciling

(* The row of every matched book is read, given its item and written back, *)
(* or the reconcile remembers that this failed.                            *)
LEMMA MatchFills ==
    ASSUME FillInv, NEW d \in Dests, MatchRead(d) \/ MatchWrite(d)
    PROVE  ListsComplete' /\ Fills'
<1> PICK me \in Local : me = loc[Sweep][d]
  BY SweepHas DEF FillInv
<1>1. /\ DeliveryInv /\ ServerTypes /\ me.list \subseteq Books
      /\ me.pairs \subseteq Books \X Books
      /\ rows \in [Books -> [Dests -> Row]]
  BY SweepHas DEF FillInv, DeliveryInv, Types, RowTypes
<1>2. me.list \subseteq complete
  BY DEF FillInv, ListsComplete
<1>3. UNCHANGED <<kind, serverVars, complete, stirred>>
  BY DEF MatchRead, MatchWrite, flowVars
<1>4. ServersGrow
  BY <1>1, <1>3, ServersStill
<1>5. kind[d] \in {"plex", "emby"} /\ d \notin hurt => Filled(d, pc[Sweep][d], me)
  BY DEF FillInv, Fills, FillAt
<1>6. ASSUME NEW l, NEW m \in Local, Goes(Sweep, d, l, m), hurt \subseteq hurt',
             \A b \in Books, e \in Dests : e # d => rows'[b][e] = rows[b][e],
             m.list = me.list,
             kind[d] \in {"plex", "emby"} /\ d \notin hurt' => Filled(d, l, m)'
      PROVE  ListsComplete' /\ Fills'
  BY <1>2, <1>3, <1>4, <1>6, SweptFills DEF serverVars
<1>7. CASE MatchRead(d)
  <2> PICK i \in Books, b \in Books :
          /\ <<i, b>> \in me.pairs
          /\ \/ /\ Ok(Sweep, d) /\ Goto(Sweep, d, "matched")
                /\ Set(Sweep, d, [item |-> i, book |-> b, row |-> rows[b][d]])
             \/ /\ Err(Sweep, d, "db") /\ UNCHANGED pc
                /\ Set(Sweep, d, [item |-> i, pairs |-> me.pairs \ {<<i, b>>}])
    BY <1>1, <1>7, NextPair DEF MatchRead, Me
  <2>1. pc[Sweep][d] = "matching" /\ UNCHANGED rows /\ i \in Items
    BY <1>7 DEF MatchRead, Items
  <2>2. CASE /\ Ok(Sweep, d) /\ Goto(Sweep, d, "matched")
             /\ Set(Sweep, d, [item |-> i, book |-> b, row |-> rows[b][d]])
    <3>1. PICK row \in Row : row = rows[b][d]
      BY <1>1
    <3>2. PICK m \in Local : /\ m = With(me, [item |-> i, book |-> b, row |-> row])
                             /\ m.list = me.list /\ m.pairs = me.pairs
      BY <2>1, LocalsRead
    <3>3. Goes(Sweep, d, "matched", m) /\ hurt' = hurt
      BY <2>2, <3>1, <3>2 DEF Set, Goto, Goes, Ok
    <3>4. kind[d] \in {"plex", "emby"} /\ d \notin hurt' => Filled(d, "matched", m)'
      BY <1>3, <1>5, <2>1, <3>2, <3>3 DEF Filled, Grouping
    <3> QED BY <1>6, <2>1, <3>2, <3>3, <3>4
  <2>3. CASE /\ Err(Sweep, d, "db") /\ UNCHANGED pc
             /\ Set(Sweep, d, [item |-> i, pairs |-> me.pairs \ {<<i, b>>}])
    <3>1. PICK m \in Local : /\ m = With(me, [item |-> i, pairs |-> me.pairs \ {<<i, b>>}])
                             /\ m.list = me.list
      BY <1>1, <2>1, LocalsPairs
    <3>2. Goes(Sweep, d, "matching", m)
      BY <1>1, <2>1, <2>3, <3>1 DEF Set, Goes, DeliveryInv, Types, WorkerTypes
    <3>3. d \in hurt' /\ hurt \subseteq hurt'
      BY <2>3, ErrHurts
    <3> QED BY <1>6, <2>1, <3>1, <3>2, <3>3
  <2> QED BY <2>2, <2>3
<1>8. CASE MatchWrite(d)
  <2>1. pc[Sweep][d] = "matched" /\ <<me.item, me.book>> \in me.pairs /\ Paired(me)
    BY <1>8 DEF MatchWrite, FillInv, DeliveryInv, SweepsHold, SweepHolds, Paired
  <2> PICK b \in Books, i \in Books : b = me.book /\ i = me.item
    BY <1>1, <2>1
  <2>6. i \in Named(b) \cap me.list
    BY <2>1 DEF Paired
  <2>2. PICK m \in Local :
            /\ m = With(me, [book |-> NoBook, row |-> NoRow, pairs |-> me.pairs \ {<<i, b>>}])
            /\ m.list = me.list /\ m.pairs = me.pairs \ {<<i, b>>}
    <3>1. PICK P \in SUBSET (Books \X Books) : P = me.pairs \ {<<i, b>>}
      BY <1>1
    <3>2. NoBook \in Books \cup {NoBook} /\ NoRow \in Row
      BY FreshLocal
    <3> QED BY <3>1, <3>2, LocalsWritten
  <2>3. Goes(Sweep, d, "matching", m)
    BY <1>8, <2>2 DEF MatchWrite, Me, Set, Goto, Goes
  <2>4. CASE Err(Sweep, d, "db") /\ UNCHANGED rows
    <3>1. d \in hurt' /\ hurt \subseteq hurt'
      BY <2>4, ErrHurts
    <3> QED BY <1>6, <2>2, <2>3, <2>4, <3>1
  <2>5. CASE Ok(Sweep, d) /\ rows' = [rows EXCEPT ![b][d] = WithItem(me.row, i)]
    <3>1. hurt' = hurt
      BY <2>5 DEF Ok
    <3>2. /\ \A c \in Books, e \in Dests : e # d => rows'[c][e] = rows[c][e]
          /\ \A c \in Books : c # b => rows'[c][d] = rows[c][d]
          /\ rows'[b][d] = WithItem(me.row, i)
      BY <1>1, <2>5
    <3>3. WithItem(me.row, i).item = i
      <4>1. me.row \in Row
        BY DEF Local
      <4> QED BY <4>1 DEF WithItem, Row
    <3>4. kind[d] \in {"plex", "emby"} /\ d \notin hurt' => Filled(d, "matching", m)'
      <4> SUFFICES ASSUME kind[d] \in {"plex", "emby"}, d \notin hurt
                   PROVE  Filled(d, "matching", m)'
        BY <3>1
      <4>1. \A c \in me.list \ stirred :
               rows[c][d].item \in Named(c) \cap me.list \/ <<c, c>> \in me.pairs
        BY <1>5, <2>1 DEF Filled
      <4>2. \A c \in me.list \ stirred :
               \/ rows'[c][d].item \in Named(c) \cap me.list
               \/ <<c, c>> \in me.pairs \ {<<i, b>>}
        BY <1>1, <2>6, <3>2, <3>3, <4>1
      <4> QED BY <1>3, <2>2, <4>2 DEF Filled, Grouping
    <3> QED BY <1>6, <2>2, <2>3, <3>1, <3>2, <3>4
  <2> QED BY <1>8, <2>4, <2>5 DEF MatchWrite, Me
<1> QED BY <1>7, <1>8

(* The other steps of the sweep's worker: it starts, stops, or goes on.    *)
LEMMA PassFills ==
    ASSUME FillInv, NEW d \in Dests,
           Acquire(Sweep, d) \/ Refresh(d) \/ Matched(d) \/ Reconciled(d)
    PROVE  ListsComplete' /\ Fills'
<1> PICK me \in Local : me = loc[Sweep][d]
  BY SweepHas DEF FillInv
<1>1. /\ DeliveryInv /\ ServerTypes
      /\ loc \in [Visits -> [Dests -> Local]] /\ Sweep \in Visits
  BY DEF FillInv, DeliveryInv, Types, WorkerTypes, Visits
<1>2. me.list \subseteq complete
  BY DEF FillInv, ListsComplete
<1>3. UNCHANGED <<kind, serverVars, complete, stirred, rows>>
  BY DEF Acquire, Refresh, Matched, Reconciled, flowVars
<1>4. ServersGrow
  BY <1>1, <1>3, ServersStill
<1>5. hurt \subseteq hurt'
  BY DEF Acquire, Refresh, Matched, Reconciled, Ok, Err
<1>6. ASSUME NEW l, NEW m \in Local, Goes(Sweep, d, l, m), m.list \subseteq complete,
             kind[d] \in {"plex", "emby"} /\ d \notin hurt' => Filled(d, l, m)'
      PROVE  ListsComplete' /\ Fills'
  BY <1>3, <1>4, <1>5, <1>6, SweptFills DEF serverVars
<1>7. CASE \E l \in {"done", "failed"} : Stop(Sweep, d, l)
  <2>1. PICK l \in {"done", "failed"} : Stop(Sweep, d, l)
    BY <1>7
  <2>2. PICK m \in Local : m = Fresh
    BY FreshLocal
  <2>3. Goes(Sweep, d, l, m) /\ m.list = {}
    BY <2>1, <2>2 DEF Stop, Goto, Goes, Fresh
  <2>4. Filled(d, l, m)'
    BY DEF Filled, Grouping
  <2> QED BY <1>6, <2>3, <2>4
<1>8. CASE \E l \in {"refresh", "list"} : Goto(Sweep, d, l) /\ UNCHANGED loc
  <2>1. PICK l \in {"refresh", "list"} : Goto(Sweep, d, l) /\ UNCHANGED loc
    BY <1>8
  <2>2. Goes(Sweep, d, l, me)
    BY <1>1, <2>1 DEF Goto, Goes
  <2>3. Filled(d, l, me)'
    BY DEF Filled, Grouping
  <2> QED BY <1>2, <1>6, <2>2, <2>3
<1>9. CASE /\ pc[Sweep][d] = "matching" /\ me.pairs = {} /\ UNCHANGED hurt
           /\ Goto(Sweep, d, "load") /\ Set(Sweep, d, [item |-> NoItem])
  <2>3. PICK m \in Local : /\ m = With(me, [item |-> NoItem])
                           /\ m.list = me.list /\ m.pairs = me.pairs
    BY LocalsNoItem DEF Items
  <2>1. Goes(Sweep, d, "load", m)
    BY <1>9, <2>3 DEF Set, Goto, Goes
  <2>2. kind[d] \in {"plex", "emby"} /\ d \notin hurt' => Filled(d, "load", m)'
    BY <1>3, <1>9, <2>3 DEF FillInv, Fills, FillAt, Filled, Grouping
  <2> QED BY <1>2, <1>6, <2>1, <2>2, <2>3
<1>10. CASE Acquire(Sweep, d)
  <2>1. \E l \in {"refresh", "list"} : Goto(Sweep, d, l) /\ UNCHANGED loc
    BY <1>10 DEF Acquire
  <2> QED BY <1>8, <2>1
<1> QED BY <1>7, <1>9, <1>10 DEF Refresh, Matched, Reconciled, Me

(* When the sweep begins, turns to the reconciles, or ends, and after a    *)
(* restart, no worker has a listing that it works on.                      *)
LEMMA TurnFills ==
    ASSUME FillInv, StartSweep \/ StartReconcile \/ EndSweep \/ Crash
    PROVE  ListsComplete' /\ Fills'
<1>1. UNCHANGED <<kind, serverVars, complete>>
  BY DEF StartSweep, StartReconcile, EndSweep, Crash
<1>2. /\ pc \in [Visits -> [Dests -> FanPCs \cup SweepPCs]]
      /\ loc \in [Visits -> [Dests -> Local]] /\ Sweep \in Visits
  BY DEF FillInv, DeliveryInv, Types, WorkerTypes, Visits
<1>3. \A d \in Dests : /\ pc'[Sweep][d] \in {"queued", "done", "idle"}
                       /\ loc'[Sweep][d] \in {Fresh, loc[Sweep][d]}
  <2>1. CASE StartSweep \/ StartReconcile
    BY <1>2, <2>1 DEF StartSweep, StartReconcile, QueueSweep
  <2>2. CASE EndSweep
    BY <1>2, <2>2 DEF EndSweep
  <2>3. CASE Crash
    BY <1>2, <2>3 DEF Crash
  <2> QED BY <2>1, <2>2, <2>3
<1>4. \A d \in Dests : FillAt(d)'
  BY <1>3 DEF FillAt, Filled, Grouping
<1>5. \A d \in Dests : loc'[Sweep][d].list \subseteq complete'
  BY <1>1, <1>3 DEF FillInv, ListsComplete, Fresh
<1> QED BY <1>1, <1>4, <1>5 DEF Fills, ListsComplete, FillInv, serverVars

(* A deadline, and what a server does on its own, change nothing that a    *)
(* reconcile has.                                                          *)
LEMMA OtherFills ==
    ASSUME FillInv, \/ \E v \in Visits, d \in Dests : Expire(v, d)
                    \/ \E d \in Dests, b \in Books : Index(d, b)
                    \/ UNCHANGED vars
    PROVE  ListsComplete' /\ Fills'
<1>1. /\ DeliveryInv /\ ServerTypes /\ Sweep \in Visits
      /\ loc \in [Visits -> [Dests -> Local]]
  BY DEF FillInv, DeliveryInv, Types, WorkerTypes, Visits
<1>2. UNCHANGED <<kind, complete, stirred, rows, pc, hurt>>
  BY DEF Expire, Index, vars, workerVars, flowVars
<1>3. ServersGrow /\ \A e \in Dests : indexed'[e] \subseteq complete
  <2>1. CASE UNCHANGED serverVars
    BY <1>1, <1>2, <2>1, ServersStill DEF FillInv, ListsComplete, serverVars
  <2>2. ASSUME NEW d \in Dests, NEW b \in Books, Index(d, b)
        PROVE  ServersGrow /\ \A e \in Dests : indexed'[e] \subseteq complete
    <3>1. boxes' = boxes /\ \A e \in Dests : tagged[e] \subseteq tagged'[e]
      BY <1>1, <2>2 DEF Index, ServerTypes
    <3>2. \A e \in Dests : Len(boxes[e]) <= Len(boxes'[e])
      BY <1>1, <3>1 DEF ServerTypes
    <3>3. ServersGrow
      BY <1>2, <3>1, <3>2 DEF ServersGrow, InGroup
    <3>4. \A e \in Dests : indexed'[e] \subseteq complete
      BY <1>1, <2>2 DEF Index, ServerTypes, FillInv, ListsComplete
    <3> QED BY <3>3, <3>4
  <2> QED BY <2>1, <2>2 DEF Expire, vars
<1>4. \A e \in Dests :
         LET me == loc[Sweep][e]  new == loc'[Sweep][e] IN
         /\ new.list = me.list /\ new.todo = me.todo /\ new.ids = me.ids
         /\ new.box = me.box /\ new.pairs = me.pairs
  <2>1. CASE UNCHANGED loc
    BY <2>1
  <2>2. ASSUME NEW v \in Visits, NEW d \in Dests, Expire(v, d)
        PROVE  \A e \in Dests :
                  LET me == loc[Sweep][e]  new == loc'[Sweep][e] IN
                  /\ new.list = me.list /\ new.todo = me.todo /\ new.ids = me.ids
                  /\ new.box = me.box /\ new.pairs = me.pairs
    <3>1. PICK m \in Local :
              /\ m = With(loc[v][d], [cut |-> TRUE]) /\ m.list = loc[v][d].list
              /\ m.todo = loc[v][d].todo /\ m.ids = loc[v][d].ids
              /\ m.box = loc[v][d].box /\ m.pairs = loc[v][d].pairs
      BY <1>1, LocalsCut
    <3>2. loc' = [loc EXCEPT ![v][d] = m]
      BY <2>2, <3>1 DEF Expire, Set
    <3> QED BY <1>1, <3>1, <3>2
  <2> QED BY <2>1, <2>2 DEF Index, vars, workerVars
<1>5. \A e \in Dests : FillAt(e)'
  BY <1>1, <1>2, <1>3, <1>4, UntouchedFills DEF FillInv, Fills
<1>6. \A e \in Dests : loc'[Sweep][e].list \subseteq complete
  BY <1>4 DEF FillInv, ListsComplete
<1> QED BY <1>2, <1>3, <1>5, <1>6 DEF Fills, ListsComplete

(* The invariant of a reconcile without failures.                          *)
THEOREM FillInvariant == Spec => []FillInv
<1>1. Init => FillInv
  <2> SUFFICES ASSUME Init
               PROVE  FillInv
    OBVIOUS
  <2>1. Sweep \in Visits
    BY DEF Visits
  <2>2. \A d \in Dests : pc[Sweep][d] = "idle" /\ loc[Sweep][d] = Fresh /\ indexed[d] = {}
    BY <2>1 DEF Init
  <2>3. ListsComplete
    BY <2>2 DEF ListsComplete, Fresh
  <2>4. Fills
    BY <2>2 DEF Fills, FillAt, Filled, Grouping
  <2> QED BY <2>3, <2>4, InitHolds DEF FillInv
<1>2. FillInv /\ [Next]_vars => FillInv'
  <2> SUFFICES ASSUME FillInv, [Next]_vars
               PROVE  ListsComplete' /\ Fills'
    BY NextKeeps DEF FillInv
  <2>1. CASE \E f \in Fans : \/ \E b \in Books : FanOut(f, b)
                             \/ Cancel(f)
                             \/ \E d \in Dests : FanStep(f, d)
    BY <2>1, FanFills
  <2>2. CASE StartSweep \/ StartReconcile \/ EndSweep \/ Crash
    BY <2>2, TurnFills
  <2>3. ASSUME NEW d \in Dests, SweepStep(d)
        PROVE  ListsComplete' /\ Fills'
    <3>1. CASE ReconcileCalls(d)
      BY <3>1, Reconciles, ReconcileFills DEF FillInv
    <3>2. CASE Acquire(Sweep, d) \/ Refresh(d) \/ Matched(d) \/ Reconciled(d)
      BY <3>2, PassFills
    <3>3. CASE MatchRead(d) \/ MatchWrite(d)
      BY <3>3, MatchFills
    <3> QED BY <2>3, <3>1, <3>2, <3>3 DEF SweepStep
  <2>4. CASE \/ \E v \in Visits, d \in Dests : Expire(v, d)
             \/ \E d \in Dests, b \in Books : Index(d, b)
             \/ UNCHANGED vars
    BY <2>4, OtherFills
  <2> QED BY <2>1, <2>2, <2>3, <2>4 DEF Next, Finished
<1> QED BY <1>1, <1>2, PTL DEF Spec

(* A worker that was adding books is done only when none is left.          *)
LEMMA DoneAdding ==
    ASSUME DeliveryInv, [Next]_vars, NEW d \in Dests,
           pc[Sweep][d] = "add", pc'[Sweep][d] = "done"
    PROVE  loc[Sweep][d].todo = {}
<1>1. /\ Sweep \in Visits /\ pc \in [Visits -> [Dests -> FanPCs \cup SweepPCs]]
      /\ \A f \in Fans : f # Sweep
      /\ phase = "reconcile"
  BY MediaServerAssumption
     DEF DeliveryInv, Types, WorkerTypes, Visits, SweepsHold, SweepHolds, Grouping
<1>2. ASSUME NEW f \in Fans, (\E b \in Books : FanOut(f, b)) \/ Cancel(f)
      PROVE  FALSE
  BY <1>1, <1>2 DEF FanOut, Cancel
<1>3. ASSUME NEW f \in Fans, NEW e \in Dests, FanStep(f, e)
      PROVE  FALSE
  BY <1>3, FanMoves
<1>4. ~StartSweep /\ ~StartReconcile
  BY <1>1 DEF StartSweep, StartReconcile
<1>5. ~EndSweep /\ ~Crash
  BY <1>1 DEF EndSweep, Crash
<1>6. ASSUME NEW e \in Dests, SweepStep(e)
      PROVE  loc[Sweep][d].todo = {}
  <2>1. CASE ReconcileCalls(e)
    <3>1. PICK l \in {"failed", "matching", "identity", "add"} \cup Grouping, m \in Local :
              SweptTo(e, l, m)
      BY <2>1, Reconciles, ReconcilesTo
    <3>2. FALSE
      BY <1>1, <3>1 DEF SweptTo, Goes, Grouping
    <3> QED BY <3>2
  <2>2. CASE Acquire(Sweep, e) \/ Refresh(e) \/ Matched(e) \/ Reconciled(e)
    <3>1. \E l : pc' = [pc EXCEPT ![Sweep][e] = l]
      BY <2>2 DEF Acquire, Refresh, Matched, Reconciled, Goto, Stop
    <3>2. e = d
      BY <1>1, <3>1
    <3> QED BY <2>2, <3>2 DEF Acquire, Refresh, Matched, Reconciled, Me
  <2>3. CASE MatchRead(e) \/ MatchWrite(e)
    <3>1. pc' = pc \/ \E l \in {"matched", "matching"} : pc' = [pc EXCEPT ![Sweep][e] = l]
      BY <2>3 DEF MatchRead, MatchWrite, Goto
    <3>2. FALSE
      BY <1>1, <3>1
    <3> QED BY <3>2
  <2> QED BY <1>6, <2>1, <2>2, <2>3 DEF SweepStep
<1>7. ASSUME \/ \E v \in Visits, e \in Dests : Expire(v, e)
             \/ \E e \in Dests, b \in Books : Index(e, b)
             \/ UNCHANGED vars
      PROVE  FALSE
  BY <1>7 DEF Expire, Index, vars, workerVars
<1> QED BY <1>2, <1>3, <1>4, <1>5, <1>6, <1>7 DEF Next, Finished

(* A Plex or Emby reconcile none of whose calls failed leaves, for every   *)
(* complete book of the series that it listed, an item of the book's title *)
(* in a collection, whatever fan-outs and restarts left, and however many  *)
(* books have the title (plex.go, emby.go: ReconcileLibrary).              *)
THEOREM Populates == Spec => ReconcilePopulates
<1>1. ASSUME FillInv, [Next]_vars, NEW d \in Dests,
             kind[d] \in {"plex", "emby"}, d \notin hurt,
             pc[Sweep][d] = "add", pc'[Sweep][d] = "done",
             NEW b \in (Me(Sweep, d).list \cap complete \cap InSeries) \ stirred
      PROVE  \E i \in Named(b) \cap Me(Sweep, d).list : InGroup(d, i)
  <2>1. Filled(d, "add", loc[Sweep][d])
    BY <1>1 DEF FillInv, Fills, FillAt
  <2>2. loc[Sweep][d].todo = {}
    BY <1>1, DoneAdding DEF FillInv
  <2> QED BY <2>1, <2>2 DEF Filled, Grouping, Me
<1>2. FillInv /\ [Next]_vars =>
         [\A d \in Dests :
             /\ kind[d] \in {"plex", "emby"} /\ d \notin hurt /\ ~Me(Sweep, d).cut
             /\ pc[Sweep][d] = "add" /\ pc'[Sweep][d] = "done"
             => \A b \in (Me(Sweep, d).list \cap complete \cap InSeries) \ stirred :
                   \E i \in Named(b) \cap Me(Sweep, d).list : InGroup(d, i)]_vars
  BY <1>1
<1> QED BY <1>2, FillInvariant, PTL DEF Spec, ReconcilePopulates
=============================================================================
