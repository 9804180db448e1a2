---------------------- MODULE TransactionBufferProofs ----------------------
(***************************************************************************)
(* What is loaded from the database after a commit is what the transaction *)
(* showed, for any number of calls and commits, if callers avoid the uses  *)
(* of the API that are known to lose something.                            *)
(***************************************************************************)
EXTENDS TransactionBuffer, FiniteSetTheorems, SequenceTheorems, TLAPS

-----------------------------------------------------------------------------
(* Numbers and sequences.                                                  *)

(* A set of natural numbers has a least element.                           *)
LEMMA Least ==
    ASSUME NEW T, T \subseteq Nat, T # {}
    PROVE  \E m \in T : \A n \in T : m <= n
<1> DEFINE R == OpToRel(<, Nat)
<1>1. IsWellFoundedOn(R, Nat)
  BY NatLessThanWellFounded
<1>2. \A a, b \in Nat : a < b => <<a, b>> \in R
  BY DEF OpToRel
<1>. HIDE DEF R
<1>3. PICK m \in T : \A n \in T : ~ (<<n, m>> \in R)
  BY <1>1, WFMin
<1>4. ASSUME NEW n \in T PROVE m <= n
  <2>1. m \in Nat /\ n \in Nat
    OBVIOUS
  <2>2. ~ (n < m)
    BY <1>2, <1>3, <2>1
  <2>. QED
    BY <2>1, <2>2
<1>. QED
  BY <1>4

IsLast(i, S) == i \in S /\ \A j \in S : j <= i

(* A set of natural numbers that is bounded has a last element.            *)
LEMMA LastExists ==
    ASSUME NEW S, NEW n \in Nat, S \subseteq 0 .. n, S # {}
    PROVE  \E i : IsLast(i, S)
<1> DEFINE T == {m \in Nat : \A j \in S : j <= m}
<1>1. n \in T
  OBVIOUS
<1>2. PICK m \in T : \A k \in T : m <= k
  BY <1>1, Least
<1>3. m \in S
  <2>1. SUFFICES ASSUME m \notin S PROVE FALSE
    OBVIOUS
  <2>2. \A j \in S : j \in Nat /\ j <= m /\ j # m
    BY <2>1
  <2>3. m - 1 \in Nat /\ \A j \in S : j <= m - 1
    <3>1. PICK j \in S : TRUE
      OBVIOUS
    <3>. QED
      BY <2>2, <3>1
  <2>4. m - 1 \in T
    BY <2>3
  <2>. QED
    BY <1>2, <2>4
<1>. QED
  BY <1>2, <1>3 DEF IsLast

IsSeq(cs) == \E S : cs \in Seq(S)

(* What a list looks like after some more changes have been staged.        *)
LEMMA Extended ==
    ASSUME NEW cs, NEW ds, IsSeq(cs), IsSeq(ds)
    PROVE  /\ IsSeq(cs \o ds) /\ Len(cs) \in Nat /\ Len(ds) \in Nat
           /\ DOMAIN cs = 1 .. Len(cs) /\ DOMAIN ds = 1 .. Len(ds)
           /\ Len(cs \o ds) = Len(cs) + Len(ds) /\ DOMAIN (cs \o ds) = 1 .. Len(cs) + Len(ds)
           /\ \A i \in DOMAIN cs : (cs \o ds)[i] = cs[i]
           /\ \A i \in DOMAIN ds : (cs \o ds)[Len(cs) + i] = ds[i]
<1>1. PICK S : cs \in Seq(S)
  BY DEF IsSeq
<1>2. PICK T : ds \in Seq(T)
  BY DEF IsSeq
<1>3. cs \in Seq(S \union T) /\ ds \in Seq(S \union T)
  BY <1>1, <1>2, SeqMonotonic
<1>4. /\ Len(cs) \in Nat /\ Len(ds) \in Nat
      /\ DOMAIN cs = 1 .. Len(cs) /\ DOMAIN ds = 1 .. Len(ds)
  BY <1>3, LenProperties
<1>5. /\ cs \o ds \in Seq(S \union T) /\ Len(cs \o ds) = Len(cs) + Len(ds)
      /\ \A i \in 1 .. Len(cs) + Len(ds) :
            (cs \o ds)[i] = IF i <= Len(cs) THEN cs[i] ELSE ds[i - Len(cs)]
  BY <1>3, ConcatProperties
<1>6. DOMAIN (cs \o ds) = 1 .. Len(cs) + Len(ds)
  BY <1>5, LenProperties
<1>7. IsSeq(cs \o ds)
  BY <1>5 DEF IsSeq
<1>8. ASSUME NEW i \in DOMAIN cs PROVE (cs \o ds)[i] = cs[i]
  <2>1. i \in 1 .. Len(cs) + Len(ds) /\ i <= Len(cs)
    BY <1>4
  <2>. QED
    BY <1>5, <2>1
<1>9. ASSUME NEW i \in DOMAIN ds PROVE (cs \o ds)[Len(cs) + i] = ds[i]
  <2>1. Len(cs) + i \in 1 .. Len(cs) + Len(ds) /\ ~ (Len(cs) + i <= Len(cs)) /\ (Len(cs) + i) - Len(cs) = i
    BY <1>4
  <2>. QED
    BY <1>5, <2>1
<1>. QED
  BY <1>4, <1>5, <1>6, <1>7, <1>8, <1>9

(* The same for one change.                                                *)
LEMMA ExtendedByOne ==
    ASSUME NEW cs, NEW c, IsSeq(cs), NEW new, new = cs \o <<c>>
    PROVE  /\ IsSeq(new) /\ Len(cs) \in Nat /\ Len(new) = Len(cs) + 1
           /\ DOMAIN cs = 1 .. Len(cs) /\ DOMAIN new = 1 .. Len(cs) + 1
           /\ DOMAIN new = DOMAIN cs \union {Len(cs) + 1}
           /\ \A i \in DOMAIN cs : new[i] = cs[i] /\ i < Len(cs) + 1
           /\ new[Len(cs) + 1] = c
<1>1. <<c>> \in Seq({c}) /\ Len(<<c>>) = 1 /\ DOMAIN <<c>> = {1} /\ <<c>>[1] = c
  OBVIOUS
<1>2. IsSeq(<<c>>)
  BY <1>1 DEF IsSeq
<1>3. /\ IsSeq(new) /\ Len(cs) \in Nat /\ DOMAIN cs = 1 .. Len(cs)
      /\ Len(new) = Len(cs) + 1 /\ DOMAIN new = 1 .. Len(cs) + 1
      /\ \A i \in DOMAIN cs : new[i] = cs[i]
      /\ \A i \in DOMAIN <<c>> : new[Len(cs) + i] = <<c>>[i]
  BY <1>1, <1>2, Extended
<1>. QED
  BY <1>1, <1>3

-----------------------------------------------------------------------------
(* Recursion: the buffer is filled change by change, and so are the tags.  *)

\* b[0], b[1], ...: the buffer after the changes up to each position.
Fills(b, cs, s, n) ==
    /\ DOMAIN b = 0 .. n /\ b[0] = NoBuffer(tx.cat)
    /\ \A i \in 1 .. n : b[i] = apply_next(b[i - 1], cs, s, i)

(* Up to each position there are such buffers.                             *)
LEMMA FillsExist ==
    ASSUME NEW cs, NEW s, NEW n \in Nat
    PROVE  \E b : Fills(b, cs, s, n)
<1> DEFINE T == {m \in Nat : \A b : ~ Fills(b, cs, s, m)}
<1>1. SUFFICES ASSUME T # {} PROVE FALSE
  OBVIOUS
<1>2. PICK m \in T : \A k \in T : m <= k
  BY <1>1, Least
<1>3. m \in Nat /\ \A b : ~ Fills(b, cs, s, m)
  OBVIOUS
<1>4. CASE m = 0
  <2> DEFINE b == [i \in 0 .. 0 |-> NoBuffer(tx.cat)]
  <2>1. Fills(b, cs, s, 0)
    BY DEF Fills
  <2>. QED
    BY <1>3, <1>4, <2>1
<1>5. CASE m # 0
  <2>1. m - 1 \in Nat /\ m - 1 \notin T
    BY <1>2, <1>3, <1>5
  <2>2. PICK a : Fills(a, cs, s, m - 1)
    BY <2>1
  <2> DEFINE b == [i \in 0 .. m |-> IF i = m THEN apply_next(a[m - 1], cs, s, m) ELSE a[i]]
  <2>3. DOMAIN b = 0 .. m /\ b[m] = apply_next(a[m - 1], cs, s, m) /\ b[m - 1] = a[m - 1]
    BY <1>3, <2>1
  <2>4. \A i \in 0 .. m - 1 : b[i] = a[i]
    BY <1>3, <2>1
  <2>5. b[0] = NoBuffer(tx.cat)
    BY <1>3, <1>5, <2>2, <2>4 DEF Fills
  <2>6. ASSUME NEW i \in 1 .. m PROVE b[i] = apply_next(b[i - 1], cs, s, i)
    <3>1. CASE i = m
      BY <2>3, <3>1
    <3>2. CASE i # m
      <4>1. i \in 1 .. m - 1 /\ i \in 0 .. m - 1 /\ i - 1 \in 0 .. m - 1
        BY <1>3, <3>2
      <4>2. a[i] = apply_next(a[i - 1], cs, s, i)
        BY <2>2, <4>1 DEF Fills
      <4>. QED
        BY <2>4, <4>1, <4>2
    <3>. QED
      BY <3>1, <3>2
  <2>. HIDE DEF b
  <2>7. Fills(b, cs, s, m)
    BY <2>3, <2>5, <2>6 DEF Fills
  <2>. QED
    BY <1>3, <2>7
<1>. QED
  BY <1>4, <1>5

(* The buffer of a commit is the last of them.                             *)
LEMMA BufferFilled ==
    ASSUME NEW cs, NEW s, Len(cs) \in Nat
    PROVE  \E b : Fills(b, cs, s, Len(cs)) /\ Buffer(cs, s) = b[Len(cs)]
<1> DEFINE n == Len(cs)
           Body(f) == [i \in 0 .. n |-> IF i = 0 THEN NoBuffer(tx.cat) ELSE apply_next(f[i - 1], cs, s, i)]
           g == CHOOSE f : f = Body(f)
<1>1. Buffer(cs, s) = g[n]
  BY DEF Buffer
<1>2. PICK a : Fills(a, cs, s, n)
  BY FillsExist
<1>3. a = Body(a)
  <2>1. a = [i \in 0 .. n |-> a[i]]
    BY <1>2 DEF Fills
  <2>2. \A i \in 0 .. n : a[i] = IF i = 0 THEN NoBuffer(tx.cat) ELSE apply_next(a[i - 1], cs, s, i)
    BY <1>2 DEF Fills
  <2>. QED
    BY <2>1, <2>2
<1>4. g = Body(g)
  BY <1>3
<1>. HIDE DEF g
<1>5. Fills(g, cs, s, n)
  <2>1. DOMAIN g = 0 .. n /\ \A i \in 0 .. n :
           g[i] = IF i = 0 THEN NoBuffer(tx.cat) ELSE apply_next(g[i - 1], cs, s, i)
    BY <1>4
  <2>. QED
    BY <2>1 DEF Fills
<1>. QED
  BY <1>1, <1>5

\* The same for the tags.
Edits(left, rows, s, cs, n) ==
    /\ DOMAIN left = 0 .. n /\ left[0] = rows
    /\ \A i \in 1 .. n : left[i] = persist_tag(left[i - 1], s, cs[i])

(* Up to each position there are such rows.                                *)
LEMMA EditsExist ==
    ASSUME NEW rows, NEW s, NEW cs, NEW n \in Nat
    PROVE  \E b : Edits(b, rows, s, cs, n)
<1> DEFINE T == {m \in Nat : \A b : ~ Edits(b, rows, s, cs, m)}
<1>1. SUFFICES ASSUME T # {} PROVE FALSE
  OBVIOUS
<1>2. PICK m \in T : \A k \in T : m <= k
  BY <1>1, Least
<1>3. m \in Nat /\ \A b : ~ Edits(b, rows, s, cs, m)
  OBVIOUS
<1>4. CASE m = 0
  <2> DEFINE b == [i \in 0 .. 0 |-> rows]
  <2>1. Edits(b, rows, s, cs, 0)
    BY DEF Edits
  <2>. QED
    BY <1>3, <1>4, <2>1
<1>5. CASE m # 0
  <2>1. m - 1 \in Nat /\ m - 1 \notin T
    BY <1>2, <1>3, <1>5
  <2>2. PICK a : Edits(a, rows, s, cs, m - 1)
    BY <2>1
  <2> DEFINE b == [i \in 0 .. m |-> IF i = m THEN persist_tag(a[m - 1], s, cs[m]) ELSE a[i]]
  <2>3. DOMAIN b = 0 .. m /\ b[m] = persist_tag(a[m - 1], s, cs[m]) /\ b[m - 1] = a[m - 1]
    BY <1>3, <2>1
  <2>4. \A i \in 0 .. m - 1 : b[i] = a[i]
    BY <1>3, <2>1
  <2>5. b[0] = rows
    BY <1>3, <1>5, <2>2, <2>4 DEF Edits
  <2>6. ASSUME NEW i \in 1 .. m PROVE b[i] = persist_tag(b[i - 1], s, cs[i])
    <3>1. CASE i = m
      BY <2>3, <3>1
    <3>2. CASE i # m
      <4>1. i \in 1 .. m - 1 /\ i \in 0 .. m - 1 /\ i - 1 \in 0 .. m - 1
        BY <1>3, <3>2
      <4>2. a[i] = persist_tag(a[i - 1], s, cs[i])
        BY <2>2, <4>1 DEF Edits
      <4>. QED
        BY <2>4, <4>1, <4>2
    <3>. QED
      BY <3>1, <3>2
  <2>. HIDE DEF b
  <2>7. Edits(b, rows, s, cs, m)
    BY <2>3, <2>5, <2>6 DEF Edits
  <2>. QED
    BY <1>3, <2>7
<1>. QED
  BY <1>4, <1>5

(* The tags of a commit are the last of them.                              *)
LEMMA TagsEdited ==
    ASSUME NEW rows, NEW s, NEW cs, Len(cs) \in Nat
    PROVE  \E b : Edits(b, rows, s, cs, Len(cs)) /\ persist_tags(rows, s, cs) = b[Len(cs)]
<1> DEFINE n == Len(cs)
           Body(f) == [i \in 0 .. n |-> IF i = 0 THEN rows ELSE persist_tag(f[i - 1], s, cs[i])]
           g == CHOOSE f : f = Body(f)
<1>1. persist_tags(rows, s, cs) = g[n]
  BY DEF persist_tags
<1>2. PICK a : Edits(a, rows, s, cs, n)
  BY EditsExist
<1>3. a = Body(a)
  <2>1. a = [i \in 0 .. n |-> a[i]]
    BY <1>2 DEF Edits
  <2>2. \A i \in 0 .. n : a[i] = IF i = 0 THEN rows ELSE persist_tag(a[i - 1], s, cs[i])
    BY <1>2 DEF Edits
  <2>. QED
    BY <2>1, <2>2
<1>4. g = Body(g)
  BY <1>3
<1>. HIDE DEF g
<1>5. Edits(g, rows, s, cs, n)
  <2>1. DOMAIN g = 0 .. n /\ \A i \in 0 .. n :
           g[i] = IF i = 0 THEN rows ELSE persist_tag(g[i - 1], s, cs[i])
    BY <1>4
  <2>. QED
    BY <2>1 DEF Edits
<1>. QED
  BY <1>1, <1>5

-----------------------------------------------------------------------------
(* The list of changes and the private catalog belong together.            *)

Careful == Avoid = Uses

\* The positions of the changes of one kind, and of those that add column x.
At(cs, op, key) == {i \in DOMAIN cs : cs[i].op = op /\ cs[i].key = key}
NewDefs(c) == IF c.op = "add" THEN c.val ELSE IF c.op = "create" THEN c.val.cols ELSE Empty
AddsAt(cs, x) == {i \in DOMAIN cs : x \in DOMAIN NewDefs(cs[i])}

ChangeOps == {"create", "add", "update", "remove", "partition", "sort", "tag", "untag", "files", "inline"}

\* A table is created by the first change, if at all.
ListOk(cs, created) ==
    /\ IsSeq(cs)
    /\ \A i \in DOMAIN cs :
          /\ cs[i].op \in ChangeOps
          /\ cs[i].op = "create" => created /\ i = 1
          /\ cs[i].op = "add" => cs[i].key = DOMAIN cs[i].val /\ cs[i].key # {}
          /\ cs[i].op \in {"create", "partition", "sort", "inline"} => cs[i].key = 0
    /\ created => 1 \in DOMAIN cs /\ cs[1].op = "create" /\ DOMAIN cs[1].val.cols # {}

\* Columns are roots or fields of a root; names at one place differ, also from
\* those of removed columns; keys are roots that are not removed.
DefOk(def) ==
    /\ def = Column(def.parent, def.name, def.type, def.nullable)
    /\ def.parent = 0 => def.name # Unsorted
    /\ def.type = "struct" => def.parent = 0

CatFields == {"cols", "gone", "part", "sort", "tags", "next"}
IsRoot(cat, x) == x \in Present(cat) /\ cat.cols[x].parent = 0

ColsOk(cat) ==
    /\ \A x \in DOMAIN cat.cols :
          /\ x \in Nat /\ x # 0 /\ DefOk(cat.cols[x])
          /\ cat.cols[x].parent # 0 =>
                cat.cols[x].parent \in DOMAIN cat.cols /\ cat.cols[cat.cols[x].parent].parent = 0
          /\ cat.cols[x].parent \in cat.gone => x \in cat.gone
          /\ \A y \in DOMAIN cat.cols :
                cat.cols[x].parent = cat.cols[y].parent /\ cat.cols[x].name = cat.cols[y].name => x = y
    /\ cat.gone \subseteq DOMAIN cat.cols

KeysOk(cat) ==
    /\ DOMAIN cat.part = {"id", "cols"} /\ cat.part.id \in Nat
    /\ \A x \in cat.part.cols : IsRoot(cat, x)
    /\ cat.sort # 0 => IsRoot(cat, cat.sort)

CatOk(cat) == DOMAIN cat = CatFields /\ ColsOk(cat) /\ KeysOk(cat)

\* New column IDs are above all that are or were in use.
IdsOk(cat) ==
    /\ NextColumnId(cat) \in Nat /\ NextColumnId(cat) # 0
    /\ \A x \in DOMAIN cat.cols \union Ids(table.columns) : x \in Nat /\ 0 < x /\ x < NextColumnId(cat)

\* What the list says of column x: it is loaded or added once, then updated,
\* then removed; the last update has its definition.  L is the loaded catalog.
ColumnOk(cs, cat, L, x) ==
    /\ AddsAt(cs, x) # {} => x \in DOMAIN cat.cols /\ x \notin Ids(table.columns)
    /\ x \in DOMAIN cat.cols => x \in DOMAIN L.cols \/ AddsAt(cs, x) # {}
    /\ x \in DOMAIN L.cols => x \in DOMAIN cat.cols
    /\ \A i, j \in AddsAt(cs, x) : i = j
    /\ \A a \in AddsAt(cs, x) : \A i \in At(cs, "update", x) \union At(cs, "remove", x) : a < i
    /\ \A i \in At(cs, "update", x) :
          /\ x \in DOMAIN cat.cols
          /\ \A j \in At(cs, "remove", x) : i < j
          /\ IsLast(i, At(cs, "update", x)) => cs[i].val = cat.cols[x]
    /\ x \in cat.gone <=> At(cs, "remove", x) # {}
    /\ At(cs, "update", x) = {} =>
          /\ x \in DOMAIN L.cols => cat.cols[x] = L.cols[x]
          /\ \A a \in AddsAt(cs, x) : cat.cols[x] = NewDefs(cs[a])[x]

ColumnsOk(cs, cat, L) == \A x : ColumnOk(cs, cat, L, x)

\* The partitioning, the sort order and the tags the calls started from.
FirstPart(cs, L, created) == IF created THEN [id |-> 0, cols |-> cs[1].val.part] ELSE L.part
FirstSort(cs, L, created) == IF created THEN cs[1].val.sort ELSE SortName(L)
FirstTags(cs, L, created) == IF created THEN cs[1].val.tags ELSE L.tags

\* What the last change of each kind says.
PartOk(cs, cat, L, created) ==
    /\ At(cs, "partition", 0) = {} => cat.part = FirstPart(cs, L, created)
    /\ At(cs, "partition", 0) # {} => cat.part.id = 0 /\ (created => cs[1].val.part = {})
    /\ \A i \in At(cs, "partition", 0) :
          IsLast(i, At(cs, "partition", 0)) => cs[i].val = cat.part.cols
    /\ \A i \in DOMAIN cs : cs[i].op = "files" /\ cs[i].val.part # {} => cs[i].val.part = cat.part.cols

SortOk(cs, cat, L, created) ==
    /\ At(cs, "sort", 0) = {} => SortName(cat) = FirstSort(cs, L, created)
    /\ \A i \in At(cs, "sort", 0) : IsLast(i, At(cs, "sort", 0)) => cs[i].val = SortName(cat)

EditsOf(cs, o) == At(cs, "tag", o) \union At(cs, "untag", o)
SameAt(f, g, o) == (o \in DOMAIN f <=> o \in DOMAIN g) /\ (o \in DOMAIN f => f[o] = g[o])

TagOk(cs, cat, L, created, o) ==
    /\ EditsOf(cs, o) = {} => SameAt(cat.tags, FirstTags(cs, L, created), o)
    /\ \A i \in EditsOf(cs, o) : IsLast(i, EditsOf(cs, o)) =>
          /\ o \in DOMAIN cat.tags <=> cs[i].op = "tag"
          /\ cs[i].op = "tag" => cat.tags[o] = cs[i].val

TagsOk(cs, cat, L, created) == \A o : TagOk(cs, cat, L, created, o)

\* Every write of files has a key of its own; there is one inline write.
WriteKinds == {"files", "inline"}
WritesOk(cs, n) ==
    /\ \A i \in DOMAIN cs : cs[i].op = "files" => cs[i].key \in Nat /\ cs[i].key <= n
    /\ \A i, j \in DOMAIN cs :
          cs[i].op = cs[j].op /\ cs[i].op \in WriteKinds /\ cs[i].key = cs[j].key => i = j

\* No NULL is written to, or is in, a column that allows none.
NullsOk(cs, cat) ==
    \A i \in DOMAIN cs : cs[i].op \in WriteKinds => cs[i].val.nulls \subseteq DOMAIN cat.cols
NoNulls(cs, x) ==
    /\ ~ HoldsNull(x)
    /\ \A i \in DOMAIN cs : cs[i].op \in WriteKinds => x \notin cs[i].val.nulls /\ x \in cs[i].val.cols
NotNullOk(cs, cat) ==
    /\ NullsOk(cs, cat)
    /\ \A x \in DOMAIN cat.cols : ~ cat.cols[x].nullable => NoNulls(cs, x)

-----------------------------------------------------------------------------
(* The rows in the database.                                               *)

Timed(rows, h) ==
    \A r \in rows : /\ {"id", "begin", "end"} \subseteq DOMAIN r
                    /\ r.begin \in 0 .. h /\ r.end \in {NULL} \union 0 .. h

OneEach(rows) == \A r, q \in rows : r.id = q.id => r = q
AtMostOne(rows) == \A r, q \in rows : r = q

ColumnFields == {"id", "parent", "name", "type", "nullable", "begin", "end"}
TagFields == {"id", "value", "begin", "end"}

\* The rows of table t, with head h and next ID k.
RowsOk(t, h, k) ==
    /\ h \in Nat /\ k \in Nat /\ k # 0
    /\ Timed(t.columns, h) /\ Timed(t.parts, h) /\ Timed(t.sorts, h) /\ Timed(t.tags, h)
    /\ \A r \in t.columns : DOMAIN r = ColumnFields /\ r.id \in Nat /\ r.id # 0
    /\ \E n \in Nat : \A x \in Ids(t.columns) : x <= n
    /\ \A r \in t.parts \union t.part_cols : r.id \in Nat /\ r.id # 0 /\ r.id < k
    /\ \A r \in t.sorts : "name" \in DOMAIN r
    /\ \A r \in t.tags : DOMAIN r = TagFields
    /\ \A w \in t.data : w.nulls \subseteq Ids(t.columns) /\ w.part \in Nat /\ w.part < k
    /\ t.columns = {} =>
          t.parts = {} /\ t.part_cols = {} /\ t.sorts = {} /\ t.tags = {} /\ t.data = {}

\* Snapshot q of table t can be loaded.
SnapOk(t, q) ==
    /\ OneEach(Visible(t.columns, q)) /\ OneEach(Visible(t.tags, q))
    /\ AtMostOne(Visible(t.parts, q)) /\ AtMostOne(Visible(t.sorts, q))
    /\ CatOk(Load(t, q))
    /\ Visible(t.parts, q) # {} => LoadedPart(t, q).cols # {}
    /\ \A i \in Visible(t.sorts, q) : i.name = SortName(Load(t, q)) /\ i.name # Unsorted

DbOk ==
    /\ RowsOk(table, head, next_id)
    /\ \A q \in 0 .. head : SnapOk(table, q)
    /\ used \subseteq Ids(table.columns)
    /\ CommittedIsStaged /\ WritesArePersisted /\ NotNullHolds /\ FilesMatchPartitioning

-----------------------------------------------------------------------------
(* Staging a change leaves alone what it is not about.                     *)

NoOps(ds, ops) == \A i \in DOMAIN ds : ds[i].op \notin ops

\* What is said of the list cs extended by ds.
Kept(new, cs, ds) ==
    /\ IsSeq(new) /\ Len(cs) \in Nat /\ Len(ds) \in Nat
    /\ DOMAIN cs = 1 .. Len(cs) /\ DOMAIN ds = 1 .. Len(ds) /\ DOMAIN new = 1 .. Len(cs) + Len(ds)
    /\ DOMAIN cs \subseteq DOMAIN new /\ \A i \in DOMAIN cs : new[i] = cs[i]
    /\ \A i \in DOMAIN new : i \in DOMAIN cs \/ \E k \in DOMAIN ds : i = Len(cs) + k /\ new[i] = ds[k]
    /\ \A k \in DOMAIN ds : Len(cs) + k \in DOMAIN new /\ new[Len(cs) + k] = ds[k]

(* Appending changes gives such a list.                                    *)
LEMMA Appended ==
    ASSUME NEW cs, NEW ds, IsSeq(cs), IsSeq(ds), NEW new, new = cs \o ds
    PROVE  Kept(new, cs, ds)
<1>1. /\ IsSeq(new) /\ Len(cs) \in Nat /\ Len(ds) \in Nat
      /\ DOMAIN cs = 1 .. Len(cs) /\ DOMAIN ds = 1 .. Len(ds)
      /\ DOMAIN new = 1 .. Len(cs) + Len(ds)
      /\ \A i \in DOMAIN cs : new[i] = cs[i]
      /\ \A i \in DOMAIN ds : new[Len(cs) + i] = ds[i]
  BY Extended
<1>2. DOMAIN cs \subseteq DOMAIN new
  BY <1>1
<1>3. ASSUME NEW i \in DOMAIN new
      PROVE  i \in DOMAIN cs \/ \E k \in DOMAIN ds : i = Len(cs) + k /\ new[i] = ds[k]
  <2>1. CASE i <= Len(cs)
    BY <1>1, <2>1
  <2>2. CASE ~ (i <= Len(cs))
    <3>1. i - Len(cs) \in DOMAIN ds /\ i = Len(cs) + (i - Len(cs))
      BY <1>1, <2>2
    <3>. QED
      BY <1>1, <3>1
  <2>. QED
    BY <2>1, <2>2
<1>4. \A k \in DOMAIN ds : Len(cs) + k \in DOMAIN new
  BY <1>1
<1>. QED
  BY <1>1, <1>2, <1>3, <1>4 DEF Kept

(* Positions of changes of another kind stay the same.                     *)
LEMMA AtKept ==
    ASSUME NEW cs, NEW ds, NEW new, Kept(new, cs, ds), NEW op, NEW key,
           \A i \in DOMAIN ds : ds[i].op # op \/ ds[i].key # key
    PROVE  At(new, op, key) = At(cs, op, key)
BY DEF Kept, At

(* The same for the changes that add a column.                             *)
LEMMA AddsKept ==
    ASSUME NEW cs, NEW ds, NEW new, Kept(new, cs, ds), NEW x,
           \A i \in DOMAIN ds : x \notin DOMAIN NewDefs(ds[i])
    PROVE  AddsAt(new, x) = AddsAt(cs, x)
BY DEF Kept, AddsAt

(* Changes that add no column have no new definitions.                     *)
LEMMA NoNewDefs ==
    ASSUME NEW c, c.op \notin {"create", "add"}
    PROVE  \A x : x \notin DOMAIN NewDefs(c)
BY DEF NewDefs, Empty

(* A column no change is about.                                            *)
LEMMA KeepColumn ==
    ASSUME NEW cs, NEW ds, NEW new, Kept(new, cs, ds), NEW cat, NEW cat2, NEW L, NEW x,
           \A i \in DOMAIN ds : x \notin DOMAIN NewDefs(ds[i]),
           \A i \in DOMAIN ds : ds[i].op \in {"update", "remove"} => ds[i].key # x,
           SameAt(cat2.cols, cat.cols, x), x \in cat2.gone <=> x \in cat.gone, ColumnOk(cs, cat, L, x)
    PROVE  ColumnOk(new, cat2, L, x)
<1>1. At(new, "update", x) = At(cs, "update", x)
  BY AtKept
<1>2. At(new, "remove", x) = At(cs, "remove", x)
  BY AtKept
<1>3. AddsAt(new, x) = AddsAt(cs, x)
  BY AddsKept
<1>4. /\ \A i \in AddsAt(cs, x) : new[i] = cs[i]
      /\ \A i \in At(cs, "update", x) : new[i] = cs[i]
  BY DEF AddsAt, At, Kept
<1>. QED
  BY <1>1, <1>2, <1>3, <1>4 DEF ColumnOk, SameAt

(* All columns.                                                            *)
LEMMA KeepColumns ==
    ASSUME NEW cs, NEW ds, NEW new, Kept(new, cs, ds), NEW cat, NEW cat2, NEW L,
           NoOps(ds, {"create", "add", "update", "remove"}),
           cat2.cols = cat.cols, cat2.gone = cat.gone, ColumnsOk(cs, cat, L)
    PROVE  ColumnsOk(new, cat2, L)
<1> SUFFICES ASSUME NEW x PROVE ColumnOk(new, cat2, L, x)
  BY DEF ColumnsOk
<1>1. \A i \in DOMAIN ds : x \notin DOMAIN NewDefs(ds[i])
  BY NoNewDefs DEF NoOps
<1>2. \A i \in DOMAIN ds : ds[i].op \in {"update", "remove"} => ds[i].key # x
  BY DEF NoOps
<1>3. SameAt(cat2.cols, cat.cols, x) /\ ColumnOk(cs, cat, L, x)
  BY DEF ColumnsOk, SameAt
<1>. QED
  BY <1>1, <1>2, <1>3, KeepColumn

\* The first change stays the first.
SameFirst(new, cs, created) == created => new[1] = cs[1]

(* The first change stays the first.                                       *)
LEMMA KeepFirst ==
    ASSUME NEW cs, NEW ds, NEW new, Kept(new, cs, ds), NEW created, ListOk(cs, created)
    PROVE  SameFirst(new, cs, created)
BY DEF Kept, ListOk, SameFirst

(* The partitioning.                                                       *)
LEMMA KeepPart ==
    ASSUME NEW cs, NEW ds, NEW new, Kept(new, cs, ds), NEW cat, NEW cat2, NEW L,
           NEW created, SameFirst(new, cs, created), NoOps(ds, {"partition", "files"}),
           cat2.part = cat.part, PartOk(cs, cat, L, created)
    PROVE  PartOk(new, cat2, L, created)
<1>1. /\ At(new, "partition", 0) = At(cs, "partition", 0) /\ \A i \in DOMAIN cs : new[i] = cs[i]
      /\ \A i \in DOMAIN new : i \in DOMAIN cs \/ \E k \in DOMAIN ds : new[i] = ds[k]
  <2>1. At(new, "partition", 0) = At(cs, "partition", 0)
    BY AtKept DEF NoOps
  <2>. QED
    BY <2>1 DEF Kept
<1>2. \A i \in At(cs, "partition", 0) : new[i] = cs[i]
  BY <1>1 DEF At
<1>3. \A i \in DOMAIN new : new[i].op = "files" => i \in DOMAIN cs
  BY <1>1 DEF NoOps
<1>4. FirstPart(new, L, created) = FirstPart(cs, L, created)
  BY DEF FirstPart, SameFirst
<1>5. created => new[1].val.part = cs[1].val.part
  BY DEF SameFirst
<1>. QED
  BY <1>1, <1>2, <1>3, <1>4, <1>5 DEF PartOk

(* The sort order.                                                         *)
LEMMA KeepSort ==
    ASSUME NEW cs, NEW ds, NEW new, Kept(new, cs, ds), NEW cat, NEW cat2, NEW L,
           NEW created, SameFirst(new, cs, created), NoOps(ds, {"sort"}),
           SortName(cat2) = SortName(cat), SortOk(cs, cat, L, created)
    PROVE  SortOk(new, cat2, L, created)
<1>1. At(new, "sort", 0) = At(cs, "sort", 0) /\ \A i \in DOMAIN cs : new[i] = cs[i]
  <2>1. At(new, "sort", 0) = At(cs, "sort", 0)
    BY AtKept DEF NoOps
  <2>. QED
    BY <2>1 DEF Kept
<1>2. \A i \in At(cs, "sort", 0) : new[i] = cs[i]
  BY <1>1 DEF At
<1>3. FirstSort(new, L, created) = FirstSort(cs, L, created)
  BY DEF FirstSort, SameFirst
<1>. QED
  BY <1>1, <1>2, <1>3 DEF SortOk

(* The tags.                                                               *)
LEMMA KeepTags ==
    ASSUME NEW cs, NEW ds, NEW new, Kept(new, cs, ds), NEW cat, NEW cat2, NEW L,
           NEW created, SameFirst(new, cs, created), NEW o,
           \A i \in DOMAIN ds : ds[i].op \in {"tag", "untag"} => ds[i].key # o,
           SameAt(cat2.tags, cat.tags, o), TagOk(cs, cat, L, created, o)
    PROVE  TagOk(new, cat2, L, created, o)
<1>1. /\ At(new, "tag", o) = At(cs, "tag", o) /\ At(new, "untag", o) = At(cs, "untag", o)
      /\ \A i \in DOMAIN cs : new[i] = cs[i]
  <2>1. At(new, "tag", o) = At(cs, "tag", o)
    BY AtKept
  <2>2. At(new, "untag", o) = At(cs, "untag", o)
    BY AtKept
  <2>. QED
    BY <2>1, <2>2 DEF Kept
<1>2. EditsOf(new, o) = EditsOf(cs, o)
  BY <1>1 DEF EditsOf
<1>3. \A i \in EditsOf(cs, o) : new[i] = cs[i]
  BY <1>1 DEF EditsOf, At
<1>4. FirstTags(new, L, created) = FirstTags(cs, L, created)
  BY DEF FirstTags, SameFirst
<1>. QED
  BY <1>2, <1>3, <1>4 DEF TagOk, SameAt

(* The writes.                                                             *)
LEMMA KeepWrites ==
    ASSUME NEW cs, NEW ds, NEW new, Kept(new, cs, ds), NEW n,
           NoOps(ds, WriteKinds), WritesOk(cs, n)
    PROVE  WritesOk(new, n)
<1>1. /\ \A i \in DOMAIN cs : new[i] = cs[i]
      /\ \A i \in DOMAIN new : i \in DOMAIN cs \/ \E k \in DOMAIN ds : new[i] = ds[k]
  BY DEF Kept
<1>2. \A i \in DOMAIN new : new[i].op \in WriteKinds => i \in DOMAIN cs
  BY <1>1 DEF NoOps
<1>. QED
  BY <1>1, <1>2 DEF WritesOk, WriteKinds

(* The NULLs that are written.                                             *)
LEMMA KeepNulls ==
    ASSUME NEW cs, NEW ds, NEW new, Kept(new, cs, ds), NEW cat, NEW cat2,
           NoOps(ds, WriteKinds), NotNullOk(cs, cat), DOMAIN cat.cols \subseteq DOMAIN cat2.cols,
           \A x \in DOMAIN cat2.cols : ~ cat2.cols[x].nullable =>
               \/ x \in DOMAIN cat.cols /\ ~ cat.cols[x].nullable
               \/ NoNulls(cs, x)
    PROVE  NotNullOk(new, cat2)
<1>1. /\ \A i \in DOMAIN cs : new[i] = cs[i]
      /\ \A i \in DOMAIN new : i \in DOMAIN cs \/ \E k \in DOMAIN ds : new[i] = ds[k]
  BY DEF Kept
<1>2. \A i \in DOMAIN new : new[i].op \in WriteKinds => i \in DOMAIN cs /\ cs[i].op \in WriteKinds /\ new[i] = cs[i]
  BY <1>1 DEF NoOps
<1>3. NullsOk(new, cat2)
  BY <1>2 DEF NotNullOk, NullsOk
<1>4. \A x : NoNulls(cs, x) => NoNulls(new, x)
  BY <1>2 DEF NoNulls
<1>5. \A x \in DOMAIN cat.cols : ~ cat.cols[x].nullable => NoNulls(cs, x)
  BY DEF NotNullOk
<1>. QED
  BY <1>3, <1>4, <1>5 DEF NotNullOk

(* The shape of the list.                                                  *)
ShapeOk(c) ==
    /\ c.op \in ChangeOps \ {"create"}
    /\ c.op = "add" => c.key = DOMAIN c.val /\ c.key # {}
    /\ c.op \in {"partition", "sort", "inline"} => c.key = 0

(* Changes of the expected shape can be appended.                          *)
LEMMA KeepList ==
    ASSUME NEW cs, NEW ds, NEW new, Kept(new, cs, ds), NEW created,
           \A i \in DOMAIN ds : ShapeOk(ds[i]), ListOk(cs, created)
    PROVE  ListOk(new, created)
<1>1. ASSUME NEW i \in DOMAIN new
      PROVE  /\ new[i].op \in ChangeOps
             /\ new[i].op = "create" => created /\ i = 1
             /\ new[i].op = "add" => new[i].key = DOMAIN new[i].val /\ new[i].key # {}
             /\ new[i].op \in {"create", "partition", "sort", "inline"} => new[i].key = 0
  <2>1. CASE i \in DOMAIN cs
    BY <2>1 DEF Kept, ListOk
  <2>2. CASE i \notin DOMAIN cs
    <3>1. PICK k \in DOMAIN ds : new[i] = ds[k]
      BY <2>2 DEF Kept
    <3>. QED
      BY <3>1 DEF ShapeOk
  <2>. QED
    BY <2>1, <2>2
<1>2. created => 1 \in DOMAIN new /\ new[1].op = "create" /\ DOMAIN new[1].val.cols # {}
  BY DEF Kept, ListOk
<1>. QED
  BY <1>1, <1>2 DEF Kept, ListOk

DraftFields == {"ok", "cat", "changes"}
IsDraft(d) == DOMAIN d = DraftFields /\ d.ok = TRUE /\ IsSeq(d.changes)

(* What Push does.                                                         *)
LEMMA Pushed ==
    ASSUME NEW d, IsDraft(d), NEW cat, NEW ds, IsSeq(ds), NEW e, e = Push(d, cat, ds)
    PROVE  IsDraft(e) /\ e.cat = cat /\ Kept(e.changes, d.changes, ds)
<1>1. DOMAIN e = DraftFields /\ e.ok = TRUE /\ e.cat = cat /\ e.changes = d.changes \o ds
  BY DEF Push, IsDraft, DraftFields
<1>2. Kept(e.changes, d.changes, ds)
  BY <1>1, Appended DEF IsDraft
<1>. QED
  BY <1>1, <1>2 DEF Kept, IsDraft

(* A list of one change.                                                   *)
LEMMA OneChange ==
    ASSUME NEW c
    PROVE  IsSeq(<<c>>) /\ DOMAIN <<c>> = {1} /\ Len(<<c>>) = 1 /\ <<c>>[1] = c
<1>1. <<c>> \in Seq({c}) /\ Len(<<c>>) = 1 /\ DOMAIN <<c>> = {1} /\ <<c>>[1] = c
  OBVIOUS
<1>. QED
  BY <1>1 DEF IsSeq

\* The list cs and one more change.
OneMore(new, cs, c) ==
    /\ Kept(new, cs, <<c>>) /\ Len(cs) \in Nat /\ DOMAIN new = DOMAIN cs \union {Len(cs) + 1}
    /\ new[Len(cs) + 1] = c
    /\ \A i \in DOMAIN cs : i \in Nat /\ i < Len(cs) + 1 /\ new[i] = cs[i]

(* What Push does with one change.                                         *)
LEMMA PushedOne ==
    ASSUME NEW d, IsDraft(d), NEW cat, NEW c, NEW e, e = Push(d, cat, <<c>>)
    PROVE  IsDraft(e) /\ e.cat = cat /\ OneMore(e.changes, d.changes, c)
<1>1. IsDraft(e) /\ e.cat = cat /\ Kept(e.changes, d.changes, <<c>>)
  BY Pushed, OneChange
<1>2. DOMAIN <<c>> = {1} /\ Len(<<c>>) = 1 /\ <<c>>[1] = c
  BY OneChange
<1>. QED
  BY <1>1, <1>2 DEF Kept, OneMore

Grown(new, cs, op, key) ==
    /\ At(new, op, key) = At(cs, op, key) \union {Len(cs) + 1}
    /\ \A i : IsLast(i, At(new, op, key)) <=> i = Len(cs) + 1

(* The last change of its kind.                                            *)
LEMMA AtGrown ==
    ASSUME NEW cs, NEW c, NEW new, OneMore(new, cs, c), NEW op, NEW key, c.op = op, c.key = key
    PROVE  Grown(new, cs, op, key)
<1>1. At(new, op, key) = At(cs, op, key) \union {Len(cs) + 1}
  BY DEF OneMore, At
<1>2. \A i \in At(cs, op, key) : i \in Nat /\ i < Len(cs) + 1
  BY DEF OneMore, At
<1>3. Len(cs) + 1 \in Nat
  BY DEF OneMore
<1>. QED
  BY <1>1, <1>2, <1>3 DEF IsLast, Grown

-----------------------------------------------------------------------------
(* The calls on columns.                                                   *)

\* Everything but what concerns the sort order, which a renaming leaves for
\* its second change.
PartsOk(d, L, created, n) ==
    /\ IsDraft(d) /\ ListOk(d.changes, created)
    /\ CatOk(d.cat) /\ IdsOk(d.cat)
    /\ ColumnsOk(d.changes, d.cat, L) /\ PartOk(d.changes, d.cat, L, created)
    /\ TagsOk(d.changes, d.cat, L, created)
    /\ WritesOk(d.changes, n) /\ NotNullOk(d.changes, d.cat)

\* A definition that may take the place of the one column c has.
FitsAt(cs, cat, c, def) ==
    /\ c \in Present(cat) /\ DefOk(def) /\ def.parent = cat.cols[c].parent
    /\ \A y \in DOMAIN cat.cols : cat.cols[y].parent = def.parent /\ cat.cols[y].name = def.name => y = c
    /\ ~ def.nullable => ~ cat.cols[c].nullable \/ NoNulls(cs, c)

\* The catalog with another definition of column c.
Redefined(cat2, cat, c, def) ==
    /\ CatOk(cat2) /\ DOMAIN cat2.cols = DOMAIN cat.cols /\ cat2.cols[c] = def
    /\ \A x \in DOMAIN cat.cols : x # c => cat2.cols[x] = cat.cols[x]
    /\ cat2.gone = cat.gone /\ cat2.part = cat.part /\ cat2.sort = cat.sort
    /\ cat2.tags = cat.tags /\ cat2.next = cat.next

(* The catalog after an update of a column.                                *)
LEMMA UpdateCat ==
    ASSUME NEW cs, NEW cat, CatOk(cat), NEW c, NEW def, FitsAt(cs, cat, c, def),
           NEW cat2, cat2 = [cat EXCEPT !.cols[c] = def]
    PROVE  Redefined(cat2, cat, c, def)
<1>1. /\ DOMAIN cat2 = CatFields /\ DOMAIN cat2.cols = DOMAIN cat.cols
      /\ cat2.cols = [cat.cols EXCEPT ![c] = def]
      /\ cat2.gone = cat.gone /\ cat2.part = cat.part /\ cat2.sort = cat.sort
      /\ cat2.tags = cat.tags /\ cat2.next = cat.next
  BY DEF CatOk, CatFields
<1>2. c \in DOMAIN cat.cols /\ c \notin cat.gone /\ def.parent = cat.cols[c].parent /\ DefOk(def)
  BY DEF FitsAt, Present
<1>3. cat2.cols[c] = def /\ \A x \in DOMAIN cat.cols : x # c => cat2.cols[x] = cat.cols[x]
  BY <1>1, <1>2
<1>4. \A x \in DOMAIN cat.cols : cat2.cols[x].parent = cat.cols[x].parent /\ DefOk(cat2.cols[x])
  BY <1>2, <1>3 DEF CatOk, ColsOk
<1>5. ColsOk(cat2)
  <2>1. ASSUME NEW x \in DOMAIN cat2.cols
        PROVE  /\ x \in Nat /\ x # 0 /\ DefOk(cat2.cols[x])
               /\ cat2.cols[x].parent # 0 =>
                    cat2.cols[x].parent \in DOMAIN cat2.cols /\ cat2.cols[cat2.cols[x].parent].parent = 0
               /\ cat2.cols[x].parent \in cat2.gone => x \in cat2.gone
    BY <1>1, <1>4 DEF CatOk, ColsOk
  <2>2. ASSUME NEW x \in DOMAIN cat2.cols, NEW y \in DOMAIN cat2.cols,
               cat2.cols[x].parent = cat2.cols[y].parent, cat2.cols[x].name = cat2.cols[y].name
        PROVE  x = y
    <3>1. x \in DOMAIN cat.cols /\ y \in DOMAIN cat.cols /\ cat.cols[x].parent = cat.cols[y].parent
      BY <1>1, <1>4, <2>2
    <3>2. CASE x = c
      BY <1>2, <1>3, <2>2, <3>1, <3>2 DEF FitsAt
    <3>3. CASE y = c
      BY <1>2, <1>3, <2>2, <3>1, <3>3 DEF FitsAt
    <3>4. CASE x # c /\ y # c
      BY <1>3, <2>2, <3>1, <3>4 DEF CatOk, ColsOk
    <3>. QED
      BY <3>2, <3>3, <3>4
  <2>. QED
    BY <1>1, <2>1, <2>2 DEF CatOk, ColsOk
<1>6. KeysOk(cat2)
  BY <1>1, <1>4 DEF CatOk, KeysOk, IsRoot, Present
<1>. QED
  BY <1>1, <1>3, <1>5, <1>6 DEF CatOk, Redefined

(* The next column ID only depends on the catalog's own counter.           *)
LEMMA SameNext ==
    ASSUME NEW cat, NEW cat2, cat2.next = cat.next, DOMAIN cat2.cols = DOMAIN cat.cols, IdsOk(cat)
    PROVE  IdsOk(cat2)
<1>1. NextColumnId(cat2) = NextColumnId(cat)
  BY DEF NextColumnId
<1>. QED
  BY <1>1 DEF IdsOk

(* An update of a column that is there.                                    *)
LEMMA UpdateOk ==
    ASSUME NEW d, NEW L, NEW created, NEW n, PartsOk(d, L, created, n), NEW c, NEW def,
           FitsAt(d.changes, d.cat, c, def), NEW e, e = UpdateColumn(d, c, def)
    PROVE  /\ PartsOk(e, L, created, n) /\ Redefined(e.cat, d.cat, c, def)
           /\ OneMore(e.changes, d.changes, Change("update", c, def))
<1> DEFINE ch == Change("update", c, def)
           cs == d.changes
<1>1. ch.op = "update" /\ ch.key = c /\ ch.val = def
  BY DEF Change
<1>2. IsDraft(d) /\ CatOk(d.cat)
  BY DEF PartsOk
<1>. HIDE DEF ch
<1>3. IsDraft(e) /\ e.cat = [d.cat EXCEPT !.cols[c] = def] /\ OneMore(e.changes, cs, ch)
  BY <1>2, PushedOne DEF UpdateColumn, ch
<1>4. Kept(e.changes, cs, <<ch>>) /\ DOMAIN <<ch>> = {1} /\ <<ch>>[1] = ch
  BY <1>3, OneChange DEF OneMore
<1>50. Redefined(e.cat, d.cat, c, def)
  BY <1>2, <1>3, UpdateCat
<1>5. /\ CatOk(e.cat) /\ DOMAIN e.cat.cols = DOMAIN d.cat.cols /\ e.cat.cols[c] = def
      /\ \A x \in DOMAIN d.cat.cols : x # c => e.cat.cols[x] = d.cat.cols[x]
      /\ e.cat.gone = d.cat.gone /\ e.cat.part = d.cat.part /\ e.cat.sort = d.cat.sort
      /\ e.cat.tags = d.cat.tags /\ e.cat.next = d.cat.next
  BY <1>50 DEF Redefined
<1>6. c \in DOMAIN d.cat.cols /\ c \notin d.cat.gone
  BY DEF FitsAt, Present
<1>7. ListOk(e.changes, created)
  <2>1. ShapeOk(ch)
    BY <1>1 DEF ShapeOk, ChangeOps
  <2>. QED
    BY <1>4, <2>1, KeepList DEF PartsOk
<1>8. IdsOk(e.cat)
  BY <1>5, SameNext DEF PartsOk
<1>9. ColumnsOk(e.changes, e.cat, L)
  <2> SUFFICES ASSUME NEW x PROVE ColumnOk(e.changes, e.cat, L, x)
    BY DEF ColumnsOk
  <2>1. \A i \in DOMAIN <<ch>> : x \notin DOMAIN NewDefs(<<ch>>[i])
    BY <1>1, <1>4, NoNewDefs
  <2>2. ColumnOk(cs, d.cat, L, x)
    BY DEF PartsOk, ColumnsOk
  <2>3. CASE x # c
    <3>1. SameAt(e.cat.cols, d.cat.cols, x)
      BY <1>5, <2>3 DEF SameAt
    <3>. QED
      BY <1>1, <1>4, <1>5, <2>1, <2>2, <2>3, <3>1, KeepColumn
  <2>4. CASE x = c
    <3>1. AddsAt(e.changes, x) = AddsAt(cs, x)
      BY <1>4, <2>1, AddsKept
    <3>2. At(e.changes, "remove", x) = At(cs, "remove", x)
      BY <1>1, <1>4, AtKept
    <3>3. At(cs, "remove", x) = {}
      BY <1>6, <2>2, <2>4 DEF ColumnOk
    <3>4. /\ At(e.changes, "update", x) = At(cs, "update", x) \union {Len(cs) + 1}
          /\ \A i : IsLast(i, At(e.changes, "update", x)) <=> i = Len(cs) + 1
      <4>1. Grown(e.changes, cs, "update", x)
        BY <1>1, <1>3, <2>4, AtGrown
      <4>. QED
        BY <4>1 DEF Grown
    <3>5. e.changes[Len(cs) + 1].val = e.cat.cols[x]
      BY <1>1, <1>3, <1>5, <2>4 DEF OneMore
    <3>6. \A a \in AddsAt(cs, x) : a < Len(cs) + 1
      BY <1>3 DEF AddsAt, OneMore
    <3>7. x \in DOMAIN e.cat.cols /\ x \in DOMAIN d.cat.cols /\ (x \in e.cat.gone <=> x \in d.cat.gone)
      BY <1>5, <1>6, <2>4
    <3>. QED
      BY <2>2, <3>1, <3>2, <3>3, <3>4, <3>5, <3>6, <3>7 DEF ColumnOk
  <2>. QED
    BY <2>3, <2>4
<1>10. SameFirst(e.changes, cs, created)
  BY <1>4, KeepFirst DEF PartsOk
<1>11. PartOk(e.changes, e.cat, L, created)
  <2>1. NoOps(<<ch>>, {"partition", "files"})
    BY <1>1, <1>4 DEF NoOps
  <2>. QED
    BY <1>4, <1>5, <1>10, <2>1, KeepPart DEF PartsOk
<1>12. TagsOk(e.changes, e.cat, L, created)
  <2> SUFFICES ASSUME NEW o PROVE TagOk(e.changes, e.cat, L, created, o)
    BY DEF TagsOk
  <2>1. SameAt(e.cat.tags, d.cat.tags, o) /\ TagOk(cs, d.cat, L, created, o)
    BY <1>5 DEF SameAt, PartsOk, TagsOk
  <2>. QED
    BY <1>1, <1>4, <1>10, <2>1, KeepTags
<1>13. NoOps(<<ch>>, WriteKinds)
  BY <1>1, <1>4 DEF NoOps, WriteKinds
<1>14. WritesOk(e.changes, n)
  BY <1>4, <1>13, KeepWrites DEF PartsOk
<1>15. NotNullOk(e.changes, e.cat)
  <2>1. \A x \in DOMAIN e.cat.cols : ~ e.cat.cols[x].nullable =>
           (x \in DOMAIN d.cat.cols /\ ~ d.cat.cols[x].nullable) \/ NoNulls(cs, x)
    BY <1>5 DEF FitsAt
  <2>. QED
    BY <1>4, <1>5, <1>13, <2>1, KeepNulls DEF PartsOk
<1>. QED
  BY <1>3, <1>5, <1>50, <1>7, <1>8, <1>9, <1>11, <1>12, <1>14, <1>15 DEF PartsOk, ch

\* Definitions N of new columns that may be added.
MayAdd(cat, N) ==
    /\ DOMAIN N # {}
    /\ \A x \in DOMAIN N :
          /\ x \in Nat /\ x # 0 /\ x \notin DOMAIN cat.cols /\ x \notin Ids(table.columns) /\ DefOk(N[x])
          /\ N[x].parent # 0 =>
                \/ IsRoot(cat, N[x].parent)
                \/ N[x].parent \in DOMAIN N /\ N[N[x].parent].parent = 0
          /\ \A y \in DOMAIN N : N[x].parent = N[y].parent /\ N[x].name = N[y].name => x = y
          /\ \A y \in DOMAIN cat.cols : ~ (N[x].parent = cat.cols[y].parent /\ N[x].name = cat.cols[y].name)

Enlarged(cat2, cat, N) ==
    /\ CatOk(cat2) /\ DOMAIN cat2.cols = DOMAIN cat.cols \union DOMAIN N
    /\ \A x \in DOMAIN cat.cols : x \notin DOMAIN N /\ cat2.cols[x] = cat.cols[x]
    /\ \A x \in DOMAIN N : cat2.cols[x] = N[x]
    /\ cat2.gone = cat.gone /\ cat2.part = cat.part /\ cat2.sort = cat.sort
    /\ cat2.tags = cat.tags

WithColumns(cat, N, m) == [cat EXCEPT !.cols = Merged(@, N), !.next = m]

(* The catalog after columns have been added.                              *)
LEMMA AddCat ==
    ASSUME NEW cat, CatOk(cat), NEW N, MayAdd(cat, N), NEW m,
           NEW cat2, cat2 = WithColumns(cat, N, m)
    PROVE  Enlarged(cat2, cat, N) /\ cat2.next = m
<1>1. /\ DOMAIN cat2 = CatFields /\ cat2.cols = Merged(cat.cols, N) /\ cat2.next = m
      /\ cat2.gone = cat.gone /\ cat2.part = cat.part /\ cat2.sort = cat.sort
      /\ cat2.tags = cat.tags
  BY DEF CatOk, CatFields, WithColumns
<1>2. /\ DOMAIN cat2.cols = DOMAIN cat.cols \union DOMAIN N
      /\ \A x \in DOMAIN N : cat2.cols[x] = N[x] /\ x \notin DOMAIN cat.cols
      /\ \A x \in DOMAIN cat.cols : x \notin DOMAIN N /\ cat2.cols[x] = cat.cols[x]
  BY <1>1 DEF Merged, MayAdd
<1>3. cat.gone \subseteq DOMAIN cat.cols /\ 0 \notin DOMAIN cat.cols
  BY DEF CatOk, ColsOk
<1>4. ASSUME NEW x \in DOMAIN cat2.cols
      PROVE  /\ x \in Nat /\ x # 0 /\ DefOk(cat2.cols[x])
             /\ cat2.cols[x].parent # 0 =>
                  cat2.cols[x].parent \in DOMAIN cat2.cols /\ cat2.cols[cat2.cols[x].parent].parent = 0
             /\ cat2.cols[x].parent \in cat2.gone => x \in cat2.gone
  <2>1. CASE x \in DOMAIN cat.cols
    BY <1>1, <1>2, <2>1 DEF CatOk, ColsOk
  <2>2. CASE x \in DOMAIN N
    <3>1. cat2.cols[x] = N[x]
      BY <1>2, <2>2
    <3>2. x \in Nat /\ x # 0 /\ DefOk(N[x])
      BY <2>2 DEF MayAdd
    <3>3. CASE N[x].parent = 0
      BY <1>1, <1>3, <3>1, <3>2, <3>3
    <3>4. CASE IsRoot(cat, N[x].parent)
      BY <1>1, <1>2, <3>1, <3>2, <3>4 DEF IsRoot, Present
    <3>5. CASE N[x].parent \in DOMAIN N /\ N[N[x].parent].parent = 0
      <4>1. N[x].parent \notin cat2.gone
        BY <1>1, <1>2, <1>3, <3>5
      <4>. QED
        BY <1>2, <3>1, <3>2, <3>5, <4>1
    <3>. QED
      BY <2>2, <3>3, <3>4, <3>5 DEF MayAdd
  <2>. QED
    BY <1>2, <2>1, <2>2
<1>5. ASSUME NEW x \in DOMAIN cat2.cols, NEW y \in DOMAIN cat2.cols,
             cat2.cols[x].parent = cat2.cols[y].parent, cat2.cols[x].name = cat2.cols[y].name
      PROVE  x = y
  <2>1. CASE x \in DOMAIN N /\ y \in DOMAIN N
    BY <1>2, <1>5, <2>1 DEF MayAdd
  <2>2. CASE x \in DOMAIN N /\ y \in DOMAIN cat.cols
    BY <1>2, <1>5, <2>2 DEF MayAdd
  <2>3. CASE x \in DOMAIN cat.cols /\ y \in DOMAIN N
    <3>1. cat2.cols[x] = cat.cols[x] /\ cat2.cols[y] = N[y]
      BY <1>2, <2>3
    <3>2. N[y].parent = cat.cols[x].parent /\ N[y].name = cat.cols[x].name
      BY <1>5, <3>1
    <3>. QED
      BY <2>3, <3>2 DEF MayAdd
  <2>4. CASE x \in DOMAIN cat.cols /\ y \in DOMAIN cat.cols
    BY <1>2, <1>5, <2>4 DEF CatOk, ColsOk
  <2>. QED
    BY <1>2, <2>1, <2>2, <2>3, <2>4
<1>6. ColsOk(cat2)
  BY <1>1, <1>2, <1>3, <1>4, <1>5 DEF ColsOk
<1>7. \A x : IsRoot(cat, x) => IsRoot(cat2, x)
  BY <1>1, <1>2 DEF IsRoot, Present
<1>8. KeysOk(cat2)
  BY <1>1, <1>7 DEF CatOk, KeysOk
<1>. QED
  BY <1>1, <1>2, <1>6, <1>8 DEF CatOk, Enlarged

\* No write has been staged, or none since cs.
NoWrites(cs) == \A i \in DOMAIN cs : cs[i].op \notin WriteKinds
NoNewWrites(new, cs) ==
    \A i \in DOMAIN new : new[i].op \in WriteKinds => i \in DOMAIN cs /\ new[i] = cs[i]

(* Adding columns.                                                         *)
LEMMA AddOk ==
    ASSUME NEW d, NEW L, NEW created, NEW n, PartsOk(d, L, created, n), NEW N, MayAdd(d.cat, N),
           (\E x \in DOMAIN N : ~ N[x].nullable) => table.data = {} /\ NoWrites(d.changes),
           NEW cat, Enlarged(cat, d.cat, N), IdsOk(cat),
           NEW e, e = Push(d, cat, <<Change("add", DOMAIN N, N)>>)
    PROVE  /\ PartsOk(e, L, created, n) /\ e.cat = cat
           /\ OneMore(e.changes, d.changes, Change("add", DOMAIN N, N))
<1> DEFINE ch == Change("add", DOMAIN N, N)
           cs == d.changes
<1>1. ch.op = "add" /\ ch.key = DOMAIN N /\ ch.val = N /\ NewDefs(ch) = N
  BY DEF Change, NewDefs
<1>2. IsDraft(d) /\ CatOk(d.cat)
  BY DEF PartsOk
<1>. HIDE DEF ch
<1>3. IsDraft(e) /\ e.cat = cat /\ OneMore(e.changes, cs, ch)
  BY <1>2, PushedOne DEF ch
<1>4. Kept(e.changes, cs, <<ch>>) /\ DOMAIN <<ch>> = {1} /\ <<ch>>[1] = ch
  BY <1>3, OneChange DEF OneMore
<1>5. /\ CatOk(e.cat) /\ DOMAIN e.cat.cols = DOMAIN d.cat.cols \union DOMAIN N
      /\ \A x \in DOMAIN d.cat.cols : x \notin DOMAIN N /\ e.cat.cols[x] = d.cat.cols[x]
      /\ \A x \in DOMAIN N : e.cat.cols[x] = N[x]
      /\ e.cat.gone = d.cat.gone /\ e.cat.part = d.cat.part /\ e.cat.sort = d.cat.sort
      /\ e.cat.tags = d.cat.tags
  BY <1>3 DEF Enlarged
<1>7. ListOk(e.changes, created)
  <2>1. ShapeOk(ch)
    BY <1>1 DEF ShapeOk, ChangeOps, MayAdd
  <2>. QED
    BY <1>4, <2>1, KeepList DEF PartsOk
<1>8. d.cat.gone \subseteq DOMAIN d.cat.cols
  BY <1>2 DEF CatOk, ColsOk
<1>9. ColumnsOk(e.changes, e.cat, L)
  <2> SUFFICES ASSUME NEW x PROVE ColumnOk(e.changes, e.cat, L, x)
    BY DEF ColumnsOk
  <2>1. \A i \in DOMAIN <<ch>> : <<ch>>[i].op \in {"update", "remove"} => <<ch>>[i].key # x
    BY <1>1, <1>4
  <2>2. ColumnOk(cs, d.cat, L, x)
    BY DEF PartsOk, ColumnsOk
  <2>3. CASE x \notin DOMAIN N
    <3>1. SameAt(e.cat.cols, d.cat.cols, x)
      BY <1>5, <2>3 DEF SameAt
    <3>. QED
      BY <1>1, <1>4, <1>5, <2>1, <2>2, <2>3, <3>1, KeepColumn
  <2>4. CASE x \in DOMAIN N
    <3>1. x \notin DOMAIN d.cat.cols /\ x \notin Ids(table.columns)
      BY <2>4 DEF MayAdd
    <3>2. At(e.changes, "remove", x) = At(cs, "remove", x)
      BY <1>1, <1>4, AtKept
    <3>3. At(e.changes, "update", x) = At(cs, "update", x)
      BY <1>1, <1>4, AtKept
    <3>4. AddsAt(cs, x) = {} /\ At(cs, "update", x) = {} /\ At(cs, "remove", x) = {} /\ x \notin DOMAIN L.cols
      BY <1>8, <2>2, <3>1 DEF ColumnOk
    <3>5. AddsAt(e.changes, x) = AddsAt(cs, x) \union {Len(cs) + 1}
      BY <1>1, <1>3, <2>4 DEF AddsAt, OneMore
    <3>6. NewDefs(e.changes[Len(cs) + 1])[x] = e.cat.cols[x]
      BY <1>1, <1>3, <1>5, <2>4 DEF OneMore
    <3>7. x \in DOMAIN e.cat.cols /\ x \notin e.cat.gone
      BY <1>5, <1>8, <2>4, <3>1
    <3>. QED
      BY <3>1, <3>2, <3>3, <3>4, <3>5, <3>6, <3>7 DEF ColumnOk
  <2>. QED
    BY <2>3, <2>4
<1>10. SameFirst(e.changes, cs, created)
  BY <1>4, KeepFirst DEF PartsOk
<1>11. PartOk(e.changes, e.cat, L, created)
  <2>1. NoOps(<<ch>>, {"partition", "files"})
    BY <1>1, <1>4 DEF NoOps
  <2>. QED
    BY <1>4, <1>5, <1>10, <2>1, KeepPart DEF PartsOk
<1>12. TagsOk(e.changes, e.cat, L, created)
  <2> SUFFICES ASSUME NEW o PROVE TagOk(e.changes, e.cat, L, created, o)
    BY DEF TagsOk
  <2>1. SameAt(e.cat.tags, d.cat.tags, o) /\ TagOk(cs, d.cat, L, created, o)
    BY <1>5 DEF SameAt, PartsOk, TagsOk
  <2>. QED
    BY <1>1, <1>4, <1>10, <2>1, KeepTags
<1>13. NoOps(<<ch>>, WriteKinds)
  BY <1>1, <1>4 DEF NoOps, WriteKinds
<1>14. WritesOk(e.changes, n)
  BY <1>4, <1>13, KeepWrites DEF PartsOk
<1>15. NotNullOk(e.changes, e.cat)
  <2>1. NotNullOk(cs, d.cat) /\ NullsOk(cs, d.cat)
    BY DEF PartsOk, NotNullOk
  <2>2. ASSUME NEW x \in DOMAIN N, ~ N[x].nullable PROVE NoNulls(cs, x)
    BY <2>2 DEF NoNulls, NoWrites, HoldsNull
  <2>3. \A x \in DOMAIN e.cat.cols : ~ e.cat.cols[x].nullable =>
           (x \in DOMAIN d.cat.cols /\ ~ d.cat.cols[x].nullable) \/ NoNulls(cs, x)
    BY <1>5, <2>2
  <2>. QED
    BY <1>4, <1>5, <1>13, <2>1, <2>3, KeepNulls
<1>. QED
  BY <1>3, <1>5, <1>7, <1>9, <1>11, <1>12, <1>14, <1>15 DEF PartsOk, ch

\* A draft as it is between two calls.
WholeOk(d, L, created, n) == PartsOk(d, L, created, n) /\ SortOk(d.changes, d.cat, L, created)

\* Columns other than those in S are still there, under the same name.
StayBut(cat2, cat, S) ==
    \A y \in Present(cat) \ S : /\ y \in Present(cat2)
                                /\ cat2.cols[y].parent = cat.cols[y].parent
                                /\ cat2.cols[y].name = cat.cols[y].name

(* A call that fails.                                                      *)
LEMMA FailedNotOk ==
    ASSUME NEW d, IsDraft(d)
    PROVE  ~ Failed(d).ok
BY DEF Failed, IsDraft, DraftFields

\* The definitions add_table_column makes.
NewColumns(id, parent, name, type, nullable) ==
    IF type = "struct"
    THEN [c \in {id, id + 1} |-> IF c = id THEN Column(parent, name, type, nullable)
                                 ELSE Column(id, "a", "int", TRUE)]
    ELSE [c \in {id} |-> Column(parent, name, type, nullable)]

(* The two next IDs are new.                                               *)
LEMMA TwoNext ==
    ASSUME NEW id \in Nat, NEW S, \A x \in S : x \in Nat /\ x < id
    PROVE  id + 1 \in Nat /\ id + 1 # 0 /\ id + 1 # id /\ \A x \in S : x # id /\ x # id + 1
OBVIOUS

(* The new columns of add_table_column.                                    *)
LEMMA NewColumnsFit ==
    ASSUME NEW cat, CatOk(cat), IdsOk(cat), NEW parent, NEW name, NEW type, NEW nullable,
           parent = 0 => name # Unsorted, parent # 0 => IsRoot(cat, parent) /\ type # "struct",
           ~ NameTaken(cat, parent, name), NEW id, id = NextColumnId(cat), NEW N,
           N = NewColumns(id, parent, name, type, nullable)
    PROVE  /\ MayAdd(cat, N)
           /\ \/ DOMAIN N = {id} /\ Cardinality(DOMAIN N) = 1
              \/ DOMAIN N = {id, id + 1} /\ Cardinality(DOMAIN N) = 2
<1>1. id \in Nat /\ id # 0 /\ \A x \in DOMAIN cat.cols \union Ids(table.columns) : x \in Nat /\ 0 < x /\ x < id
  BY DEF IdsOk
<1>2. id + 1 \in Nat /\ id + 1 # 0 /\ id + 1 # id
  BY <1>1, TwoNext
<1>3. \A x \in DOMAIN cat.cols \union Ids(table.columns) : x # id /\ x # id + 1
  BY <1>1, TwoNext
<1>4. \A y \in DOMAIN cat.cols : ~ (parent = cat.cols[y].parent /\ name = cat.cols[y].name)
  BY DEF NameTaken
<1>5. \A y \in DOMAIN cat.cols : cat.cols[y].parent # id
  <2>1. \A y \in DOMAIN cat.cols : cat.cols[y].parent = 0 \/ cat.cols[y].parent \in DOMAIN cat.cols
    BY DEF CatOk, ColsOk
  <2>. QED
    BY <1>1, <1>3, <2>1
<1>6. CASE type = "struct"
  <2>1. DOMAIN N = {id, id + 1} /\ N[id] = Column(parent, name, type, nullable)
        /\ N[id + 1] = Column(id, "a", "int", TRUE)
    BY <1>2, <1>6 DEF NewColumns
  <2>2. /\ N[id].parent = parent /\ N[id].name = name /\ N[id + 1].parent = id /\ N[id + 1].name = "a"
        /\ DefOk(N[id]) /\ DefOk(N[id + 1]) /\ parent = 0
    BY <1>1, <1>6, <2>1 DEF Column, DefOk
  <2>3. MayAdd(cat, N)
    <3>1. DOMAIN N # {}
      BY <2>1
    <3>2. ASSUME NEW x \in DOMAIN N
          PROVE  /\ x \in Nat /\ x # 0 /\ x \notin DOMAIN cat.cols /\ x \notin Ids(table.columns) /\ DefOk(N[x])
                 /\ N[x].parent # 0 =>
                       \/ IsRoot(cat, N[x].parent)
                       \/ N[x].parent \in DOMAIN N /\ N[N[x].parent].parent = 0
                 /\ \A y \in DOMAIN N : N[x].parent = N[y].parent /\ N[x].name = N[y].name => x = y
                 /\ \A y \in DOMAIN cat.cols : ~ (N[x].parent = cat.cols[y].parent /\ N[x].name = cat.cols[y].name)
      <4>1. CASE x = id
        BY <1>1, <1>2, <1>3, <1>4, <2>1, <2>2, <4>1
      <4>2. CASE x = id + 1
        BY <1>1, <1>2, <1>3, <1>5, <2>1, <2>2, <4>2
      <4>. QED
        BY <2>1, <4>1, <4>2
    <3>. QED
      BY <3>1, <3>2 DEF MayAdd
  <2>4. Cardinality(DOMAIN N) = 2
    <3>1. IsFiniteSet({id}) /\ Cardinality({id}) = 1
      BY FS_Singleton
    <3>2. Cardinality({id} \union {id + 1}) = 2
      <4>1. id + 1 \notin {id}
        BY <1>2
      <4>2. Cardinality({id} \union {id + 1}) = Cardinality({id}) + 1
        BY <3>1, <4>1, FS_AddElement
      <4>. QED
        BY <3>1, <4>2
    <3>3. DOMAIN N = {id} \union {id + 1}
      BY <2>1
    <3>. QED
      BY <3>2, <3>3
  <2>. QED
    BY <2>1, <2>3, <2>4
<1>7. CASE type # "struct"
  <2>1. DOMAIN N = {id} /\ N[id] = Column(parent, name, type, nullable)
    BY <1>7 DEF NewColumns
  <2>2. N[id].parent = parent /\ N[id].name = name /\ DefOk(N[id])
    BY <1>7, <2>1 DEF Column, DefOk
  <2>3. MayAdd(cat, N)
    BY <1>1, <1>3, <1>4, <2>1, <2>2 DEF MayAdd
  <2>4. Cardinality(DOMAIN N) = 1
    BY <2>1, FS_Singleton
  <2>. QED
    BY <2>1, <2>3, <2>4
<1>. QED
  BY <1>6, <1>7

(* A column that is added.                                                 *)
LEMMA AddColumnOk ==
    ASSUME NEW d, NEW L, NEW created, NEW n, WholeOk(d, L, created, n),
           NEW parent, NEW name, NEW type, NEW nullable,
           ~ nullable => table.data = {} /\ NoWrites(d.changes),
           parent = 0 => name # Unsorted, parent # 0 => IsRoot(d.cat, parent) /\ type # "struct",
           NEW e, e = add_table_column(d, parent, name, type, nullable), e.ok
    PROVE  WholeOk(e, L, created, n) /\ StayBut(e.cat, d.cat, {}) /\ NoNewWrites(e.changes, d.changes)
<1> DEFINE id == NextColumnId(d.cat)
           N == NewColumns(id, parent, name, type, nullable)
           m == id + Cardinality(DOMAIN N)
           cat == [d.cat EXCEPT !.cols = Merged(@, N), !.next = m]
           ch == Change("add", DOMAIN N, N)
<1>1. IsDraft(d) /\ CatOk(d.cat) /\ IdsOk(d.cat) /\ PartsOk(d, L, created, n)
  BY DEF WholeOk, PartsOk
<1>2. ~ NameTaken(d.cat, parent, name) /\ e = Push(d, cat, <<ch>>)
  BY <1>1, FailedNotOk DEF add_table_column, NewColumns
<1>3. /\ MayAdd(d.cat, N)
      /\ \/ DOMAIN N = {id} /\ Cardinality(DOMAIN N) = 1
         \/ DOMAIN N = {id, id + 1} /\ Cardinality(DOMAIN N) = 2
  BY <1>1, <1>2, NewColumnsFit
<1>4. id \in Nat /\ \A x \in DOMAIN d.cat.cols \union Ids(table.columns) : x \in Nat /\ 0 < x /\ x < id
  BY <1>1 DEF IdsOk
<1>. HIDE DEF id, N
<1>5. m \in Nat /\ m # 0 /\ id < m /\ \A x \in DOMAIN N : x < m
  <2>1. CASE DOMAIN N = {id} /\ Cardinality(DOMAIN N) = 1
    BY <1>4, <2>1
  <2>2. CASE DOMAIN N = {id, id + 1} /\ Cardinality(DOMAIN N) = 2
    BY <1>4, <2>2
  <2>. QED
    BY <1>3, <2>1, <2>2
<1>. HIDE DEF m, cat
<1>6. Enlarged(cat, d.cat, N) /\ cat.next = m
  <2>1. cat = WithColumns(d.cat, N, m)
    BY DEF cat, WithColumns
  <2>2. MayAdd(d.cat, N)
    BY <1>3
  <2>. QED
    BY <1>1, <2>1, <2>2, AddCat
<1>7. IdsOk(cat)
  <2>1. NextColumnId(cat) = m
    BY <1>5, <1>6 DEF NextColumnId
  <2>2. \A x \in DOMAIN N : x \in Nat /\ x # 0
    BY <1>3 DEF MayAdd
  <2>3. DOMAIN cat.cols = DOMAIN d.cat.cols \union DOMAIN N
    BY <1>6 DEF Enlarged
  <2>4. ASSUME NEW x \in DOMAIN cat.cols \union Ids(table.columns) PROVE x \in Nat /\ 0 < x /\ x < m
    <3>1. CASE x \in DOMAIN N
      BY <1>5, <2>2, <3>1
    <3>2. CASE x \notin DOMAIN N
      BY <1>4, <1>5, <2>3, <3>2
    <3>. QED
      BY <3>1, <3>2
  <2>. QED
    BY <1>5, <2>1, <2>4 DEF IdsOk
<1>8. PartsOk(e, L, created, n) /\ e.cat = cat /\ OneMore(e.changes, d.changes, ch)
  <2>1. (\E x \in DOMAIN N : ~ N[x].nullable) => ~ nullable
    BY DEF N, NewColumns, Column
  <2>. QED
    BY <1>1, <1>2, <1>3, <1>6, <1>7, <2>1, AddOk
<1>9. SortOk(e.changes, e.cat, L, created)
  <2>1. Kept(e.changes, d.changes, <<ch>>) /\ DOMAIN <<ch>> = {1} /\ <<ch>>[1] = ch
    BY <1>8, OneChange DEF OneMore
  <2>2. NoOps(<<ch>>, {"sort"})
    BY <2>1 DEF NoOps, Change
  <2>3. SameFirst(e.changes, d.changes, created)
    BY <1>1, <2>1, KeepFirst DEF PartsOk
  <2>4. SortName(e.cat) = SortName(d.cat)
    BY <1>1, <1>6, <1>8 DEF SortName, Enlarged, CatOk, KeysOk, IsRoot, Present
  <2>. QED
    BY <2>1, <2>2, <2>3, <2>4, KeepSort DEF WholeOk
<1>10. StayBut(e.cat, d.cat, {})
  BY <1>6, <1>8 DEF StayBut, Enlarged, Present
<1>11. NoNewWrites(e.changes, d.changes)
  BY <1>8 DEF NoNewWrites, OneMore, Change, WriteKinds
<1>. QED
  BY <1>8, <1>9, <1>10, <1>11 DEF WholeOk

(* A finite set as a sequence.                                             *)
LEMMA AsSequence ==
    ASSUME NEW S, IsFiniteSet(S), NEW f, f = SetToSeq(S)
    PROVE  /\ f \in Seq(S) /\ Len(f) \in Nat /\ DOMAIN f = 1 .. Len(f)
           /\ \A i \in DOMAIN f : f[i] \in S
           /\ \A x \in S : \E i \in DOMAIN f : f[i] = x
<1> DEFINE n == Cardinality(S)
<1>1. n \in Nat /\ ExistsBijection(1 .. n, S)
  BY FS_CardinalityType
<1>. HIDE DEF n
<1>2. \E g \in [1 .. n -> S] : IsInjective(g)
  BY <1>1 DEF ExistsBijection, Bijection, Injection
<1>3. f \in [1 .. n -> S] /\ IsInjective(f)
  BY <1>2 DEF SetToSeq, n
<1>4. f \in Injection(1 .. n, S)
  BY <1>3 DEF Injection
<1>5. IsFiniteSet(1 .. n) /\ Cardinality(1 .. n) = n
  BY <1>1, FS_Interval
<1>6. f \in Surjection(1 .. n, S)
  BY <1>4, <1>5, FS_Injection DEF n
<1>7. f \in Seq(S) /\ Len(f) = n
  BY <1>1, <1>3
<1>. QED
  BY <1>1, <1>3, <1>6, <1>7 DEF Surjection

(* The changes that remove a column and its fields.                        *)
LEMMA RemoveList ==
    ASSUME NEW cat, ColsOk(cat), IdsOk(cat), NEW c, NEW fields, fields = SetToSeq(Fields(cat, c)),
           NEW ds, ds = [i \in 1 .. 1 + Len(fields) |->
                            Change("remove", IF i = 1 THEN c ELSE fields[i - 1], 0)]
    PROVE  /\ IsSeq(ds)
           /\ \A i \in DOMAIN ds : ds[i].op = "remove" /\ ds[i].key \in Subtree(cat, c)
           /\ \A x \in Subtree(cat, c) : \E i \in DOMAIN ds : ds[i].key = x
<1>1. IsFiniteSet(Fields(cat, c))
  <2> DEFINE m == NextColumnId(cat)
  <2>1. m \in Nat /\ \A x \in DOMAIN cat.cols : x \in Nat /\ x < m
    BY DEF IdsOk
  <2>. HIDE DEF m
  <2>2. Fields(cat, c) \in SUBSET (0 .. m)
    BY <2>1 DEF Fields
  <2>3. IsFiniteSet(0 .. m)
    BY <2>1, FS_Interval
  <2>. QED
    BY <2>2, <2>3, FS_Subset
<1>2. /\ Len(fields) \in Nat /\ DOMAIN fields = 1 .. Len(fields)
      /\ \A i \in DOMAIN fields : fields[i] \in Fields(cat, c)
      /\ \A x \in Fields(cat, c) : \E i \in DOMAIN fields : fields[i] = x
  BY <1>1, AsSequence
<1> DEFINE k == Len(fields)
<1>3. k \in Nat /\ DOMAIN ds = 1 .. 1 + k
  BY <1>2
<1>4. IsSeq(ds)
  <2> DEFINE T == {ds[i] : i \in 1 .. 1 + k}
  <2>1. ds \in [1 .. 1 + k -> T]
    BY <1>3
  <2>2. ds \in Seq(T)
    BY <1>3, <2>1, IsASeq
  <2>. QED
    BY <2>2 DEF IsSeq
<1>5. ASSUME NEW i \in DOMAIN ds PROVE ds[i].op = "remove" /\ ds[i].key \in Subtree(cat, c)
  <2>1. CASE i = 1
    BY <1>3, <2>1 DEF Change, Subtree
  <2>2. CASE i # 1
    <3>1. i - 1 \in DOMAIN fields
      BY <1>2, <1>3, <2>2
    <3>2. ds[i].op = "remove" /\ ds[i].key = fields[i - 1]
      BY <1>3, <2>2 DEF Change
    <3>. QED
      BY <1>2, <3>1, <3>2 DEF Subtree
  <2>. QED
    BY <2>1, <2>2
<1>6. ASSUME NEW x \in Subtree(cat, c) PROVE \E i \in DOMAIN ds : ds[i].key = x
  <2>1. CASE x = c
    <3>1. 1 \in DOMAIN ds /\ ds[1].key = c
      BY <1>3 DEF Change
    <3>. QED
      BY <2>1, <3>1
  <2>2. CASE x # c
    <3>1. PICK i \in DOMAIN fields : fields[i] = x
      BY <1>2, <2>2 DEF Subtree
    <3>2. i + 1 \in DOMAIN ds /\ i + 1 # 1 /\ (i + 1) - 1 = i
      BY <1>2, <1>3, <3>1
    <3>3. ds[i + 1].key = x
      BY <1>3, <3>1, <3>2 DEF Change
    <3>. QED
      BY <3>2, <3>3
  <2>. QED
    BY <2>1, <2>2
<1>. QED
  BY <1>4, <1>5, <1>6

Pruned(cat2, cat, S) ==
    /\ CatOk(cat2) /\ cat2.cols = cat.cols /\ cat2.gone = cat.gone \union S
    /\ cat2.part = cat.part /\ cat2.sort = cat.sort /\ cat2.tags = cat.tags /\ cat2.next = cat.next

(* The catalog after a column has been removed.                            *)
LEMMA RemoveCat ==
    ASSUME NEW cat, CatOk(cat), NEW c, c \in Present(cat), ~ InUse(cat, c),
           NEW cat2, cat2 = [cat EXCEPT !.gone = @ \union Subtree(cat, c)]
    PROVE  Pruned(cat2, cat, Subtree(cat, c))
<1>1. /\ DOMAIN cat2 = CatFields /\ cat2.cols = cat.cols /\ cat2.gone = cat.gone \union Subtree(cat, c)
      /\ cat2.part = cat.part /\ cat2.sort = cat.sort /\ cat2.tags = cat.tags /\ cat2.next = cat.next
  BY DEF CatOk, CatFields
<1>2. c \in DOMAIN cat.cols /\ c # 0 /\ Subtree(cat, c) \subseteq DOMAIN cat.cols
  BY DEF Present, CatOk, ColsOk, Subtree, Fields
<1>3. ASSUME NEW x \in DOMAIN cat.cols, cat.cols[x].parent \in Subtree(cat, c)
      PROVE  x \in Subtree(cat, c)
  <2>1. CASE cat.cols[x].parent = c
    BY <2>1 DEF Subtree, Fields
  <2>2. CASE cat.cols[x].parent \in Fields(cat, c)
    <3>1. cat.cols[x].parent \in DOMAIN cat.cols /\ cat.cols[cat.cols[x].parent].parent = c
      BY <2>2 DEF Fields
    <3>2. cat.cols[x].parent # 0
      BY <3>1 DEF CatOk, ColsOk
    <3>3. cat.cols[cat.cols[x].parent].parent = 0
      BY <3>2 DEF CatOk, ColsOk
    <3>. QED
      BY <1>2, <3>1, <3>3
  <2>. QED
    BY <1>3, <2>1, <2>2 DEF Subtree
<1>4. ColsOk(cat2)
  BY <1>1, <1>2, <1>3 DEF CatOk, ColsOk
<1>5. ASSUME NEW x, IsRoot(cat, x), x # c PROVE IsRoot(cat2, x)
  <2>1. x \in DOMAIN cat.cols /\ x \notin cat.gone /\ cat.cols[x].parent = 0
    BY <1>5 DEF IsRoot, Present
  <2>2. x \notin Subtree(cat, c)
    BY <1>2, <1>5, <2>1 DEF Subtree, Fields
  <2>. QED
    BY <1>1, <2>1, <2>2 DEF IsRoot, Present
<1>6. KeysOk(cat2)
  BY <1>1, <1>5 DEF CatOk, KeysOk, InUse
<1>. QED
  BY <1>1, <1>4, <1>6 DEF CatOk, Pruned

(* A column that is removed.                                               *)
LEMMA RemoveOk ==
    ASSUME NEW d, NEW L, NEW created, NEW n, WholeOk(d, L, created, n), NEW c, c \in Present(d.cat),
           NEW e, e = remove_table_column(d, c), e.ok
    PROVE  /\ WholeOk(e, L, created, n) /\ StayBut(e.cat, d.cat, Subtree(d.cat, c))
           /\ NoNewWrites(e.changes, d.changes)
<1> DEFINE S == Subtree(d.cat, c)
           cs == d.changes
           cat == [d.cat EXCEPT !.gone = @ \union S]
           fields == SetToSeq(Fields(d.cat, c))
           ds == [i \in 1 .. 1 + Len(fields) |-> Change("remove", IF i = 1 THEN c ELSE fields[i - 1], 0)]
<1>1. IsDraft(d) /\ CatOk(d.cat) /\ ColsOk(d.cat) /\ IdsOk(d.cat) /\ PartsOk(d, L, created, n)
  BY DEF WholeOk, PartsOk, CatOk
<1>2. ~ InUse(d.cat, c) /\ e = Push(d, cat, ds)
  BY <1>1, FailedNotOk DEF remove_table_column
<1>3. /\ IsSeq(ds)
      /\ \A i \in DOMAIN ds : ds[i].op = "remove" /\ ds[i].key \in S
      /\ \A x \in S : \E i \in DOMAIN ds : ds[i].key = x
  BY <1>1, RemoveList
<1>. HIDE DEF ds
<1>4. IsDraft(e) /\ e.cat = cat /\ Kept(e.changes, cs, ds)
  BY <1>1, <1>2, <1>3, Pushed
<1>5. Pruned(e.cat, d.cat, S)
  BY <1>1, <1>2, <1>4, RemoveCat
<1>. HIDE DEF cat, S
<1>6. /\ CatOk(e.cat) /\ e.cat.cols = d.cat.cols /\ e.cat.gone = d.cat.gone \union S
      /\ e.cat.part = d.cat.part /\ e.cat.sort = d.cat.sort /\ e.cat.tags = d.cat.tags
      /\ e.cat.next = d.cat.next
  BY <1>5 DEF Pruned
<1>7. ListOk(e.changes, created)
  <2>1. \A i \in DOMAIN ds : ShapeOk(ds[i])
    BY <1>3 DEF ShapeOk, ChangeOps
  <2>. QED
    BY <1>1, <1>4, <2>1, KeepList DEF PartsOk
<1>8. IdsOk(e.cat)
  BY <1>1, <1>6, SameNext
<1>9. ColumnsOk(e.changes, e.cat, L)
  <2> SUFFICES ASSUME NEW x PROVE ColumnOk(e.changes, e.cat, L, x)
    BY DEF ColumnsOk
  <2>1. \A i \in DOMAIN ds : x \notin DOMAIN NewDefs(ds[i])
    BY <1>3, NoNewDefs
  <2>2. ColumnOk(cs, d.cat, L, x) /\ SameAt(e.cat.cols, d.cat.cols, x)
    BY <1>1, <1>6 DEF PartsOk, ColumnsOk, SameAt
  <2>3. CASE x \notin S
    <3>1. \A i \in DOMAIN ds : ds[i].op \in {"update", "remove"} => ds[i].key # x
      BY <1>3, <2>3
    <3>2. x \in e.cat.gone <=> x \in d.cat.gone
      BY <1>6, <2>3
    <3>. QED
      BY <1>4, <2>1, <2>2, <3>1, <3>2, KeepColumn
  <2>4. CASE x \in S
    <3>1. AddsAt(e.changes, x) = AddsAt(cs, x)
      BY <1>4, <2>1, AddsKept
    <3>2. At(e.changes, "update", x) = At(cs, "update", x)
      BY <1>3, <1>4, AtKept
    <3>3. /\ \A i \in AddsAt(cs, x) : e.changes[i] = cs[i] /\ i \in DOMAIN cs
          /\ \A i \in At(cs, "update", x) : e.changes[i] = cs[i] /\ i \in DOMAIN cs
      BY <1>4 DEF AddsAt, At, Kept
    <3>4. At(e.changes, "remove", x) # {}
      <4>1. PICK k \in DOMAIN ds : ds[k].key = x
        BY <1>3, <2>4
      <4>2. Len(cs) + k \in At(e.changes, "remove", x)
        BY <1>3, <1>4, <4>1 DEF Kept, At
      <4>. QED
        BY <4>2
    <3>5. ASSUME NEW j \in At(e.changes, "remove", x)
          PROVE  j \in At(cs, "remove", x) \/ \A i \in DOMAIN cs : i < j
      <4>1. CASE j \in DOMAIN cs
        BY <1>4, <4>1 DEF Kept, At
      <4>2. CASE j \notin DOMAIN cs
        <5>1. PICK k \in DOMAIN ds : j = Len(cs) + k
          BY <1>4, <4>2 DEF Kept, At
        <5>2. /\ Len(cs) \in Nat /\ Len(ds) \in Nat
              /\ DOMAIN cs = 1 .. Len(cs) /\ DOMAIN ds = 1 .. Len(ds)
          BY <1>4 DEF Kept
        <5>. QED
          BY <5>1, <5>2
      <4>. QED
        BY <4>1, <4>2
    <3>6. x \in e.cat.gone
      BY <1>6, <2>4
    <3>. QED
      BY <1>6, <2>2, <3>1, <3>2, <3>3, <3>4, <3>5, <3>6 DEF ColumnOk
  <2>. QED
    BY <2>3, <2>4
<1>10. SameFirst(e.changes, cs, created)
  BY <1>1, <1>4, KeepFirst DEF PartsOk
<1>11. PartOk(e.changes, e.cat, L, created)
  <2>1. NoOps(ds, {"partition", "files"})
    BY <1>3 DEF NoOps
  <2>. QED
    BY <1>1, <1>4, <1>6, <1>10, <2>1, KeepPart DEF PartsOk
<1>12. TagsOk(e.changes, e.cat, L, created)
  <2> SUFFICES ASSUME NEW o PROVE TagOk(e.changes, e.cat, L, created, o)
    BY DEF TagsOk
  <2>1. SameAt(e.cat.tags, d.cat.tags, o) /\ TagOk(cs, d.cat, L, created, o)
    BY <1>1, <1>6 DEF SameAt, PartsOk, TagsOk
  <2>2. \A i \in DOMAIN ds : ds[i].op \in {"tag", "untag"} => ds[i].key # o
    BY <1>3
  <2>. QED
    BY <1>4, <1>10, <2>1, <2>2, KeepTags
<1>13. NoOps(ds, WriteKinds)
  BY <1>3 DEF NoOps, WriteKinds
<1>14. WritesOk(e.changes, n)
  BY <1>1, <1>4, <1>13, KeepWrites DEF PartsOk
<1>15. NotNullOk(e.changes, e.cat)
  BY <1>1, <1>4, <1>6, <1>13, KeepNulls DEF PartsOk
<1>16. SortOk(e.changes, e.cat, L, created)
  <2>1. NoOps(ds, {"sort"})
    BY <1>3 DEF NoOps
  <2>2. SortName(e.cat) = SortName(d.cat)
    BY <1>6 DEF SortName
  <2>. QED
    BY <1>4, <1>10, <2>1, <2>2, KeepSort DEF WholeOk
<1>17. StayBut(e.cat, d.cat, S)
  BY <1>6 DEF StayBut, Present
<1>18. PartsOk(e, L, created, n)
  BY <1>4, <1>6, <1>7, <1>8, <1>9, <1>11, <1>12, <1>14, <1>15 DEF PartsOk
<1>19. NoNewWrites(e.changes, d.changes)
  BY <1>4, <1>13 DEF NoNewWrites, Kept, NoOps
<1>. QED
  BY <1>16, <1>17, <1>18, <1>19 DEF WholeOk, S

(* A sort order that is set, or whose column has been renamed.             *)
LEMMA SortChangeOk ==
    ASSUME NEW d, NEW L, NEW created, NEW n, PartsOk(d, L, created, n),
           NEW cat, CatOk(cat), cat.cols = d.cat.cols, cat.gone = d.cat.gone, cat.part = d.cat.part,
           cat.tags = d.cat.tags, cat.next = d.cat.next,
           NEW e, e = Push(d, cat, <<Change("sort", 0, SortName(cat))>>)
    PROVE  WholeOk(e, L, created, n) /\ e.cat = cat
<1> DEFINE ch == Change("sort", 0, SortName(cat))
           cs == d.changes
<1>1. ch.op = "sort" /\ ch.key = 0 /\ ch.val = SortName(cat)
  BY DEF Change
<1>2. IsDraft(d) /\ CatOk(d.cat)
  BY DEF PartsOk
<1>. HIDE DEF ch
<1>3. IsDraft(e) /\ e.cat = cat /\ OneMore(e.changes, cs, ch)
  BY <1>2, PushedOne DEF ch
<1>4. Kept(e.changes, cs, <<ch>>) /\ DOMAIN <<ch>> = {1} /\ <<ch>>[1] = ch
  BY <1>3, OneChange DEF OneMore
<1>7. ListOk(e.changes, created)
  <2>1. ShapeOk(ch)
    BY <1>1 DEF ShapeOk, ChangeOps
  <2>. QED
    BY <1>4, <2>1, KeepList DEF PartsOk
<1>8. IdsOk(e.cat)
  BY <1>3, SameNext DEF PartsOk
<1>9. ColumnsOk(e.changes, e.cat, L)
  <2>1. NoOps(<<ch>>, {"create", "add", "update", "remove"})
    BY <1>1, <1>4 DEF NoOps
  <2>. QED
    BY <1>3, <1>4, <2>1, KeepColumns DEF PartsOk
<1>10. SameFirst(e.changes, cs, created)
  BY <1>4, KeepFirst DEF PartsOk
<1>11. PartOk(e.changes, e.cat, L, created)
  <2>1. NoOps(<<ch>>, {"partition", "files"})
    BY <1>1, <1>4 DEF NoOps
  <2>. QED
    BY <1>3, <1>4, <1>10, <2>1, KeepPart DEF PartsOk
<1>12. TagsOk(e.changes, e.cat, L, created)
  <2> SUFFICES ASSUME NEW o PROVE TagOk(e.changes, e.cat, L, created, o)
    BY DEF TagsOk
  <2>1. SameAt(e.cat.tags, d.cat.tags, o) /\ TagOk(cs, d.cat, L, created, o)
    BY <1>3 DEF SameAt, PartsOk, TagsOk
  <2>. QED
    BY <1>1, <1>4, <1>10, <2>1, KeepTags
<1>13. NoOps(<<ch>>, WriteKinds)
  BY <1>1, <1>4 DEF NoOps, WriteKinds
<1>14. WritesOk(e.changes, n)
  BY <1>4, <1>13, KeepWrites DEF PartsOk
<1>15. NotNullOk(e.changes, e.cat)
  BY <1>3, <1>4, <1>13, KeepNulls DEF PartsOk
<1>16. SortOk(e.changes, e.cat, L, created)
  <2>1. Grown(e.changes, cs, "sort", 0)
    BY <1>1, <1>3, AtGrown
  <2>2. e.changes[Len(cs) + 1].val = SortName(e.cat)
    BY <1>1, <1>3 DEF OneMore
  <2>. QED
    BY <2>1, <2>2 DEF SortOk, Grown
<1>17. PartsOk(e, L, created, n)
  BY <1>3, <1>7, <1>8, <1>9, <1>11, <1>12, <1>14, <1>15 DEF PartsOk
<1>. QED
  BY <1>3, <1>16, <1>17 DEF WholeOk

(* An update that leaves the name of the sort order alone.                 *)
LEMMA UpdateWholeOk ==
    ASSUME NEW d, NEW L, NEW created, NEW n, WholeOk(d, L, created, n), NEW c, NEW def,
           FitsAt(d.changes, d.cat, c, def), c # d.cat.sort \/ def.name = d.cat.cols[c].name,
           NEW e, e = UpdateColumn(d, c, def)
    PROVE  /\ WholeOk(e, L, created, n) /\ Redefined(e.cat, d.cat, c, def)
           /\ def.name = d.cat.cols[c].name => StayBut(e.cat, d.cat, {})
           /\ OneMore(e.changes, d.changes, Change("update", c, def))
<1> DEFINE ch == Change("update", c, def)
<1>1. /\ PartsOk(e, L, created, n) /\ Redefined(e.cat, d.cat, c, def)
      /\ OneMore(e.changes, d.changes, ch)
  BY UpdateOk DEF WholeOk
<1>2. c \in DOMAIN d.cat.cols /\ d.cat.sort \in {0} \union DOMAIN d.cat.cols
  BY DEF FitsAt, Present, WholeOk, PartsOk, CatOk, KeysOk, IsRoot
<1>3. SortOk(e.changes, e.cat, L, created)
  <2>1. Kept(e.changes, d.changes, <<ch>>) /\ DOMAIN <<ch>> = {1} /\ <<ch>>[1] = ch
    BY <1>1, OneChange DEF OneMore
  <2>2. NoOps(<<ch>>, {"sort"})
    BY <2>1 DEF NoOps, Change
  <2>3. SameFirst(e.changes, d.changes, created)
    BY <2>1, KeepFirst DEF WholeOk, PartsOk
  <2>4. SortName(e.cat) = SortName(d.cat)
    BY <1>1, <1>2 DEF SortName, Redefined
  <2>. QED
    BY <2>1, <2>2, <2>3, <2>4, KeepSort DEF WholeOk
<1>4. def.name = d.cat.cols[c].name => StayBut(e.cat, d.cat, {})
  BY <1>1 DEF StayBut, Redefined, Present, FitsAt
<1>. QED
  BY <1>1, <1>3, <1>4 DEF WholeOk

(* A definition with the name of the old one fits.                         *)
LEMMA SameNameFits ==
    ASSUME NEW cs, NEW cat, CatOk(cat), NEW c, c \in Present(cat), NEW def, DefOk(def),
           def.parent = cat.cols[c].parent, def.name = cat.cols[c].name,
           ~ def.nullable => ~ cat.cols[c].nullable \/ NoNulls(cs, c)
    PROVE  FitsAt(cs, cat, c, def)
BY DEF FitsAt, CatOk, ColsOk, Present

(* A column that is renamed.                                               *)
LEMMA RenameOk ==
    ASSUME NEW d, NEW L, NEW created, NEW n, WholeOk(d, L, created, n), NEW c, c \in Present(d.cat),
           NEW name, d.cat.cols[c].parent = 0 => name # Unsorted,
           NEW e, e = rename_table_column(d, c, name), e.ok
    PROVE  WholeOk(e, L, created, n)
<1> DEFINE old == d.cat.cols[c]
           def == [old EXCEPT !.name = name]
           f == UpdateColumn(d, c, def)
<1>1. IsDraft(d) /\ CatOk(d.cat) /\ PartsOk(d, L, created, n)
  BY DEF WholeOk, PartsOk
<1>2. c \in DOMAIN d.cat.cols /\ DefOk(old)
  BY <1>1 DEF Present, CatOk, ColsOk
<1>3. /\ def.parent = old.parent /\ def.name = name /\ def.type = old.type /\ def.nullable = old.nullable
      /\ DefOk(def)
  BY <1>2 DEF DefOk, Column
<1>4. /\ ~ NameTaken(d.cat, def.parent, name)
      /\ e = IF d.cat.sort = c THEN Push(f, f.cat, <<Change("sort", 0, SortName(f.cat))>>) ELSE f
  BY <1>1, FailedNotOk DEF rename_table_column
<1>. HIDE DEF def
<1>5. FitsAt(d.changes, d.cat, c, def)
  BY <1>3, <1>4 DEF FitsAt, NameTaken
<1>6. CASE d.cat.sort = c
  <2>1. PartsOk(f, L, created, n) /\ CatOk(f.cat)
    BY <1>1, <1>5, UpdateOk DEF Redefined
  <2>. HIDE DEF f
  <2>. QED
    BY <1>4, <1>6, <2>1, SortChangeOk
<1>7. CASE d.cat.sort # c
  BY <1>4, <1>5, <1>7, UpdateWholeOk
<1>. QED
  BY <1>6, <1>7

(* A column that gets another type.                                        *)
LEMMA DtypeOk ==
    ASSUME NEW d, NEW L, NEW created, NEW n, WholeOk(d, L, created, n), NEW c, c \in Present(d.cat),
           NEW target, NEW e, e = update_table_column_dtype(d, c, target), e.ok
    PROVE  WholeOk(e, L, created, n) /\ StayBut(e.cat, d.cat, {})
           /\ c \in Present(e.cat)
           /\ NoNewWrites(e.changes, d.changes)
<1> DEFINE old == d.cat.cols[c]
           def == [old EXCEPT !.type = target]
<1>1. IsDraft(d) /\ CatOk(d.cat) /\ PartsOk(d, L, created, n)
  BY DEF WholeOk, PartsOk
<1>2. c \in DOMAIN d.cat.cols /\ DefOk(old)
  BY <1>1 DEF Present, CatOk, ColsOk
<1>3. CASE e = d
  BY <1>3 DEF StayBut, NoNewWrites
<1>4. CASE e # d
  <2>1. e = UpdateColumn(d, c, def) /\ target = "bigint"
    BY <1>1, <1>4, FailedNotOk DEF update_table_column_dtype, can_promote_to
  <2>2. /\ def.parent = old.parent /\ def.name = old.name /\ def.type = target /\ def.nullable = old.nullable
        /\ DefOk(def)
    BY <1>2, <2>1 DEF DefOk, Column
  <2>. HIDE DEF def
  <2>3. FitsAt(d.changes, d.cat, c, def)
    BY <1>1, <2>2, SameNameFits
  <2>4. /\ WholeOk(e, L, created, n) /\ StayBut(e.cat, d.cat, {})
        /\ OneMore(e.changes, d.changes, Change("update", c, def))
    BY <2>1, <2>2, <2>3, UpdateWholeOk
  <2>5. c \in Present(e.cat)
    BY <2>4 DEF StayBut
  <2>. QED
    BY <2>4, <2>5 DEF OneMore, Change, WriteKinds, NoNewWrites
<1>. QED
  BY <1>3, <1>4

(* A column that allows NULLs or does not.                                 *)
LEMMA NullabilityOk ==
    ASSUME NEW d, NEW L, NEW created, NEW n, WholeOk(d, L, created, n), NEW c, c \in Present(d.cat),
           NEW nullable, nullable \in BOOLEAN,
           ~ nullable => NoWrites(d.changes) /\ ~ OlderRows(c),
           NEW e, e = update_table_column_nullability(d, c, nullable), e.ok
    PROVE  WholeOk(e, L, created, n) /\ StayBut(e.cat, d.cat, {})
           /\ NoNewWrites(e.changes, d.changes)
<1> DEFINE old == d.cat.cols[c]
           def == [old EXCEPT !.nullable = nullable]
<1>1. IsDraft(d) /\ CatOk(d.cat) /\ PartsOk(d, L, created, n)
  BY DEF WholeOk, PartsOk
<1>2. c \in DOMAIN d.cat.cols /\ DefOk(old)
  BY <1>1 DEF Present, CatOk, ColsOk
<1>3. CASE e = d
  BY <1>3 DEF StayBut, NoNewWrites
<1>4. CASE e # d
  <2>1. e = UpdateColumn(d, c, def) /\ (~ nullable => ~ ContainsNull(c))
    BY <1>1, <1>4, FailedNotOk DEF update_table_column_nullability
  <2>2. /\ def.parent = old.parent /\ def.name = old.name /\ def.type = old.type /\ def.nullable = nullable
        /\ DefOk(def)
    BY <1>2 DEF DefOk, Column
  <2>. HIDE DEF def
  <2>3. ~ nullable => NoNulls(d.changes, c)
    BY <2>1 DEF NoNulls, NoWrites, HoldsNull, ContainsNull, OlderRows
  <2>4. FitsAt(d.changes, d.cat, c, def)
    BY <1>1, <2>2, <2>3, SameNameFits
  <2>5. /\ WholeOk(e, L, created, n) /\ StayBut(e.cat, d.cat, {})
        /\ OneMore(e.changes, d.changes, Change("update", c, def))
    BY <2>1, <2>2, <2>4, UpdateWholeOk
  <2>. QED
    BY <2>5 DEF OneMore, Change, WriteKinds, NoNewWrites
<1>. QED
  BY <1>3, <1>4

\* A column with this name is there.
HasNamed(cat, p, m) == \E y \in Present(cat) : cat.cols[y].parent = p /\ cat.cols[y].name = m

(* It is the one that is found by its name.                                *)
LEMMA NamedFound ==
    ASSUME NEW cat, CatOk(cat), NEW p, NEW m, HasNamed(cat, p, m), NEW c, c = Named(cat, p, m)
    PROVE  c \in Present(cat) /\ cat.cols[c].parent = p /\ cat.cols[c].name = m
<1>1. PICK y \in Present(cat) : cat.cols[y].parent = p /\ cat.cols[y].name = m
  BY DEF HasNamed
<1>2. y \in DOMAIN cat.cols
  BY DEF Present
<1>3. c \in DOMAIN cat.cols /\ cat.cols[c].parent = p /\ cat.cols[c].name = m
  BY <1>1, <1>2 DEF Named
<1>4. c = y
  BY <1>1, <1>2, <1>3 DEF CatOk, ColsOk
<1>. QED
  BY <1>1, <1>3, <1>4

(* Columns that stay keep their names.                                     *)
LEMMA StaysNamed ==
    ASSUME NEW cat, NEW cat2, NEW S, StayBut(cat2, cat, S), NEW p, NEW m, HasNamed(cat, p, m),
           \A y \in S : y \in Present(cat) => ~ (cat.cols[y].parent = p /\ cat.cols[y].name = m)
    PROVE  HasNamed(cat2, p, m)
BY DEF HasNamed, StayBut

\* Between two steps of a merge below p: the names in rest are still to come.
Merging(d, L, created, n, p, old, rest) ==
    /\ WholeOk(d, L, created, n)
    /\ p # 0 => IsRoot(d.cat, p)
    /\ \A m \in old \intersect rest : HasNamed(d.cat, p, m)

(* One step of a merge may drop the column with its name, and no other.    *)
LEMMA MergedOne ==
    ASSUME NEW d, NEW L, NEW created, NEW n, NEW p, NEW old, NEW m, NEW rest, m \notin rest,
           Merging(d, L, created, n, p, old, {m} \union rest), NEW e, WholeOk(e, L, created, n),
           NEW S, StayBut(e.cat, d.cat, S),
           \A y \in S : y \in Present(d.cat) =>
               d.cat.cols[y].parent # p \/ d.cat.cols[y].name = m, p \notin S
    PROVE  Merging(e, L, created, n, p, old, rest)
<1>1. ASSUME NEW k \in old \intersect rest PROVE HasNamed(e.cat, p, k)
  <2>1. HasNamed(d.cat, p, k) /\ k # m
    BY DEF Merging
  <2>2. \A y \in S : y \in Present(d.cat) => ~ (d.cat.cols[y].parent = p /\ d.cat.cols[y].name = k)
    BY <2>1
  <2>. QED
    BY <2>1, <2>2, StaysNamed
<1>2. p # 0 => IsRoot(e.cat, p)
  BY DEF Merging, StayBut, IsRoot
<1>. QED
  BY <1>1, <1>2 DEF Merging

(* It may drop none.                                                       *)
LEMMA MergedKeeping ==
    ASSUME NEW d, NEW L, NEW created, NEW n, NEW p, NEW old, NEW m, NEW rest, m \notin rest,
           Merging(d, L, created, n, p, old, {m} \union rest), NEW e, WholeOk(e, L, created, n),
           StayBut(e.cat, d.cat, {})
    PROVE  Merging(e, L, created, n, p, old, rest)
<1> DEFINE S == {}
<1>1. StayBut(e.cat, d.cat, S) /\ p \notin S
  OBVIOUS
<1>2. \A y \in S : y \in Present(d.cat) => d.cat.cols[y].parent # p \/ d.cat.cols[y].name = m
  OBVIOUS
<1>. HIDE DEF S
<1>. QED
  BY <1>1, <1>2, MergedOne

(* One step of update_struct.                                              *)
LEMMA FieldMerged ==
    ASSUME NEW d, NEW L, NEW created, NEW n, NEW c, c # 0, NEW fields, NEW old,
           NEW m, NEW rest, m \notin rest,
           Merging(d, L, created, n, c, old, {m} \union rest),
           \A k \in DOMAIN fields : fields[k] # "struct",
           NEW e, e = Then(d, merge_field(d, c, fields, old, m)), e.ok
    PROVE  Merging(e, L, created, n, c, old, rest)
<1>1. WholeOk(d, L, created, n) /\ IsDraft(d) /\ CatOk(d.cat) /\ IsRoot(d.cat, c)
  BY DEF Merging, WholeOk, PartsOk
<1>2. e = merge_field(d, c, fields, old, m)
  BY <1>1 DEF Then, IsDraft
<1> DEFINE y == Named(d.cat, c, m)
<1>3. m \in old => y \in Present(d.cat) /\ d.cat.cols[y].parent = c /\ d.cat.cols[y].name = m
  <2>1. m \in old => HasNamed(d.cat, c, m)
    BY DEF Merging
  <2>. QED
    BY <1>1, <2>1, NamedFound
<1>. HIDE DEF y
<1>4. CASE m \in old /\ m \in DOMAIN fields
  <2>1. e = update_table_column_dtype(d, y, fields[m])
    BY <1>2, <1>4 DEF merge_field, y
  <2>2. WholeOk(e, L, created, n) /\ StayBut(e.cat, d.cat, {})
    BY <1>1, <1>3, <1>4, <2>1, DtypeOk
  <2>. QED
    BY <2>2, MergedKeeping
<1>5. CASE m \in old /\ m \notin DOMAIN fields
  <2>1. e = remove_table_column(d, y)
    BY <1>2, <1>5 DEF merge_field, y
  <2>2. WholeOk(e, L, created, n) /\ StayBut(e.cat, d.cat, Subtree(d.cat, y))
    BY <1>1, <1>3, <1>5, <2>1, RemoveOk
  <2>3. Subtree(d.cat, y) = {y}
    <3>1. \A x \in DOMAIN d.cat.cols : d.cat.cols[x].parent # 0 =>
             d.cat.cols[d.cat.cols[x].parent].parent = 0
      BY <1>1 DEF CatOk, ColsOk
    <3>2. y \in DOMAIN d.cat.cols /\ y # 0 /\ d.cat.cols[y].parent # 0
      BY <1>1, <1>3, <1>5 DEF Present, CatOk, ColsOk
    <3>. QED
      BY <3>1, <3>2 DEF Subtree, Fields
  <2>4. c # y
    BY <1>1, <1>3, <1>5 DEF IsRoot
  <2>5. StayBut(e.cat, d.cat, {y})
    BY <2>2, <2>3
  <2>6. \A x \in {y} : x \in Present(d.cat) => d.cat.cols[x].parent # c \/ d.cat.cols[x].name = m
    BY <1>3, <1>5
  <2>7. c \notin {y}
    BY <2>4
  <2>. QED
    BY <2>2, <2>5, <2>6, <2>7, MergedOne
<1>6. CASE m \notin old /\ m \in DOMAIN fields
  <2>1. e = add_table_column(d, c, m, fields[m], TRUE)
    BY <1>2, <1>6 DEF merge_field
  <2>2. WholeOk(e, L, created, n) /\ StayBut(e.cat, d.cat, {})
    BY <1>1, <1>6, <2>1, AddColumnOk
  <2>. QED
    BY <2>2, MergedKeeping
<1>7. CASE m \notin old /\ m \notin DOMAIN fields
  <2>1. e = d
    BY <1>2, <1>7 DEF merge_field
  <2>. QED
    BY <2>1 DEF Merging
<1>. QED
  BY <1>4, <1>5, <1>6, <1>7

(* All of update_struct.                                                   *)
LEMMA StructOk ==
    ASSUME NEW d, NEW L, NEW created, NEW n, WholeOk(d, L, created, n),
           NEW c, IsRoot(d.cat, c), \A y \in Fields(d.cat, c) : y \in Present(d.cat),
           NEW fields, \A k \in DOMAIN fields : fields[k] # "struct",
           NEW e, e = update_struct(d, c, fields), e.ok
    PROVE  WholeOk(e, L, created, n)
<1> DEFINE old == NamesOf(d.cat, Fields(d.cat, c))
           step(x, m) == Then(x, merge_field(x, c, fields, old, m))
           d1 == step(d, "a")
           d2 == step(d1, "b")
<1>1. e = step(d2, "c")
  BY DEF update_struct
<1>2. c # 0
  BY DEF WholeOk, PartsOk, CatOk, ColsOk, IsRoot, Present
<1>3. Merging(d, L, created, n, c, old, {"a"} \union {"b", "c"})
  BY DEF Merging, HasNamed, NamesOf, Fields
<1>. HIDE DEF old
<1>4. d2.ok
  BY <1>1 DEF Then
<1>5. d1.ok
  BY <1>4 DEF Then
<1>6. Merging(d1, L, created, n, c, old, {"b", "c"})
  BY <1>2, <1>3, <1>5, FieldMerged
<1>7. Merging(d1, L, created, n, c, old, {"b"} \union {"c"})
  <2>1. {"b", "c"} = {"b"} \union {"c"}
    OBVIOUS
  <2>. QED
    BY <1>6, <2>1
<1>. HIDE DEF d1
<1>8. Merging(d2, L, created, n, c, old, {"c"})
  BY <1>2, <1>4, <1>7, FieldMerged
<1>9. Merging(d2, L, created, n, c, old, {"c"} \union {})
  <2>1. {"c"} = {"c"} \union {}
    OBVIOUS
  <2>. QED
    BY <1>8, <2>1
<1>. HIDE DEF d2
<1>10. Merging(e, L, created, n, c, old, {})
  BY <1>1, <1>2, <1>9, FieldMerged
<1>. QED
  BY <1>10 DEF Merging

(* A default value that is set.                                            *)
LEMMA DefaultOk ==
    ASSUME NEW d, NEW L, NEW created, NEW n, WholeOk(d, L, created, n), NEW c, c \in Present(d.cat),
           NEW e, e = SetDefault(d, c)
    PROVE  /\ WholeOk(e, L, created, n) /\ StayBut(e.cat, d.cat, {}) /\ c \in Present(e.cat)
           /\ NoNewWrites(e.changes, d.changes)
<1> DEFINE def == d.cat.cols[c]
<1>1. CatOk(d.cat) /\ DefOk(def)
  BY DEF WholeOk, PartsOk, CatOk, ColsOk, Present
<1>2. FitsAt(d.changes, d.cat, c, def)
  BY <1>1, SameNameFits
<1>3. e = UpdateColumn(d, c, def)
  BY DEF SetDefault
<1>4. /\ WholeOk(e, L, created, n) /\ StayBut(e.cat, d.cat, {})
      /\ OneMore(e.changes, d.changes, Change("update", c, def))
  BY <1>2, <1>3, UpdateWholeOk
<1>5. c \in Present(e.cat)
  BY <1>4 DEF StayBut
<1>. QED
  BY <1>4, <1>5 DEF OneMore, Change, WriteKinds, NoNewWrites

(* Several steps after one another.                                        *)
LEMMA StayTwice ==
    ASSUME NEW cat, NEW cat2, NEW cat3, StayBut(cat2, cat, {}), StayBut(cat3, cat2, {})
    PROVE  StayBut(cat3, cat, {})
BY DEF StayBut

(* The same for the writes.                                                *)
LEMMA NoWritesKept ==
    ASSUME NEW new, NEW cs, NoNewWrites(new, cs), NoWrites(cs)
    PROVE  NoWrites(new)
BY DEF NoNewWrites, NoWrites

\* When the table has rows, the root columns with these names are there and are
\* in all of them.
Covered(cat, names) ==
    table.data # {} => \A k \in names : \E y \in Present(cat) :
        cat.cols[y].parent = 0 /\ cat.cols[y].name = k /\ ~ OlderRows(y)

\* What a call that disallows NULL needs for the columns it still has to do.
Disallows(nullable, d, names) == ~ nullable => NoWrites(d.changes) /\ Covered(d.cat, names)

(* It is still there after a change of a column with another name.         *)
LEMMA StaysCovered ==
    ASSUME NEW cat, NEW cat2, NEW K, NEW S, Covered(cat, K), StayBut(cat2, cat, S), NEW K2, K2 \subseteq K,
           \A y \in S : y \in Present(cat) => cat.cols[y].parent # 0 \/ cat.cols[y].name \notin K2
    PROVE  Covered(cat2, K2)
BY DEF Covered, StayBut

LEMMA StillDisallows ==
    ASSUME NEW d, NEW e, NEW nullable, NEW K, Disallows(nullable, d, K), NEW K2, K2 \subseteq K,
           NEW S, StayBut(e.cat, d.cat, S), NoNewWrites(e.changes, d.changes),
           \A y \in S : y \in Present(d.cat) => d.cat.cols[y].parent # 0 \/ d.cat.cols[y].name \notin K2
    PROVE  Disallows(nullable, e, K2)
BY StaysCovered, NoWritesKept DEF Disallows

(* One step of update_table_schema.                                        *)
LEMMA ColumnMerged ==
    ASSUME NEW d, NEW L, NEW created, NEW n, NEW columns, NEW old,
           NEW m, NEW rest, m \notin rest, NEW nullable, nullable \in BOOLEAN,
           Merging(d, L, created, n, 0, old, {m} \union rest),
           Disallows(nullable, d, DOMAIN columns \intersect ({m} \union rest)),
           \A k \in DOMAIN columns : columns[k].nullable = nullable /\ k # Unsorted,
           NEW e, e = Then(d, merge_column(d, columns, old, m)), e.ok
    PROVE  Merging(e, L, created, n, 0, old, rest) /\ Disallows(nullable, e, DOMAIN columns \intersect rest)
<1> DEFINE K == DOMAIN columns \intersect ({m} \union rest)
           K2 == DOMAIN columns \intersect rest
<1>1. WholeOk(d, L, created, n) /\ IsDraft(d) /\ CatOk(d.cat) /\ Disallows(nullable, d, K) /\ K2 \subseteq K
  BY DEF Merging, WholeOk, PartsOk
<1>2. e = merge_column(d, columns, old, m)
  BY <1>1 DEF Then, IsDraft
<1> DEFINE y == Named(d.cat, 0, m)
<1>3. m \in old => y \in Present(d.cat) /\ d.cat.cols[y].parent = 0 /\ d.cat.cols[y].name = m
  <2>1. m \in old => HasNamed(d.cat, 0, m)
    BY DEF Merging
  <2>. QED
    BY <1>1, <2>1, NamedFound
<1>. HIDE DEF y
<1>4. CASE m \in old /\ m \in DOMAIN columns
  <2> DEFINE f == update_table_column_dtype(d, y, columns[m].type)
             g == SetDefault(f, y)
  <2>1. e = Then(f, update_table_column_nullability(g, y, columns[m].nullable))
    BY <1>2, <1>4 DEF merge_column, y
  <2>2. f.ok
    BY <2>1 DEF Then
  <2>3. e = update_table_column_nullability(g, y, columns[m].nullable) /\ columns[m].nullable = nullable
    BY <1>4, <2>1, <2>2 DEF Then
  <2>4. /\ WholeOk(f, L, created, n) /\ StayBut(f.cat, d.cat, {}) /\ y \in Present(f.cat)
        /\ NoNewWrites(f.changes, d.changes)
    BY <1>1, <1>3, <1>4, <2>2, DtypeOk
  <2>. HIDE DEF f
  <2>5. /\ WholeOk(g, L, created, n) /\ StayBut(g.cat, f.cat, {}) /\ y \in Present(g.cat)
        /\ NoNewWrites(g.changes, f.changes)
    BY <2>4, DefaultOk
  <2>. HIDE DEF g
  <2>6. ~ nullable => NoWrites(g.changes) /\ ~ OlderRows(y)
    <3>1. Disallows(nullable, f, K)
      BY <1>1, <2>4, StillDisallows
    <3>2. Disallows(nullable, g, K)
      BY <2>5, <3>1, StillDisallows
    <3>3. m \in K
      BY <1>4
    <3>4. ~ nullable /\ table.data # {} => ~ OlderRows(y)
      <4>1. CatOk(d.cat) /\ (~ nullable => Covered(d.cat, K))
        BY <1>1 DEF Disallows
      <4>2. \A x \in Present(d.cat) : d.cat.cols[x].parent = 0 /\ d.cat.cols[x].name = m => x = y
        BY <1>3, <1>4, <4>1 DEF CatOk, ColsOk, Present
      <4>. QED
        BY <3>3, <4>1, <4>2 DEF Covered
    <3>. QED
      BY <3>2, <3>4 DEF Disallows, OlderRows
  <2>7. WholeOk(e, L, created, n) /\ StayBut(e.cat, g.cat, {}) /\ NoNewWrites(e.changes, g.changes)
    BY <2>3, <2>5, <2>6, NullabilityOk
  <2>8. StayBut(e.cat, d.cat, {})
    BY <2>4, <2>5, <2>7, StayTwice
  <2>9. Disallows(nullable, e, K2)
    <3>1. NoNewWrites(e.changes, d.changes)
      BY <2>4, <2>5, <2>7 DEF NoNewWrites
    <3>. QED
      BY <1>1, <2>8, <3>1, StillDisallows
  <2>. QED
    BY <2>7, <2>8, <2>9, MergedKeeping
<1>5. CASE m \in old /\ m \notin DOMAIN columns
  <2>1. e = remove_table_column(d, y)
    BY <1>2, <1>5 DEF merge_column, y
  <2> DEFINE S == Subtree(d.cat, y)
  <2>2. WholeOk(e, L, created, n) /\ StayBut(e.cat, d.cat, S) /\ NoNewWrites(e.changes, d.changes)
    BY <1>1, <1>3, <1>5, <2>1, RemoveOk
  <2>3. y \in DOMAIN d.cat.cols /\ y # 0 /\ 0 \notin DOMAIN d.cat.cols
    BY <1>1, <1>3, <1>5 DEF Present, CatOk, ColsOk
  <2>4. \A x \in S : x \in Present(d.cat) => d.cat.cols[x].parent # 0 \/ d.cat.cols[x].name = m
    BY <1>3, <1>5, <2>3 DEF Subtree, Fields
  <2>5. 0 \notin S
    BY <2>3 DEF Subtree, Fields
  <2>. HIDE DEF S
  <2>6. Disallows(nullable, e, K2)
    <3>1. m \notin K2
      OBVIOUS
    <3>. QED
      BY <1>1, <2>2, <2>4, <3>1, StillDisallows
  <2>. QED
    BY <2>2, <2>4, <2>5, <2>6, MergedOne
<1>6. CASE m \notin old /\ m \in DOMAIN columns
  <2>1. e = add_table_column(d, 0, m, columns[m].type, columns[m].nullable)
    BY <1>2, <1>6 DEF merge_column
  <2>4. ~ NameTaken(d.cat, 0, m)
    BY <1>1, <2>1, FailedNotOk DEF add_table_column
  <2>5. ~ nullable => table.data = {} /\ NoWrites(d.changes)
    BY <1>1, <1>6, <2>4 DEF Disallows, Covered, NameTaken, Present
  <2>2. WholeOk(e, L, created, n) /\ StayBut(e.cat, d.cat, {}) /\ NoNewWrites(e.changes, d.changes)
    BY <1>1, <1>6, <2>1, <2>5, AddColumnOk
  <2>3. Disallows(nullable, e, K2)
    BY <1>1, <2>2, StillDisallows
  <2>. QED
    BY <2>2, <2>3, MergedKeeping
<1>7. CASE m \notin old /\ m \notin DOMAIN columns
  <2>1. e = d
    BY <1>2, <1>7 DEF merge_column
  <2>2. Disallows(nullable, e, K2)
    BY <1>1, <2>1 DEF Disallows, Covered
  <2>. QED
    BY <2>1, <2>2 DEF Merging
<1>. QED
  BY <1>4, <1>5, <1>6, <1>7

(* All of update_table_schema.                                             *)
LEMMA SchemaOk ==
    ASSUME NEW d, NEW L, NEW created, NEW n, WholeOk(d, L, created, n),
           NEW columns, NEW nullable, nullable \in BOOLEAN, Disallows(nullable, d, DOMAIN columns),
           \A k \in DOMAIN columns : columns[k].nullable = nullable /\ k # Unsorted,
           NEW e, e = update_table_schema(d, columns), e.ok
    PROVE  WholeOk(e, L, created, n)
<1> DEFINE old == NamesOf(d.cat, Roots(d.cat) \intersect Present(d.cat))
           step(x, m) == Then(x, merge_column(x, columns, old, m))
           d1 == step(d, "a")
           d2 == step(d1, "b")
<1>1. e = step(d2, "c")
  BY DEF update_table_schema
<1>3. /\ Merging(d, L, created, n, 0, old, {"a"} \union {"b", "c"})
      /\ Disallows(nullable, d, DOMAIN columns \intersect ({"a"} \union {"b", "c"}))
  BY DEF Merging, HasNamed, NamesOf, Roots, Disallows, Covered
<1>. HIDE DEF old
<1>4. d2.ok
  BY <1>1 DEF Then
<1>5. d1.ok
  BY <1>4 DEF Then
<1>6. Merging(d1, L, created, n, 0, old, {"b", "c"}) /\ Disallows(nullable, d1, DOMAIN columns \intersect {"b", "c"})
  <2> DEFINE rest == {"b", "c"}
  <2>1. d1 = Then(d, merge_column(d, columns, old, "a")) /\ "a" \notin rest
    OBVIOUS
  <2>. HIDE DEF d1, rest
  <2>2. Merging(d, L, created, n, 0, old, {"a"} \union rest)
    BY <1>3 DEF rest
  <2>3. Disallows(nullable, d, DOMAIN columns \intersect ({"a"} \union rest))
    BY <1>3 DEF rest
  <2>4. Merging(d1, L, created, n, 0, old, rest) /\ Disallows(nullable, d1, DOMAIN columns \intersect rest)
    BY <1>5, <2>1, <2>2, <2>3, ColumnMerged
  <2>. QED
    BY <2>4 DEF rest
<1>7. Merging(d1, L, created, n, 0, old, {"b"} \union {"c"}) /\ Disallows(nullable, d1, DOMAIN columns \intersect ({"b"} \union {"c"}))
  <2>1. {"b", "c"} = {"b"} \union {"c"}
    OBVIOUS
  <2>. QED
    BY <1>6, <2>1
<1>. HIDE DEF d1
<1>8. Merging(d2, L, created, n, 0, old, {"c"}) /\ Disallows(nullable, d2, DOMAIN columns \intersect {"c"})
  BY <1>4, <1>7, ColumnMerged
<1>9. Merging(d2, L, created, n, 0, old, {"c"} \union {}) /\ Disallows(nullable, d2, DOMAIN columns \intersect ({"c"} \union {}))
  <2>1. {"c"} = {"c"} \union {}
    OBVIOUS
  <2>. QED
    BY <1>8, <2>1
<1>. HIDE DEF d2
<1>10. Merging(e, L, created, n, 0, old, {})
  BY <1>1, <1>9, ColumnMerged
<1>. QED
  BY <1>10 DEF Merging

-----------------------------------------------------------------------------
(* The other calls.                                                        *)

\* What holds after any change that is not about columns.
OtherOk(e, d, ch, cat, L, created, n) ==
    /\ IsDraft(e) /\ e.cat = cat /\ OneMore(e.changes, d.changes, ch)
    /\ ListOk(e.changes, created) /\ IdsOk(cat) /\ ColumnsOk(e.changes, cat, L)
    /\ SameFirst(e.changes, d.changes, created)
    /\ SortOk(e.changes, cat, L, created)
    /\ ch.op \notin {"partition", "files"} => PartOk(e.changes, cat, L, created)
    /\ ch.op \notin {"tag", "untag"} => TagsOk(e.changes, cat, L, created)
    /\ ch.op \notin WriteKinds => WritesOk(e.changes, n) /\ NotNullOk(e.changes, cat)

(* Such a change leaves the columns alone.                                 *)
LEMMA OtherChange ==
    ASSUME NEW d, NEW L, NEW created, NEW n, WholeOk(d, L, created, n),
           NEW cat, cat.cols = d.cat.cols, cat.gone = d.cat.gone, cat.next = d.cat.next, cat.sort = d.cat.sort,
           NEW ch, ShapeOk(ch), ch.op \in {"partition", "tag", "untag", "files", "inline"},
           ch.op # "partition" => cat.part = d.cat.part,
           ch.op \notin {"tag", "untag"} => cat.tags = d.cat.tags,
           NEW e, e = Push(d, cat, <<ch>>)
    PROVE  OtherOk(e, d, ch, cat, L, created, n)
<1> DEFINE cs == d.changes
<1>2. PartsOk(d, L, created, n) /\ IsDraft(d)
  BY DEF WholeOk, PartsOk
<1>3. IsDraft(e) /\ e.cat = cat /\ OneMore(e.changes, cs, ch)
  BY <1>2, PushedOne
<1>4. Kept(e.changes, cs, <<ch>>) /\ DOMAIN <<ch>> = {1} /\ <<ch>>[1] = ch
  BY <1>3, OneChange DEF OneMore
<1>7. ListOk(e.changes, created)
  BY <1>2, <1>4, KeepList DEF PartsOk
<1>8. IdsOk(cat)
  BY <1>2, SameNext DEF PartsOk
<1>9. ColumnsOk(e.changes, cat, L)
  <2>1. NoOps(<<ch>>, {"create", "add", "update", "remove"})
    BY <1>4 DEF NoOps
  <2>. QED
    BY <1>2, <1>4, <2>1, KeepColumns DEF PartsOk
<1>10. SameFirst(e.changes, cs, created)
  BY <1>2, <1>4, KeepFirst DEF PartsOk
<1>11. ch.op \notin {"partition", "files"} => PartOk(e.changes, cat, L, created)
  <2>1. ch.op \notin {"partition", "files"} => NoOps(<<ch>>, {"partition", "files"})
    BY <1>4 DEF NoOps
  <2>. QED
    BY <1>2, <1>4, <1>10, <2>1, KeepPart DEF PartsOk
<1>12. ch.op \notin {"tag", "untag"} => TagsOk(e.changes, cat, L, created)
  <2> SUFFICES ASSUME ch.op \notin {"tag", "untag"}, NEW o PROVE TagOk(e.changes, cat, L, created, o)
    BY DEF TagsOk
  <2>1. SameAt(cat.tags, d.cat.tags, o) /\ TagOk(cs, d.cat, L, created, o)
    BY <1>2 DEF SameAt, PartsOk, TagsOk
  <2>. QED
    BY <1>4, <1>10, <2>1, KeepTags
<1>13. ch.op \notin WriteKinds => NoOps(<<ch>>, WriteKinds)
  BY <1>4 DEF NoOps
<1>14. ch.op \notin WriteKinds => WritesOk(e.changes, n)
  BY <1>2, <1>4, <1>13, KeepWrites DEF PartsOk
<1>15. ch.op \notin WriteKinds => NotNullOk(e.changes, cat)
  BY <1>2, <1>4, <1>13, KeepNulls DEF PartsOk
<1>16. SortOk(e.changes, cat, L, created)
  <2>1. NoOps(<<ch>>, {"sort"})
    BY <1>4 DEF NoOps
  <2>2. SortName(cat) = SortName(d.cat)
    BY DEF SortName
  <2>. QED
    BY <1>4, <1>10, <2>1, <2>2, KeepSort DEF WholeOk
<1>. QED
  BY <1>3, <1>7, <1>8, <1>9, <1>10, <1>11, <1>12, <1>14, <1>15, <1>16 DEF OtherOk

(* A new partitioning.                                                     *)
LEMMA PartitioningOk ==
    ASSUME NEW d, NEW L, NEW created, NEW n, WholeOk(d, L, created, n),
           NEW cols, \A c \in cols : IsRoot(d.cat, c),
           created => d.changes[1].val.part = {},
           \A i \in DOMAIN d.changes : d.changes[i].op = "files" => d.changes[i].val.part = {},
           NEW e, e = update_table_partitioning(d, cols)
    PROVE  WholeOk(e, L, created, n)
<1> DEFINE ch == Change("partition", 0, cols)
           cat == [d.cat EXCEPT !.part = [id |-> 0, cols |-> cols]]
<1>1. ch.op = "partition" /\ ch.key = 0 /\ ch.val = cols /\ ShapeOk(ch)
  BY DEF Change, ShapeOk, ChangeOps
<1>2. e = Push(d, cat, <<ch>>)
  BY DEF update_table_partitioning
<1>3. CatOk(d.cat) /\ PartsOk(d, L, created, n)
  BY DEF WholeOk, PartsOk
<1>4. /\ DOMAIN cat = CatFields /\ cat.cols = d.cat.cols /\ cat.gone = d.cat.gone /\ cat.next = d.cat.next
      /\ cat.sort = d.cat.sort /\ cat.tags = d.cat.tags
      /\ cat.part.id = 0 /\ cat.part.cols = cols /\ DOMAIN cat.part = {"id", "cols"}
  BY <1>3 DEF CatOk, CatFields
<1>. HIDE DEF ch, cat
<1>5. \A x : IsRoot(d.cat, x) => IsRoot(cat, x)
  BY <1>4 DEF IsRoot, Present
<1>6. CatOk(cat)
  <2>1. ColsOk(cat)
    BY <1>3, <1>4 DEF CatOk, ColsOk
  <2>2. KeysOk(cat)
    BY <1>3, <1>4, <1>5 DEF CatOk, KeysOk
  <2>. QED
    BY <1>4, <2>1, <2>2 DEF CatOk
<1>7. OtherOk(e, d, ch, cat, L, created, n)
  BY <1>1, <1>2, <1>4, OtherChange
<1>8. OneMore(e.changes, d.changes, ch) /\ SameFirst(e.changes, d.changes, created)
  BY <1>7 DEF OtherOk
<1>9. PartOk(e.changes, cat, L, created)
  <2>1. Grown(e.changes, d.changes, "partition", 0)
    BY <1>1, <1>8, AtGrown
  <2>2. e.changes[Len(d.changes) + 1].val = cat.part.cols
    BY <1>1, <1>4, <1>8 DEF OneMore
  <2>3. created => e.changes[1].val.part = {}
    BY <1>8 DEF SameFirst
  <2>4. \A i \in DOMAIN e.changes : e.changes[i].op = "files" => e.changes[i].val.part = {}
    BY <1>1, <1>8 DEF OneMore
  <2>. QED
    BY <1>4, <2>1, <2>2, <2>3, <2>4 DEF PartOk, Grown
<1>. QED
  BY <1>1, <1>6, <1>7, <1>9 DEF OtherOk, WholeOk, PartsOk, WriteKinds

(* A new sort order.                                                       *)
LEMMA SortInfoOk ==
    ASSUME NEW d, NEW L, NEW created, NEW n, WholeOk(d, L, created, n),
           NEW c, c # 0 => IsRoot(d.cat, c), NEW e, e = update_table_sort_info(d, c)
    PROVE  WholeOk(e, L, created, n)
<1> DEFINE cat == [d.cat EXCEPT !.sort = c]
<1>1. e = Push(d, cat, <<Change("sort", 0, SortName(cat))>>)
  BY DEF update_table_sort_info
<1>2. CatOk(d.cat) /\ PartsOk(d, L, created, n)
  BY DEF WholeOk, PartsOk
<1>3. /\ DOMAIN cat = CatFields /\ cat.cols = d.cat.cols /\ cat.gone = d.cat.gone /\ cat.next = d.cat.next
      /\ cat.sort = c /\ cat.tags = d.cat.tags /\ cat.part = d.cat.part
  BY <1>2 DEF CatOk, CatFields
<1>. HIDE DEF cat
<1>4. \A x : IsRoot(d.cat, x) => IsRoot(cat, x)
  BY <1>3 DEF IsRoot, Present
<1>5. CatOk(cat)
  <2>1. ColsOk(cat)
    BY <1>2, <1>3 DEF CatOk, ColsOk
  <2>2. KeysOk(cat)
    BY <1>2, <1>3, <1>4 DEF CatOk, KeysOk
  <2>. QED
    BY <1>3, <2>1, <2>2 DEF CatOk
<1>. QED
  BY <1>1, <1>2, <1>3, <1>5, SortChangeOk

(* A tag that is set or removed: what the last edit says holds.            *)
LEMMA TagEditOk ==
    ASSUME NEW d, NEW L, NEW created, NEW n, WholeOk(d, L, created, n), NEW o, NEW op, op \in {"tag", "untag"},
           NEW val, NEW cat, DOMAIN cat = CatFields, cat.cols = d.cat.cols, cat.gone = d.cat.gone,
           cat.next = d.cat.next, cat.sort = d.cat.sort, cat.part = d.cat.part,
           \A x : x # o => SameAt(cat.tags, d.cat.tags, x),
           o \in DOMAIN cat.tags <=> op = "tag", op = "tag" => cat.tags[o] = val,
           NEW e, e = Push(d, cat, <<Change(op, o, val)>>)
    PROVE  WholeOk(e, L, created, n)
<1> DEFINE ch == Change(op, o, val)
           cs == d.changes
<1>1. ch.op = op /\ ch.key = o /\ ch.val = val /\ ShapeOk(ch)
  BY DEF Change, ShapeOk, ChangeOps
<1>. HIDE DEF ch
<1>2. CatOk(d.cat) /\ PartsOk(d, L, created, n) /\ e = Push(d, cat, <<ch>>)
  BY DEF WholeOk, PartsOk, ch
<1>3. CatOk(cat)
  <2>1. ColsOk(cat)
    BY <1>2 DEF CatOk, ColsOk
  <2>2. KeysOk(cat)
    BY <1>2 DEF CatOk, KeysOk, IsRoot, Present
  <2>. QED
    BY <2>1, <2>2 DEF CatOk
<1>4. OtherOk(e, d, ch, cat, L, created, n)
  BY <1>1, <1>2, OtherChange
<1>5. OneMore(e.changes, cs, ch) /\ SameFirst(e.changes, cs, created)
  BY <1>4 DEF OtherOk
<1>6. Kept(e.changes, cs, <<ch>>) /\ DOMAIN <<ch>> = {1} /\ <<ch>>[1] = ch
  BY <1>5, OneChange DEF OneMore
<1>7. TagsOk(e.changes, cat, L, created)
  <2> SUFFICES ASSUME NEW x PROVE TagOk(e.changes, cat, L, created, x)
    BY DEF TagsOk
  <2>1. TagOk(cs, d.cat, L, created, x)
    BY <1>2 DEF PartsOk, TagsOk
  <2>2. CASE x # o
    BY <1>1, <1>5, <1>6, <2>1, <2>2, KeepTags
  <2>3. CASE x = o
    <3>1. EditsOf(e.changes, x) = EditsOf(cs, x) \union {Len(cs) + 1}
      BY <1>1, <1>5, <2>3 DEF OneMore, EditsOf, At
    <3>2. \A i \in EditsOf(cs, x) : i \in Nat /\ i < Len(cs) + 1
      BY <1>5 DEF OneMore, EditsOf, At
    <3>3. Len(cs) + 1 \in Nat
      BY <1>5 DEF OneMore
    <3>4. ASSUME NEW i, IsLast(i, EditsOf(e.changes, x)) PROVE i = Len(cs) + 1
      <4>1. i \in EditsOf(e.changes, x) /\ Len(cs) + 1 <= i
        BY <3>1, <3>4 DEF IsLast
      <4>2. CASE i \in EditsOf(cs, x)
        <5>1. i \in Nat /\ i < Len(cs) + 1
          BY <3>2, <4>2
        <5>. QED
          BY <3>3, <4>1, <5>1
      <4>. QED
        BY <3>1, <4>1, <4>2
    <3>5. e.changes[Len(cs) + 1] = ch
      BY <1>5 DEF OneMore
    <3>. QED
      BY <1>1, <2>3, <3>1, <3>4, <3>5 DEF TagOk
  <2>. QED
    BY <2>2, <2>3
<1>. QED
  BY <1>1, <1>3, <1>4, <1>7 DEF OtherOk, WholeOk, PartsOk, WriteKinds

(* Setting a tag.                                                          *)
LEMMA AddTagOk ==
    ASSUME NEW d, NEW L, NEW created, NEW n, WholeOk(d, L, created, n), NEW o, NEW value,
           NEW e, e = add_tag(d, o, value)
    PROVE  WholeOk(e, L, created, n)
<1> DEFINE tags == Merged(d.cat.tags, [x \in {o} |-> value])
           cat == [d.cat EXCEPT !.tags = tags]
<1>1. e = Push(d, cat, <<Change("tag", o, value)>>)
  BY DEF add_tag
<1>2. CatOk(d.cat)
  BY DEF WholeOk, PartsOk
<1>3. o \in DOMAIN tags /\ tags[o] = value /\ \A x : x # o => SameAt(tags, d.cat.tags, x)
  BY DEF Merged, SameAt
<1>. HIDE DEF tags
<1>4. /\ DOMAIN cat = CatFields /\ cat.cols = d.cat.cols /\ cat.gone = d.cat.gone /\ cat.next = d.cat.next
      /\ cat.sort = d.cat.sort /\ cat.part = d.cat.part /\ cat.tags = tags
  BY <1>2 DEF CatOk, CatFields
<1>. HIDE DEF cat
<1>. QED
  BY <1>1, <1>3, <1>4, TagEditOk

(* Removing a tag.                                                         *)
LEMMA RemoveTagOk ==
    ASSUME NEW d, NEW L, NEW created, NEW n, WholeOk(d, L, created, n), NEW o,
           NEW e, e = remove_tag(d, o), e.ok
    PROVE  WholeOk(e, L, created, n)
<1> DEFINE tags == Only(d.cat.tags, DOMAIN d.cat.tags \ {o})
           cat == [d.cat EXCEPT !.tags = tags]
<1>0. CatOk(d.cat) /\ IsDraft(d)
  BY DEF WholeOk, PartsOk
<1>1. e = Push(d, cat, <<Change("untag", o, 0)>>)
  BY <1>0, FailedNotOk DEF remove_tag
<1>3. o \notin DOMAIN tags /\ \A x : x # o => SameAt(tags, d.cat.tags, x)
  BY DEF Only, SameAt
<1>. HIDE DEF tags
<1>4. /\ DOMAIN cat = CatFields /\ cat.cols = d.cat.cols /\ cat.gone = d.cat.gone /\ cat.next = d.cat.next
      /\ cat.sort = d.cat.sort /\ cat.part = d.cat.part /\ cat.tags = tags
  BY <1>0 DEF CatOk, CatFields
<1>. HIDE DEF cat
<1>. QED
  BY <1>1, <1>3, <1>4, TagEditOk

(* A write.                                                                *)
LEMMA WriteOk ==
    ASSUME NEW d, NEW L, NEW created, NEW n, n \in Nat, WholeOk(d, L, created, n),
           NEW ch, ShapeOk(ch), ch.op \in WriteKinds,
           ch.op = "files" => ch.key = n + 1, ch.op = "inline" => ch.key = 0,
           ch.op = "inline" => \A i \in DOMAIN d.changes : d.changes[i].op # "inline",
           ch.op = "files" => ch.val.part \in {{}, d.cat.part.cols},
           ch.val.nulls \subseteq DOMAIN d.cat.cols, ch.val.cols = DOMAIN d.cat.cols, NullsAllowed(d.cat, ch.val.nulls),
           NEW e, e = Push(d, d.cat, <<ch>>)
    PROVE  WholeOk(e, L, created, n + 1)
<1> DEFINE cs == d.changes
           cat == d.cat
<1>1. CatOk(cat) /\ PartsOk(d, L, created, n)
  BY DEF WholeOk, PartsOk
<1>2. OtherOk(e, d, ch, cat, L, created, n)
  BY OtherChange DEF WriteKinds
<1>3. OneMore(e.changes, cs, ch) /\ SameFirst(e.changes, cs, created)
  BY <1>2 DEF OtherOk
<1>4. Kept(e.changes, cs, <<ch>>) /\ DOMAIN <<ch>> = {1} /\ <<ch>>[1] = ch
  BY <1>3, OneChange DEF OneMore
<1>5. PartOk(e.changes, cat, L, created)
  <2>1. At(e.changes, "partition", 0) = At(cs, "partition", 0)
    BY <1>4, AtKept DEF WriteKinds
  <2>2. \A i \in At(cs, "partition", 0) : e.changes[i] = cs[i]
    BY <1>3 DEF At, OneMore
  <2>3. ASSUME NEW i \in DOMAIN e.changes, e.changes[i].op = "files", e.changes[i].val.part # {}
        PROVE  e.changes[i].val.part = cat.part.cols
    <3>1. CASE i \in DOMAIN cs
      BY <1>1, <1>3, <2>3, <3>1 DEF OneMore, PartsOk, PartOk
    <3>2. CASE i \notin DOMAIN cs
      BY <1>3, <2>3, <3>2 DEF OneMore
    <3>. QED
      BY <3>1, <3>2
  <2>4. FirstPart(e.changes, L, created) = FirstPart(cs, L, created)
    BY <1>3 DEF FirstPart, SameFirst
  <2>5. created => e.changes[1].val.part = cs[1].val.part
    BY <1>3 DEF SameFirst
  <2>6. PartOk(cs, cat, L, created)
    BY <1>1 DEF PartsOk
  <2>. QED
    BY <2>1, <2>2, <2>3, <2>4, <2>5, <2>6 DEF PartOk
<1>6. WritesOk(e.changes, n + 1)
  <2>1. WritesOk(cs, n)
    BY <1>1 DEF PartsOk
  <2>2. ASSUME NEW i \in DOMAIN e.changes, e.changes[i].op = "files"
        PROVE  e.changes[i].key \in Nat /\ e.changes[i].key <= n + 1
    <3>1. CASE i \in DOMAIN cs
      <4>1. e.changes[i].key \in Nat /\ e.changes[i].key <= n
        BY <1>3, <2>1, <2>2, <3>1 DEF OneMore, WritesOk
      <4>. QED
        BY <4>1
    <3>2. CASE i \notin DOMAIN cs
      <4>1. e.changes[i].key = n + 1
        BY <1>3, <2>2, <3>2 DEF OneMore
      <4>. QED
        BY <4>1
    <3>. QED
      BY <3>1, <3>2
  <2>3. \A i \in DOMAIN cs : cs[i].op = ch.op => cs[i].key # ch.key
    <3>1. CASE ch.op = "files"
      <4>1. \A i \in DOMAIN cs : cs[i].op = "files" => cs[i].key \in Nat /\ cs[i].key <= n
        BY <2>1 DEF WritesOk
      <4>2. \A k \in Nat : k <= n => k # n + 1
        OBVIOUS
      <4>. QED
        BY <3>1, <4>1, <4>2
    <3>2. CASE ch.op = "inline"
      BY <3>2
    <3>. QED
      BY <3>1, <3>2 DEF WriteKinds
  <2>4. ASSUME NEW i \in DOMAIN e.changes, NEW j \in DOMAIN e.changes,
               e.changes[i].op = e.changes[j].op, e.changes[i].op \in WriteKinds,
               e.changes[i].key = e.changes[j].key
        PROVE  i = j
    <3>1. CASE i \in DOMAIN cs /\ j \in DOMAIN cs
      BY <1>3, <2>1, <2>4, <3>1 DEF OneMore, WritesOk
    <3>2. CASE i \in DOMAIN cs /\ j \notin DOMAIN cs
      BY <1>3, <2>3, <2>4, <3>2 DEF OneMore
    <3>3. CASE i \notin DOMAIN cs /\ j \in DOMAIN cs
      BY <1>3, <2>3, <2>4, <3>3 DEF OneMore
    <3>4. CASE i \notin DOMAIN cs /\ j \notin DOMAIN cs
      BY <1>3, <3>4 DEF OneMore
    <3>. QED
      BY <3>1, <3>2, <3>3, <3>4
  <2>. QED
    BY <2>2, <2>4 DEF WritesOk
<1>7. NotNullOk(e.changes, cat)
  <2>1. NotNullOk(cs, cat)
    BY <1>1 DEF PartsOk
  <2>2. NullsOk(e.changes, cat)
    BY <1>3, <2>1 DEF NotNullOk, NullsOk, OneMore
  <2>3. ASSUME NEW x \in DOMAIN cat.cols, ~ cat.cols[x].nullable PROVE NoNulls(e.changes, x)
    <3>1. NoNulls(cs, x) /\ x \notin ch.val.nulls
      BY <2>1, <2>3 DEF NotNullOk, NullsAllowed
    <3>. QED
      BY <1>3, <3>1 DEF NoNulls, OneMore
  <2>. QED
    BY <2>2, <2>3 DEF NotNullOk
<1>8. TagsOk(e.changes, cat, L, created)
  BY <1>2 DEF OtherOk, WriteKinds
<1>. QED
  BY <1>1, <1>2, <1>5, <1>6, <1>7, <1>8 DEF OtherOk, WholeOk, PartsOk

(* A number of calls that is larger.                                       *)
LEMMA LaterOk ==
    ASSUME NEW d, NEW L, NEW created, NEW n \in Nat, WholeOk(d, L, created, n)
    PROVE  WholeOk(d, L, created, n + 1)
<1>1. WritesOk(d.changes, n)
  BY DEF WholeOk, PartsOk
<1>2. \A k \in Nat : k <= n => k <= n + 1
  OBVIOUS
<1>3. WritesOk(d.changes, n + 1)
  BY <1>1, <1>2 DEF WritesOk
<1>. QED
  BY <1>3 DEF WholeOk, PartsOk

(* A write of files.                                                       *)
LEMMA FilesOk ==
    ASSUME NEW d, NEW L, NEW created, NEW n \in Nat, WholeOk(d, L, created, n),
           NEW nulls, nulls \subseteq DOMAIN d.cat.cols, NEW given,
           NEW e, e = write_table_data_files(d, n + 1, nulls, given), e.ok
    PROVE  WholeOk(e, L, created, n + 1)
<1> DEFINE part == IF given THEN d.cat.part.cols ELSE {}
           ch == Change("files", n + 1, [nulls |-> nulls, part |-> part, cols |-> DOMAIN d.cat.cols])
<1>1. IsDraft(d)
  BY DEF WholeOk, PartsOk
<1>2. NullsAllowed(d.cat, nulls) /\ e = Push(d, d.cat, <<ch>>)
  BY <1>1, FailedNotOk DEF write_table_data_files
<1>3. part \in {{}, d.cat.part.cols}
  OBVIOUS
<1>. HIDE DEF part
<1>4. /\ ch.op = "files" /\ ch.key = n + 1 /\ ch.val.nulls = nulls /\ ch.val.part = part
      /\ ch.val.cols = DOMAIN d.cat.cols
  BY DEF Change
<1>5. ShapeOk(ch)
  BY <1>4 DEF ShapeOk, ChangeOps
<1>. HIDE DEF ch
<1>. QED
  BY <1>2, <1>3, <1>4, <1>5, WriteOk DEF WriteKinds

(* A write of inline rows.                                                 *)
LEMMA InlineOk ==
    ASSUME NEW d, NEW L, NEW created, NEW n \in Nat, WholeOk(d, L, created, n),
           NEW nulls, nulls \subseteq DOMAIN d.cat.cols, NEW w,
           \A i \in DOMAIN d.changes : d.changes[i].op # "inline",
           NEW e, e = write_table_inline_data(d, w, nulls), e.ok
    PROVE  WholeOk(e, L, created, n + 1)
<1> DEFINE ch == Change("inline", 0, [nulls |-> nulls, write |-> w, cols |-> DOMAIN d.cat.cols])
<1>1. IsDraft(d)
  BY DEF WholeOk, PartsOk
<1>2. NullsAllowed(d.cat, nulls) /\ e = Push(d, d.cat, <<ch>>)
  BY <1>1, FailedNotOk DEF write_table_inline_data
<1>4. /\ ch.op = "inline" /\ ch.key = 0 /\ ch.val.nulls = nulls /\ ch.val.cols = DOMAIN d.cat.cols
  BY DEF Change
<1>5. ShapeOk(ch)
  BY <1>4 DEF ShapeOk, ChangeOps
<1>. HIDE DEF ch
<1>. QED
  BY <1>2, <1>4, <1>5, WriteOk DEF WriteKinds

(* A new table has a root column, and perhaps a struct with a field.       *)
LEMMA LayoutFacts ==
    ASSUME NEW cols \in Layouts
    PROVE  /\ 1 \in DOMAIN cols /\ cols[1].parent = 0
           /\ \/ DOMAIN cols = {1} /\ Cardinality(DOMAIN cols) = 1
              \/ DOMAIN cols = {1, 2, 3} /\ Cardinality(DOMAIN cols) = 3
           /\ \A x \in DOMAIN cols :
                 /\ x \in Nat /\ x # 0 /\ DefOk(cols[x]) /\ cols[x].nullable = TRUE
                 /\ cols[x].parent # 0 => cols[x].parent \in DOMAIN cols /\ cols[cols[x].parent].parent = 0
                 /\ \A y \in DOMAIN cols :
                       cols[x].parent = cols[y].parent /\ cols[x].name = cols[y].name => x = y
<1> DEFINE a == Column(0, "a", "int", TRUE)
           b == Column(0, "b", "struct", TRUE)
           f == Column(2, "a", "int", TRUE)
<1>1. /\ a.parent = 0 /\ a.name = "a" /\ a.nullable = TRUE /\ DefOk(a)
      /\ b.parent = 0 /\ b.name = "b" /\ b.nullable = TRUE /\ DefOk(b)
      /\ f.parent = 2 /\ f.name = "a" /\ f.nullable = TRUE /\ DefOk(f)
  BY DEF Column, DefOk, Unsorted
<1>2. cols = <<a>> \/ cols = <<a, b, f>>
  BY DEF Layouts
<1>. HIDE DEF a, b, f
<1>3. CASE cols = <<a>>
  <2>1. DOMAIN cols = {1} /\ cols[1] = a
    BY <1>3
  <2>2. Cardinality({1}) = 1
    BY FS_Singleton
  <2>. QED
    BY <1>1, <2>1, <2>2
<1>4. CASE cols = <<a, b, f>>
  <2>1. DOMAIN cols = {1, 2, 3} /\ cols[1] = a /\ cols[2] = b /\ cols[3] = f
    BY <1>4
  <2>2. Cardinality({1, 2, 3}) = 3
    <3>0. ASSUME NEW n \in Nat PROVE Cardinality(1 .. n) = n
      BY FS_Interval
    <3>1. Cardinality(1 .. 3) = 3
      BY <3>0
    <3>2. {1, 2, 3} = 1 .. 3
      OBVIOUS
    <3>. QED
      BY <3>1, <3>2
  <2>. QED
    BY <1>1, <2>1, <2>2
<1>. QED
  BY <1>2, <1>3, <1>4

(* A table that is created.                                                *)
LEMMA CreateOk ==
    ASSUME NEW d, IsDraft(d), d.changes = <<>>, NEW L, DOMAIN L.cols = {}, table.columns = {}, table.data = {},
           NEW n, NEW cols \in Layouts, NEW part, part \in {{}, {1}}, NEW sort, sort \in {0, 1}, NEW tag,
           NEW e, e = create_table(d, cols, part, sort, tag)
    PROVE  WholeOk(e, L, TRUE, n)
<1> DEFINE m == 1 + Cardinality(DOMAIN cols)
           cat == [cols |-> cols, gone |-> {}, part |-> [id |-> 0, cols |-> part], sort |-> sort,
                   tags |-> tag, next |-> m]
           val == [cols |-> cols, part |-> part, sort |-> SortName(cat), tags |-> tag]
           ch == Change("create", 0, val)
<1>1. e = Push(d, cat, <<ch>>)
  BY DEF create_table
<1>2. /\ 1 \in DOMAIN cols /\ cols[1].parent = 0
      /\ \/ DOMAIN cols = {1} /\ Cardinality(DOMAIN cols) = 1
         \/ DOMAIN cols = {1, 2, 3} /\ Cardinality(DOMAIN cols) = 3
      /\ \A x \in DOMAIN cols :
            /\ x \in Nat /\ x # 0 /\ DefOk(cols[x]) /\ cols[x].nullable = TRUE
            /\ cols[x].parent # 0 => cols[x].parent \in DOMAIN cols /\ cols[cols[x].parent].parent = 0
            /\ \A y \in DOMAIN cols :
                  cols[x].parent = cols[y].parent /\ cols[x].name = cols[y].name => x = y
  BY LayoutFacts
<1>3. m \in Nat /\ m # 0 /\ \A x \in DOMAIN cols : x \in Nat /\ 0 < x /\ x < m
  <2>1. CASE DOMAIN cols = {1} /\ Cardinality(DOMAIN cols) = 1
    BY <2>1
  <2>2. CASE DOMAIN cols = {1, 2, 3} /\ Cardinality(DOMAIN cols) = 3
    BY <2>2
  <2>. QED
    BY <1>2, <2>1, <2>2
<1>. HIDE DEF m
<1>4. /\ DOMAIN cat = CatFields /\ cat.cols = cols /\ cat.gone = {} /\ cat.part = [id |-> 0, cols |-> part]
      /\ cat.part.id = 0 /\ cat.part.cols = part /\ DOMAIN cat.part = {"id", "cols"}
      /\ cat.sort = sort /\ cat.tags = tag /\ cat.next = m
  BY DEF CatFields
<1>. HIDE DEF cat
<1>5. /\ ch.op = "create" /\ ch.key = 0 /\ ch.val.part = part /\ ch.val.sort = SortName(cat)
      /\ ch.val.tags = tag /\ ch.val.cols = cols /\ NewDefs(ch) = cols
  BY DEF Change, NewDefs
<1>. HIDE DEF ch
<1>6. IsDraft(e) /\ e.cat = cat /\ OneMore(e.changes, <<>>, ch)
  BY <1>1, PushedOne
<1>7. DOMAIN e.changes = {1} /\ e.changes[1] = ch /\ IsSeq(e.changes)
  BY <1>6 DEF OneMore, IsDraft
<1>8. CatOk(cat)
  <2>1. ColsOk(cat)
    BY <1>2, <1>4 DEF ColsOk
  <2>2. KeysOk(cat)
    BY <1>2, <1>4 DEF KeysOk, IsRoot, Present
  <2>. QED
    BY <1>4, <2>1, <2>2 DEF CatOk
<1>9. IdsOk(cat)
  <2>1. NextColumnId(cat) = m
    BY <1>3, <1>4 DEF NextColumnId
  <2>2. Ids(table.columns) = {}
    BY DEF Ids
  <2>. QED
    BY <1>3, <1>4, <2>1, <2>2 DEF IdsOk
<1>10. ListOk(e.changes, TRUE)
  BY <1>2, <1>5, <1>7 DEF ListOk, ChangeOps
<1>11. ColumnsOk(e.changes, cat, L)
  <2> SUFFICES ASSUME NEW x PROVE ColumnOk(e.changes, cat, L, x)
    BY DEF ColumnsOk
  <2>1. At(e.changes, "update", x) = {} /\ At(e.changes, "remove", x) = {}
    BY <1>5, <1>7 DEF At
  <2>2. AddsAt(e.changes, x) = IF x \in DOMAIN cols THEN {1} ELSE {}
    BY <1>5, <1>7 DEF AddsAt
  <2>3. x \notin Ids(table.columns)
    BY DEF Ids
  <2>4. \A a \in AddsAt(e.changes, x) : x \in DOMAIN cols /\ a = 1 /\ NewDefs(e.changes[a])[x] = cols[x]
    BY <1>5, <1>7, <2>2
  <2>. QED
    BY <1>4, <2>1, <2>2, <2>3, <2>4 DEF ColumnOk
<1>12. PartOk(e.changes, cat, L, TRUE)
  <2>1. At(e.changes, "partition", 0) = {}
    BY <1>5, <1>7 DEF At
  <2>. QED
    BY <1>4, <1>5, <1>7, <2>1 DEF PartOk, FirstPart
<1>13. SortOk(e.changes, cat, L, TRUE)
  <2>1. At(e.changes, "sort", 0) = {}
    BY <1>5, <1>7 DEF At
  <2>. QED
    BY <1>5, <1>7, <2>1 DEF SortOk, FirstSort
<1>14. TagsOk(e.changes, cat, L, TRUE)
  <2> SUFFICES ASSUME NEW o PROVE TagOk(e.changes, cat, L, TRUE, o)
    BY DEF TagsOk
  <2>1. EditsOf(e.changes, o) = {}
    BY <1>5, <1>7 DEF At, EditsOf
  <2>. QED
    BY <1>4, <1>5, <1>7, <2>1 DEF TagOk, FirstTags, SameAt
<1>15. WritesOk(e.changes, n)
  BY <1>5, <1>7 DEF WritesOk, WriteKinds
<1>16. NotNullOk(e.changes, cat)
  BY <1>2, <1>4, <1>5, <1>7 DEF NotNullOk, NullsOk, WriteKinds
<1>. QED
  BY <1>6, <1>8, <1>9, <1>10, <1>11, <1>12, <1>13, <1>14, <1>15, <1>16 DEF WholeOk, PartsOk

-----------------------------------------------------------------------------
(* The invariant.                                                          *)

Loaded == Load(table, head)
TxFields == {"active", "cat", "changes", "created"}

TxOk ==
    Active =>
        /\ DOMAIN tx = TxFields /\ tx.created \in BOOLEAN
        /\ IF Exists \/ tx.created THEN WholeOk(Draft, Loaded, tx.created, calls)
           ELSE tx.changes = <<>> /\ tx.cat = Loaded
        /\ Exists => ~ tx.created

BufferInv == calls \in Nat /\ DbOk /\ TxOk

(* A draft with the same catalog and the same changes.                     *)
LEMMA SameDraft ==
    ASSUME NEW d, NEW e, NEW L, NEW created, NEW n, WholeOk(d, L, created, n),
           DOMAIN e = DraftFields, e.ok = TRUE, e.cat = d.cat, e.changes = d.changes
    PROVE  WholeOk(e, L, created, n)
BY DEF WholeOk, PartsOk, IsDraft

(* It says nothing of what a step leaves alone.                            *)
LEMMA WholeKept ==
    ASSUME NEW d, NEW L, NEW created, NEW n, WholeOk(d, L, created, n), table' = table
    PROVE  WholeOk(d, L, created, n)'
<1>1. PartsOk(d, L, created, n)'
  BY DEF WholeOk, PartsOk, IsDraft, IdsOk, NextColumnId, ColumnsOk, ColumnOk, NotNullOk, NoNulls, HoldsNull
<1>. QED
  BY <1>1 DEF WholeOk

(* A call that stages something.                                           *)
LEMMA StagedOk ==
    ASSUME TxOk, Open, NEW e, WholeOk(e, Loaded, tx.created, calls + 1),
           tx' = [tx EXCEPT !.cat = e.cat, !.changes = e.changes], calls' = calls + 1,
           UNCHANGED <<table, head>>
    PROVE  TxOk'
<1>1. /\ DOMAIN tx = TxFields /\ tx.created \in BOOLEAN /\ (Exists => ~ tx.created) /\ (Exists \/ tx.created)
  BY DEF TxOk, Open
<1>2. /\ DOMAIN tx' = TxFields /\ tx'.created = tx.created /\ tx'.active = tx.active
      /\ tx'.cat = e.cat /\ tx'.changes = e.changes
  BY <1>1 DEF TxFields
<1> DEFINE f == [ok |-> TRUE, cat |-> e.cat, changes |-> e.changes]
<1>3. Draft' = f
  BY <1>2 DEF Draft
<1>4. WholeOk(f, Loaded, tx.created, calls + 1)
  BY SameDraft DEF DraftFields
<1>5. PICK g : g = f
  OBVIOUS
<1>6. PICK L : L = Loaded
  OBVIOUS
<1>7. PICK cr : cr = tx.created
  OBVIOUS
<1>8. PICK n : n = calls + 1
  OBVIOUS
<1>9. WholeOk(g, L, cr, n)'
  BY <1>4, <1>5, <1>6, <1>7, <1>8, WholeKept
<1>10. g = Draft' /\ L = Loaded' /\ cr = tx'.created /\ n = calls'
  BY <1>2, <1>3, <1>5, <1>6, <1>7, <1>8 DEF Loaded
<1>11. WholeOk(Draft, Loaded, tx.created, calls)'
  BY <1>9, <1>10
<1>12. Exists' = Exists
  BY DEF Exists
<1>. QED
  BY <1>1, <1>2, <1>11, <1>12 DEF TxOk, Active

(* Nothing happens to the database.                                        *)
LEMMA DbKept ==
    ASSUME DbOk, UNCHANGED <<table, head, next_id, staged, acked, used>>
    PROVE  DbOk'
BY DEF DbOk, CommittedIsStaged, WritesArePersisted, NotNullHolds, FilesMatchPartitioning, HoldsNull

(* What is known inside a call.                                            *)
LEMMA InCall ==
    ASSUME TxOk, Open
    PROVE  /\ WholeOk(Draft, Loaded, tx.created, calls) /\ IsDraft(Draft) /\ IsSeq(tx.changes) /\ ListOk(tx.changes, tx.created)
           /\ Draft.cat = tx.cat /\ Draft.changes = tx.changes /\ tx.created \in BOOLEAN
<1>1. WholeOk(Draft, Loaded, tx.created, calls) /\ tx.created \in BOOLEAN
  BY DEF TxOk, Open
<1>2. Draft.cat = tx.cat /\ Draft.changes = tx.changes
  BY DEF Draft
<1>. QED
  BY <1>1, <1>2 DEF WholeOk, PartsOk, IsDraft

(* Calls that may fail.                                                    *)
LEMMA StageOk ==
    ASSUME TxOk, Open, calls \in Nat, NEW e, Stage(e), WholeOk(e, Loaded, tx.created, calls) \/ WholeOk(e, Loaded, tx.created, calls + 1)
    PROVE  TxOk'
<1>1. WholeOk(e, Loaded, tx.created, calls + 1)
  BY LaterOk
<1>. QED
  BY <1>1, StagedOk DEF Stage

(* Calls that take back what they have staged when they fail.              *)
LEMMA GuardedOk ==
    ASSUME TxOk, Open, calls \in Nat, NEW e, StageGuarded(e), e.ok => WholeOk(e, Loaded, tx.created, calls)
    PROVE  TxOk'
<1> DEFINE f == guard(Draft, e)
<1>1. WholeOk(f, Loaded, tx.created, calls)
  BY InCall DEF guard
<1>2. WholeOk(f, Loaded, tx.created, calls + 1)
  BY <1>1, LaterOk
<1>. HIDE DEF f
<1>3. /\ tx' = [tx EXCEPT !.cat = f.cat, !.changes = f.changes] /\ calls' = calls + 1
      /\ UNCHANGED <<table, head>>
  BY DEF StageGuarded, f
<1>. QED
  BY <1>2, <1>3, StagedOk

(* Careful callers address columns that are there.                         *)
LEMMA CarefulColumns ==
    ASSUME Careful
    PROVE  /\ \A use \in Uses, when \in BOOLEAN : Avoided(use, when) => ~ when
           /\ Columns \subseteq Present(tx.cat)
           /\ \A c \in RootColumns : IsRoot(tx.cat, c)
<1>1. \A use \in Uses, when \in BOOLEAN : Avoided(use, when) => ~ when
  BY DEF Careful, Avoided
<1>2. "removed_column" \in Uses
  BY DEF Uses
<1>3. Columns \subseteq Present(tx.cat)
  BY <1>1, <1>2 DEF Columns, Addressable, Present
<1>4. \A c \in RootColumns : IsRoot(tx.cat, c)
  BY <1>3 DEF RootColumns, Roots, IsRoot
<1>. QED
  BY <1>1, <1>3, <1>4

(* Columns that are added.                                                 *)
LEMMA AddColumnStep ==
    ASSUME BufferInv, AddColumn
    PROVE  TxOk'
<1>1. TxOk /\ Open /\ calls \in Nat
  BY DEF BufferInv, AddColumn, Call
<1>2. PICK n \in Names, type \in {"int", "struct"} : Stage(add_table_column(Draft, 0, n, type, TRUE))
  BY DEF AddColumn
<1>3. PICK e : e = add_table_column(Draft, 0, n, type, TRUE)
  OBVIOUS
<1>4. Stage(e) /\ e.ok /\ n # Unsorted
  BY <1>2, <1>3, BufferAssumption DEF Stage
<1>5. WholeOk(Draft, Loaded, tx.created, calls)
  BY <1>1, InCall
<1>6. WholeOk(e, Loaded, tx.created, calls)
  BY <1>1, <1>3, <1>4, <1>5, AddColumnOk
<1>. QED
  BY <1>1, <1>4, <1>6, StageOk

(* Columns that are removed, renamed, get another type or allow NULLs.     *)
LEMMA ColumnSteps ==
    ASSUME Careful, BufferInv, RemoveColumn \/ RenameColumn \/ UpdateDtype \/ UpdateNullability
    PROVE  TxOk'
<1>1. TxOk /\ Open /\ calls \in Nat
  BY DEF BufferInv, RemoveColumn, RenameColumn, UpdateDtype, UpdateNullability, Call
<1>2. WholeOk(Draft, Loaded, tx.created, calls) /\ Draft.cat = tx.cat /\ Draft.changes = tx.changes /\ IsSeq(tx.changes)
  BY <1>1, InCall
<1>3. Columns \subseteq Present(Draft.cat)
  BY <1>2, CarefulColumns
<1>4. CASE RemoveColumn
  <2>1. PICK c \in Columns : Stage(remove_table_column(Draft, c))
    BY <1>4 DEF RemoveColumn
  <2>2. PICK e : e = remove_table_column(Draft, c)
    OBVIOUS
  <2>3. Stage(e) /\ e.ok
    BY <2>1, <2>2 DEF Stage
  <2>4. WholeOk(e, Loaded, tx.created, calls)
    BY <1>2, <1>3, <2>2, <2>3, RemoveOk
  <2>. QED
    BY <1>1, <2>3, <2>4, StageOk
<1>5. CASE RenameColumn
  <2>1. PICK c \in Columns : \E n \in NamesFor(tx.cat.cols[c].parent) : Stage(rename_table_column(Draft, c, n))
    BY <1>5 DEF RenameColumn
  <2>2. PICK n \in NamesFor(tx.cat.cols[c].parent) : Stage(rename_table_column(Draft, c, n))
    BY <2>1
  <2>3. PICK e : e = rename_table_column(Draft, c, n)
    OBVIOUS
  <2>4. Stage(e) /\ e.ok
    BY <2>2, <2>3 DEF Stage
  <2>5. Draft.cat.cols[c].parent = 0 => n # Unsorted
    BY <1>2, BufferAssumption DEF NamesFor
  <2>6. WholeOk(e, Loaded, tx.created, calls)
    BY <1>2, <1>3, <2>3, <2>4, <2>5, RenameOk
  <2>. QED
    BY <1>1, <2>4, <2>6, StageOk
<1>6. CASE UpdateDtype
  <2>1. PICK c \in Columns : Stage(update_table_column_dtype(Draft, c, "bigint"))
    BY <1>6 DEF UpdateDtype
  <2>2. PICK e : e = update_table_column_dtype(Draft, c, "bigint")
    OBVIOUS
  <2>3. Stage(e) /\ e.ok
    BY <2>1, <2>2 DEF Stage
  <2>4. WholeOk(e, Loaded, tx.created, calls)
    BY <1>2, <1>3, <2>2, <2>3, DtypeOk
  <2>. QED
    BY <1>1, <2>3, <2>4, StageOk
<1>7. CASE UpdateNullability
  <2>1. PICK c \in Columns, nullable \in BOOLEAN :
           /\ ~ nullable =>
                 /\ ~ tx.created
                 /\ Avoided("not_null_after_write", StagedWrites # {})
                 /\ Avoided("not_null_on_old_rows", OlderRows(c))
           /\ Stage(update_table_column_nullability(Draft, c, nullable))
    BY <1>7 DEF UpdateNullability
  <2>2. PICK e : e = update_table_column_nullability(Draft, c, nullable)
    OBVIOUS
  <2>3. Stage(e) /\ e.ok
    BY <2>1, <2>2 DEF Stage
  <2>4. ~ nullable => NoWrites(Draft.changes) /\ ~ OlderRows(c)
    <3>1. ~ nullable => StagedWrites = {} /\ ~ OlderRows(c)
      <4>1. OlderRows(c) \in BOOLEAN
        BY DEF OlderRows
      <4>. QED
        BY <2>1, <4>1, CarefulColumns DEF Uses
    <3>2. StagedWrites = {} => NoWrites(tx.changes)
      BY DEF StagedWrites, NoWrites, WriteKinds, Range
    <3>. QED
      BY <1>2, <3>1, <3>2
  <2>5. WholeOk(e, Loaded, tx.created, calls)
    BY <1>2, <1>3, <2>2, <2>3, <2>4, NullabilityOk
  <2>. QED
    BY <1>1, <2>3, <2>5, StageOk
<1>. QED
  BY <1>4, <1>5, <1>6, <1>7

(* Structs and schemas that are replaced.                                  *)
LEMMA SchemaSteps ==
    ASSUME Careful, BufferInv, UpdateStruct \/ UpdateSchema
    PROVE  TxOk'
<1>1. TxOk /\ Open /\ calls \in Nat
  BY DEF BufferInv, UpdateStruct, UpdateSchema, Call
<1>2. WholeOk(Draft, Loaded, tx.created, calls) /\ Draft.cat = tx.cat /\ Draft.changes = tx.changes
  BY <1>1, InCall
<1>3. Columns \subseteq Present(Draft.cat)
  BY <1>2, CarefulColumns
<1>4. CASE UpdateStruct
  <2>1. PICK c \in Columns :
           /\ tx.cat.cols[c].type = "struct" /\ Fields(tx.cat, c) \subseteq Columns
           /\ \E names \in SUBSET FieldNames, type \in {"int", "bigint"} :
                StageGuarded(update_struct(Draft, c, [n \in names |-> type]))
    BY <1>4 DEF UpdateStruct
  <2>2. PICK names \in SUBSET FieldNames, type \in {"int", "bigint"} :
                StageGuarded(update_struct(Draft, c, [n \in names |-> type]))
    BY <2>1
  <2>3. PICK fields : fields = [n \in names |-> type]
    OBVIOUS
  <2>4. PICK e : e = update_struct(Draft, c, fields)
    OBVIOUS
  <2>5. StageGuarded(e) /\ \A k \in DOMAIN fields : fields[k] # "struct"
    BY <2>2, <2>3, <2>4
  <2>6. IsRoot(Draft.cat, c)
    <3>1. c \in Present(Draft.cat) /\ DefOk(Draft.cat.cols[c])
      BY <1>2, <1>3 DEF WholeOk, PartsOk, CatOk, ColsOk, Present
    <3>. QED
      BY <1>2, <2>1, <3>1 DEF DefOk, IsRoot
  <2>7. \A y \in Fields(Draft.cat, c) : y \in Present(Draft.cat)
    BY <1>2, <1>3, <2>1
  <2>8. e.ok => WholeOk(e, Loaded, tx.created, calls)
    BY <1>1, <1>2, <2>4, <2>5, <2>6, <2>7, StructOk
  <2>. QED
    BY <1>1, <2>5, <2>8, GuardedOk
<1>5. CASE UpdateSchema
  <2>1. PICK names \in SUBSET Names, nullable \in BOOLEAN, type \in {"int", "bigint"} :
          /\ ~ nullable =>
                /\ ~ tx.created
                /\ Avoided("not_null_after_write", StagedWrites # {})
                /\ Avoided("not_null_on_old_rows", AddsOrOlder(names))
          /\ StageGuarded(update_table_schema(Draft,
                [n \in names |-> [type |-> type, nullable |-> nullable]]))
    BY <1>5 DEF UpdateSchema
  <2>2. PICK columns : columns = [n \in names |-> [type |-> type, nullable |-> nullable]]
    OBVIOUS
  <2>3. PICK e : e = update_table_schema(Draft, columns)
    OBVIOUS
  <2>4. StageGuarded(e)
    BY <2>1, <2>2, <2>3
  <2>5. \A k \in DOMAIN columns : columns[k].nullable = nullable /\ k # Unsorted
    BY <2>2, BufferAssumption
  <2>6. Disallows(nullable, Draft, DOMAIN columns)
    <3>1. ~ nullable => StagedWrites = {} /\ ~ AddsOrOlder(names)
      <4>1. AddsOrOlder(names) \in BOOLEAN
        BY DEF AddsOrOlder
      <4>. QED
        BY <2>1, <4>1, CarefulColumns DEF Uses
    <3>2. StagedWrites = {} => NoWrites(tx.changes)
      BY DEF StagedWrites, NoWrites, WriteKinds, Range
    <3>3. ~ AddsOrOlder(names) => Covered(tx.cat, names)
      BY DEF AddsOrOlder, Covered, NamesOf, RootColumns, Roots
    <3>. QED
      BY <1>2, <2>2, <3>1, <3>2, <3>3 DEF Disallows
  <2>7. e.ok => WholeOk(e, Loaded, tx.created, calls)
    BY <1>1, <1>2, <2>3, <2>5, <2>6, SchemaOk
  <2>. QED
    BY <1>1, <2>4, <2>7, GuardedOk
<1>. QED
  BY <1>4, <1>5

(* Partitionings and sort orders that are replaced.                        *)
LEMMA KeySteps ==
    ASSUME Careful, BufferInv, UpdatePartitioning \/ UpdateSortInfo
    PROVE  TxOk'
<1>1. TxOk /\ Open /\ calls \in Nat
  BY DEF BufferInv, UpdatePartitioning, UpdateSortInfo, Call
<1>2. /\ WholeOk(Draft, Loaded, tx.created, calls) /\ Draft.cat = tx.cat /\ Draft.changes = tx.changes
      /\ ListOk(tx.changes, tx.created) /\ tx.created \in BOOLEAN
  BY <1>1, InCall
<1>3. \A c \in RootColumns : IsRoot(Draft.cat, c)
  BY <1>2, CarefulColumns
<1>4. CASE UpdatePartitioning
  <2>1. PICK cols \in {{}} \union {{c} : c \in RootColumns} : Stage(update_table_partitioning(Draft, cols))
    BY <1>4 DEF UpdatePartitioning
  <2>2. PICK e : e = update_table_partitioning(Draft, cols)
    OBVIOUS
  <2>3. ~ StagedPart("create") /\ ~ StagedPart("files")
    <3>1. StagedPart("create") \in BOOLEAN /\ StagedPart("files") \in BOOLEAN
      BY DEF StagedPart
    <3>2. Avoided("pending_partitioning", StagedPart("create")) /\ Avoided("partition_after_write", StagedPart("files"))
      BY <1>4 DEF UpdatePartitioning
    <3>. QED
      BY <3>1, <3>2, CarefulColumns DEF Uses
  <2>4. \A i \in DOMAIN tx.changes : tx.changes[i].op = "files" => tx.changes[i].val.part = {}
    BY <2>3 DEF StagedPart, Range
  <2>5. tx.created => tx.changes[1].val.part = {}
    BY <1>2, <2>3 DEF StagedPart, Range, ListOk
  <2>6. \A c \in cols : IsRoot(Draft.cat, c)
    BY <1>3
  <2>7. WholeOk(e, Loaded, tx.created, calls)
    BY <1>2, <2>2, <2>4, <2>5, <2>6, PartitioningOk
  <2>. QED
    BY <1>1, <2>1, <2>2, <2>7, StageOk
<1>5. CASE UpdateSortInfo
  <2>1. PICK c \in {0} \union RootColumns : Stage(update_table_sort_info(Draft, c))
    BY <1>5 DEF UpdateSortInfo
  <2>2. PICK e : e = update_table_sort_info(Draft, c)
    OBVIOUS
  <2>3. WholeOk(e, Loaded, tx.created, calls)
    BY <1>2, <1>3, <2>2, SortInfoOk
  <2>. QED
    BY <1>1, <2>1, <2>2, <2>3, StageOk
<1>. QED
  BY <1>4, <1>5

(* Tags.                                                                   *)
LEMMA TagStep ==
    ASSUME BufferInv, EditTag
    PROVE  TxOk'
<1>1. TxOk /\ Open /\ calls \in Nat
  BY DEF BufferInv, EditTag, Call
<1>2. WholeOk(Draft, Loaded, tx.created, calls)
  BY <1>1, InCall
<1>3. PICK o \in {0} \union Columns :
          \/ \E v \in Tags : Stage(add_tag(Draft, o, v))
          \/ Stage(remove_tag(Draft, o))
  BY DEF EditTag
<1>4. CASE \E v \in Tags : Stage(add_tag(Draft, o, v))
  <2>1. PICK v \in Tags : Stage(add_tag(Draft, o, v))
    BY <1>4
  <2>2. PICK e : e = add_tag(Draft, o, v)
    OBVIOUS
  <2>3. WholeOk(e, Loaded, tx.created, calls)
    BY <1>2, <2>2, AddTagOk
  <2>. QED
    BY <1>1, <2>1, <2>2, <2>3, StageOk
<1>5. CASE Stage(remove_tag(Draft, o))
  <2>1. PICK e : e = remove_tag(Draft, o)
    OBVIOUS
  <2>2. e.ok
    BY <1>5, <2>1 DEF Stage
  <2>3. WholeOk(e, Loaded, tx.created, calls)
    BY <1>2, <2>1, <2>2, RemoveTagOk
  <2>. QED
    BY <1>1, <1>5, <2>1, <2>3, StageOk
<1>. QED
  BY <1>3, <1>4, <1>5

(* Writes.                                                                 *)
LEMMA WriteStep ==
    ASSUME Careful, BufferInv, Write
    PROVE  TxOk'
<1>1. TxOk /\ Open /\ calls \in Nat
  BY DEF BufferInv, Write, Call
<1>2. /\ WholeOk(Draft, Loaded, tx.created, calls) /\ Draft.cat = tx.cat /\ Draft.changes = tx.changes
  BY <1>1, InCall
<1>3. PICK nulls \in {{}} \union {{c} : c \in RootColumns \intersect Present(tx.cat)} :
          \/ \E given \in BOOLEAN : Stage(write_table_data_files(Draft, calls + 1, nulls, given))
          \/ /\ Avoided("second_inline_write",
                        \E c \in Range(tx.changes) : c.op = "inline")
             /\ Stage(write_table_inline_data(Draft, calls + 1, nulls))
  BY DEF Write
<1>4. nulls \subseteq DOMAIN Draft.cat.cols
  BY <1>2 DEF Present
<1>5. CASE \E given \in BOOLEAN : Stage(write_table_data_files(Draft, calls + 1, nulls, given))
  <2>1. PICK given \in BOOLEAN : Stage(write_table_data_files(Draft, calls + 1, nulls, given))
    BY <1>5
  <2>2. PICK e : e = write_table_data_files(Draft, calls + 1, nulls, given)
    OBVIOUS
  <2>3. Stage(e) /\ e.ok
    BY <2>1, <2>2 DEF Stage
  <2>4. WholeOk(e, Loaded, tx.created, calls + 1)
    BY <1>1, <1>2, <1>4, <2>2, <2>3, FilesOk
  <2>. QED
    BY <1>1, <2>3, <2>4, StageOk
<1>6. CASE /\ Avoided("second_inline_write", \E c \in Range(tx.changes) : c.op = "inline")
           /\ Stage(write_table_inline_data(Draft, calls + 1, nulls))
  <2>1. PICK e : e = write_table_inline_data(Draft, calls + 1, nulls)
    OBVIOUS
  <2>2. Stage(e) /\ e.ok
    BY <1>6, <2>1 DEF Stage
  <2>3. ~ \E c \in Range(tx.changes) : c.op = "inline"
    BY <1>6, CarefulColumns DEF Uses
  <2>4. \A i \in DOMAIN Draft.changes : Draft.changes[i].op # "inline"
    BY <1>2, <2>3 DEF Range
  <2>5. WholeOk(e, Loaded, tx.created, calls + 1)
    BY <1>1, <1>2, <1>4, <2>1, <2>2, <2>4, InlineOk
  <2>. QED
    BY <1>1, <2>2, <2>5, StageOk
<1>. QED
  BY <1>3, <1>5, <1>6

(* The largest column ID.                                                  *)
LEMMA LargestId ==
    ASSUME RowsOk(table, head, next_id), Exists, NEW cat, cat.next = 0
    PROVE  /\ NextColumnId(cat) \in Nat /\ NextColumnId(cat) # 0
           /\ \A x \in Ids(table.columns) : x \in Nat /\ 0 < x /\ x < NextColumnId(cat)
<1> DEFINE S == Ids(table.columns)
           m == CHOOSE m \in S : \A n \in S : n <= m
<1>1. PICK n \in Nat : \A x \in S : x <= n
  BY DEF RowsOk
<1>2. \A x \in S : x \in Nat /\ x # 0
  BY DEF RowsOk, Ids
<1>3. S # {}
  BY DEF Exists, Ids
<1>. HIDE DEF S
<1>4. S \subseteq 0 .. n
  BY <1>1, <1>2
<1>5. PICK k : IsLast(k, S)
  BY <1>3, <1>4, LastExists
<1>6. m \in S /\ \A x \in S : x <= m
  BY <1>5 DEF IsLast
<1>7. NextColumnId(cat) = 1 + m
  BY DEF NextColumnId, S
<1>. HIDE DEF m
<1>8. m \in Nat /\ 1 + m \in Nat /\ 1 + m # 0
  BY <1>2, <1>6
<1>9. ASSUME NEW x \in S PROVE x \in Nat /\ 0 < x /\ x < 1 + m
  <2>1. x \in Nat /\ x # 0 /\ x <= m
    BY <1>2, <1>6
  <2>. QED
    BY <1>8, <2>1
<1>. QED
  BY <1>7, <1>8, <1>9 DEF S

(* A catalog that has just been loaded.                                    *)
LEMMA LoadedOk ==
    ASSUME DbOk, Exists, NEW d, IsDraft(d), d.cat = Loaded, d.changes = <<>>, NEW n
    PROVE  WholeOk(d, Loaded, FALSE, n)
<1>1. RowsOk(table, head, next_id) /\ SnapOk(table, head) /\ NotNullHolds
  BY DEF DbOk, RowsOk
<1>2. CatOk(Loaded) /\ Loaded.next = 0 /\ Loaded.gone = {} /\ Loaded.cols = LoadedColumns(table, head)
  BY <1>1 DEF SnapOk, Loaded, Load
<1>3. DOMAIN Loaded.cols \subseteq Ids(table.columns)
  BY <1>2 DEF LoadedColumns, Ids, Visible
<1>4. IdsOk(Loaded)
  BY <1>1, <1>2, <1>3, LargestId DEF IdsOk
<1>5. DOMAIN d.changes = {} /\ IsSeq(d.changes)
  BY DEF IsDraft
<1>6. ListOk(d.changes, FALSE)
  BY <1>5 DEF ListOk
<1>7. \A op, key : At(d.changes, op, key) = {}
  BY <1>5 DEF At
<1>8. \A x : AddsAt(d.changes, x) = {}
  BY <1>5 DEF AddsAt
<1>9. ColumnsOk(d.changes, Loaded, Loaded)
  BY <1>2, <1>7, <1>8 DEF ColumnsOk, ColumnOk
<1>10. PartOk(d.changes, Loaded, Loaded, FALSE) /\ SortOk(d.changes, Loaded, Loaded, FALSE)
  BY <1>5, <1>7 DEF PartOk, FirstPart, SortOk, FirstSort
<1>11. TagsOk(d.changes, Loaded, Loaded, FALSE)
  BY <1>7 DEF TagsOk, TagOk, FirstTags, SameAt, EditsOf
<1>12. WritesOk(d.changes, n)
  BY <1>5 DEF WritesOk
<1>13. NotNullOk(d.changes, Loaded)
  BY <1>1, <1>2, <1>5 DEF NotNullOk, NullsOk, NoNulls, NotNullHolds
<1>. QED
  BY <1>2, <1>4, <1>6, <1>9, <1>10, <1>11, <1>12, <1>13 DEF WholeOk, PartsOk

(* A transaction that begins.                                              *)
LEMMA BeginStep ==
    ASSUME BufferInv, Begin
    PROVE  TxOk'
<1>1. /\ tx' = [active |-> TRUE, cat |-> Loaded, changes |-> <<>>, created |-> FALSE]
      /\ UNCHANGED <<table, head, calls>> /\ DbOk
  BY DEF Begin, Loaded, BufferInv
<1>2. /\ DOMAIN tx' = TxFields /\ tx'.created = FALSE /\ tx'.changes = <<>> /\ tx'.cat = Loaded
      /\ Loaded' = Loaded /\ Exists' = Exists
  BY <1>1 DEF TxFields, Loaded, Exists
<1> DEFINE d == [ok |-> TRUE, cat |-> Loaded, changes |-> <<>>]
<1>3. Exists => WholeOk(Draft, Loaded, tx.created, calls)'
  <2> SUFFICES ASSUME Exists PROVE WholeOk(Draft, Loaded, tx.created, calls)'
    OBVIOUS
  <2>1. IsDraft(d) /\ d.cat = Loaded /\ d.changes = <<>>
    <3>1. <<>> \in Seq({})
      OBVIOUS
    <3>. QED
      BY <3>1 DEF IsDraft, DraftFields, IsSeq
  <2>2. Draft' = d
    BY <1>2 DEF Draft
  <2>. HIDE DEF d
  <2>3. WholeOk(d, Loaded, FALSE, calls)
    BY <1>1, <2>1, LoadedOk
  <2>4. PICK e : e = d
    OBVIOUS
  <2>5. PICK L : L = Loaded
    OBVIOUS
  <2>6. PICK n : n = calls
    OBVIOUS
  <2>7. WholeOk(e, L, FALSE, n)'
    BY <1>1, <2>3, <2>4, <2>5, <2>6, WholeKept
  <2>8. e = Draft' /\ L = Loaded' /\ FALSE = tx'.created /\ n = calls'
    BY <1>1, <1>2, <2>2, <2>4, <2>5, <2>6
  <2>. QED
    BY <2>7, <2>8
<1>. QED
  BY <1>2, <1>3 DEF TxOk

(* A table that is created.                                                *)
LEMMA CreateStep ==
    ASSUME BufferInv, CreateTable
    PROVE  TxOk'
<1>1. /\ TxOk /\ DbOk /\ Active /\ ~ Exists /\ ~ tx.created /\ UNCHANGED <<table, head>> /\ calls' = calls + 1
  BY DEF BufferInv, CreateTable
<1>2. DOMAIN tx = TxFields /\ tx.changes = <<>>
  BY <1>1 DEF TxOk
<1>3. PICK cols \in Layouts, part \in {{}} \union Given("keys", {{1}}),
          sort \in {0} \union Given("keys", {1}),
          tag \in {Empty} \union Given("tags", {[x \in {0} |-> v] : v \in Tags}) :
          LET d == create_table(Draft, cols, part, sort, tag)
          IN tx' = [tx EXCEPT !.cat = d.cat, !.changes = d.changes, !.created = TRUE]
  BY DEF CreateTable
<1>4. part \in {{}, {1}} /\ sort \in {0, 1}
  BY DEF Given
<1>5. PICK e : e = create_table(Draft, cols, part, sort, tag)
  OBVIOUS
<1>6. tx' = [tx EXCEPT !.cat = e.cat, !.changes = e.changes, !.created = TRUE]
  BY <1>3, <1>5
<1>7. /\ DOMAIN tx' = TxFields /\ tx'.created = TRUE /\ tx'.active = tx.active
      /\ tx'.cat = e.cat /\ tx'.changes = e.changes
  BY <1>2, <1>6 DEF TxFields
<1>8. IsDraft(Draft) /\ Draft.changes = <<>>
  <2>1. <<>> \in Seq({})
    OBVIOUS
  <2>. QED
    BY <1>2, <2>1 DEF Draft, IsDraft, DraftFields, IsSeq
<1>9. table.columns = {} /\ table.data = {} /\ DOMAIN Loaded.cols = {}
  BY <1>1 DEF Exists, DbOk, RowsOk, Loaded, Load, LoadedColumns, Ids, Visible
<1>10. PICK n : n = calls + 1
  OBVIOUS
<1>11. WholeOk(e, Loaded, TRUE, n)
  BY <1>4, <1>5, <1>8, <1>9, CreateOk
<1> DEFINE f == [ok |-> TRUE, cat |-> e.cat, changes |-> e.changes]
<1>12. Draft' = f
  BY <1>7 DEF Draft
<1>13. WholeOk(f, Loaded, TRUE, n)
  BY <1>11, SameDraft DEF DraftFields
<1>14. PICK g : g = f
  OBVIOUS
<1>15. PICK L : L = Loaded
  OBVIOUS
<1>16. WholeOk(g, L, TRUE, n)'
  BY <1>1, <1>13, <1>14, <1>15, WholeKept
<1>17. g = Draft' /\ L = Loaded' /\ TRUE = tx'.created /\ n = calls'
  BY <1>1, <1>7, <1>10, <1>12, <1>14, <1>15 DEF Loaded
<1>18. WholeOk(Draft, Loaded, tx.created, calls)'
  BY <1>16, <1>17
<1>19. Exists' = Exists
  BY <1>1 DEF Exists
<1>. QED
  BY <1>1, <1>7, <1>18, <1>19 DEF TxOk, Active

-----------------------------------------------------------------------------
(* What one change does to the buffer, field by field.                     *)

BufferFields == {"columns", "retired", "parts", "part_cols", "repartitioned", "sorts", "resorted",
                 "tags", "tag_changes", "data", "part_id", "next_id"}

ColumnsAfter(columns, s, c) ==
    IF c.op \in {"create", "add"} THEN columns \union Versions(s, NewDefs(c))
    ELSE IF c.op = "update"
    THEN {r \in columns : r.id # c.key} \union Versions(s, [x \in {c.key} |-> c.val])
    ELSE IF c.op = "remove"
    THEN (columns \ {r \in columns : r.id = c.key}) \union Ended({r \in columns : r.id = c.key}, s)
    ELSE columns

PartOf(c) == IF c.op = "create" THEN c.val.part ELSE c.val
NewPart(c, s, p) == IF NeedsPart(c) THEN {[id |-> p, begin |-> s, end |-> NULL]} ELSE {}
SortOf(c) == IF c.op = "create" THEN c.val.sort ELSE c.val
NewSort(c, s, k) ==
    IF SortOf(c) = Unsorted THEN {}
    ELSE {[id |-> k, name |-> SortOf(c), begin |-> s, end |-> NULL]}

DataOf(c, p) ==
    IF c.op = "files"
    THEN {[write |-> c.key, kind |-> "files", nulls |-> c.val.nulls, cols |-> c.val.cols,
           values |-> c.val.part, part |-> IF c.val.part = {} THEN 0 ELSE p]}
    ELSE IF c.op = "inline"
    THEN {[write |-> c.val.write, kind |-> "inline", nulls |-> c.val.nulls, cols |-> c.val.cols,
           values |-> {}, part |-> 0]}
    ELSE {}

\* The fields a change of each kind is about.
ColumnEffect(b2, b, s, c) ==
    /\ b2.columns = ColumnsAfter(b.columns, s, c)
    /\ b2.retired = b.retired \union (IF c.op \in {"update", "remove"} THEN {c.key} ELSE {})

PartEffect(b2, b, s, c) ==
    /\ b2.part_id = IF NeedsPart(c) THEN partition_id(b) ELSE b.part_id
    /\ b2.next_id \in Nat /\ b.next_id <= b2.next_id
    /\ NeedsPart(c) /\ b.part_id = 0 => b.next_id < b2.next_id
    /\ b2.parts = (IF c.op = "partition" THEN Ended(b.parts, s) ELSE b.parts)
                    \union (IF c.op \in {"create", "partition"} THEN NewPart(c, s, partition_id(b)) ELSE {})
    /\ b2.part_cols = b.part_cols \union
          (IF c.op \in {"create", "partition"} THEN {[id |-> partition_id(b), col |-> x] : x \in PartOf(c)} ELSE {})
    /\ b2.repartitioned = (b.repartitioned \/ c.op = "partition")

SortEffect(b2, b, s, c) ==
    /\ b2.resorted = (b.resorted \/ c.op = "sort")
    /\ \E k : b2.sorts = (IF c.op = "sort" THEN Ended(b.sorts, s) ELSE b.sorts)
                           \union (IF c.op \in {"create", "sort"} THEN NewSort(c, s, k) ELSE {})

OtherEffect(b2, b, s, c) ==
    /\ b2.tags = b.tags \union (IF c.op = "create" THEN TagRows(s, c.val.tags) ELSE {})
    /\ b2.tag_changes = IF c.op \in {"tag", "untag"} THEN Append(b.tag_changes, c) ELSE b.tag_changes
    /\ b2.data = b.data \union DataOf(c, partition_id(b))

Effect(b2, b, s, c) ==
    /\ DOMAIN b2 = BufferFields /\ ColumnEffect(b2, b, s, c) /\ PartEffect(b2, b, s, c)
    /\ SortEffect(b2, b, s, c) /\ OtherEffect(b2, b, s, c)

IsBuffer(b) == DOMAIN b = BufferFields /\ b.next_id \in Nat /\ b.repartitioned \in BOOLEAN /\ b.resorted \in BOOLEAN

PartMade(b2, b, s, cols, p) ==
    /\ DOMAIN b2 = BufferFields
    /\ b2.part_id = IF cols = {} THEN b.part_id ELSE p
    /\ b2.next_id \in Nat /\ b.next_id <= b2.next_id /\ (cols # {} /\ b.part_id = 0 => b.next_id < b2.next_id)
    /\ b2.parts = b.parts \union IF cols = {} THEN {} ELSE {[id |-> p, begin |-> s, end |-> NULL]}
    /\ b2.part_cols = b.part_cols \union {[id |-> p, col |-> x] : x \in cols}
    /\ b2.columns = b.columns /\ b2.retired = b.retired /\ b2.repartitioned = b.repartitioned
    /\ b2.sorts = b.sorts /\ b2.resorted = b.resorted /\ b2.tags = b.tags
    /\ b2.tag_changes = b.tag_changes /\ b2.data = b.data

(* A partitioning that is created.                                         *)
LEMMA PartCreated ==
    ASSUME NEW b, IsBuffer(b), NEW s, NEW cols, NEW b2, b2 = create_partitioning(b, s, cols), NEW p, p = partition_id(b)
    PROVE  PartMade(b2, b, s, cols, p)
<1>1. CASE cols = {}
  <2>1. b2 = b
    BY <1>1 DEF create_partitioning
  <2>2. {[id |-> p, col |-> x] : x \in cols} = {}
    BY <1>1
  <2>. QED
    BY <1>1, <2>1, <2>2 DEF IsBuffer, PartMade
<1>2. CASE cols # {}
  <2> DEFINE w == WithPartitionId(b)
  <2>1. /\ DOMAIN w = BufferFields /\ w.part_id = p
        /\ w.next_id \in Nat /\ b.next_id <= w.next_id /\ (b.part_id = 0 => b.next_id < w.next_id)
        /\ w.parts = b.parts /\ w.part_cols = b.part_cols
        /\ w.columns = b.columns /\ w.retired = b.retired /\ w.repartitioned = b.repartitioned
        /\ w.sorts = b.sorts /\ w.resorted = b.resorted /\ w.tags = b.tags
        /\ w.tag_changes = b.tag_changes /\ w.data = b.data
    BY DEF WithPartitionId, partition_id, IsBuffer, BufferFields
  <2>2. b2 = [w EXCEPT !.parts = @ \union {[id |-> p, begin |-> s, end |-> NULL]},
                       !.part_cols = @ \union {[id |-> p, col |-> c] : c \in cols}]
    BY <1>2 DEF create_partitioning
  <2>. HIDE DEF w
  <2>. QED
    BY <1>2, <2>1, <2>2 DEF BufferFields, PartMade
<1>. QED
  BY <1>1, <1>2

SortMade(b2, b, s, name) ==
    /\ DOMAIN b2 = BufferFields
    /\ b2.sorts = b.sorts \union
         (IF name = Unsorted THEN {} ELSE {[id |-> b.next_id, name |-> name, begin |-> s, end |-> NULL]})
    /\ b2.next_id \in Nat /\ b.next_id <= b2.next_id
    /\ b2.columns = b.columns /\ b2.retired = b.retired /\ b2.repartitioned = b.repartitioned
    /\ b2.parts = b.parts /\ b2.part_cols = b.part_cols /\ b2.part_id = b.part_id
    /\ b2.resorted = b.resorted /\ b2.tags = b.tags
    /\ b2.tag_changes = b.tag_changes /\ b2.data = b.data

(* A sort order that is created.                                           *)
LEMMA SortCreated ==
    ASSUME NEW b, IsBuffer(b), NEW s, NEW name, NEW b2, b2 = create_sort_info(b, s, name)
    PROVE  SortMade(b2, b, s, name)
BY DEF SortMade, create_sort_info, IsBuffer, BufferFields

(* What apply does.                                                        *)
LEMMA ApplyEffect ==
    ASSUME NEW b, IsBuffer(b), NEW s, NEW c, c.op \in ChangeOps, NEW b2, b2 = apply(b, s, c)
    PROVE  Effect(b2, b, s, c)
<1>0. b.next_id \in Nat /\ DOMAIN b = BufferFields /\ b.repartitioned \in BOOLEAN /\ b.resorted \in BOOLEAN
  BY DEF IsBuffer
<1>1. CASE c.op = "create"
  <2>1. b2 = exec_create(b, s, c)
    BY <1>1 DEF apply
  <2> DEFINE p == create_partitioning(b, s, c.val.part)
             q == create_sort_info(p, s, c.val.sort)
  <2>2. b2 = [q EXCEPT !.columns = @ \union Versions(s, c.val.cols), !.tags = @ \union TagRows(s, c.val.tags)]
    BY <2>1 DEF exec_create
  <2>3. PartMade(p, b, s, c.val.part, partition_id(b))
    BY PartCreated
  <2>4. IsBuffer(p)
    BY <1>0, <2>3 DEF PartMade, IsBuffer
  <2>. HIDE DEF p
  <2>5. SortMade(q, p, s, c.val.sort)
    BY <2>4, SortCreated
  <2>. HIDE DEF q
  <2>6. /\ DOMAIN b2 = BufferFields /\ b2.columns = q.columns \union Versions(s, c.val.cols)
        /\ b2.tags = q.tags \union TagRows(s, c.val.tags)
        /\ b2.retired = q.retired /\ b2.parts = q.parts /\ b2.part_cols = q.part_cols
        /\ b2.repartitioned = q.repartitioned /\ b2.sorts = q.sorts /\ b2.resorted = q.resorted
        /\ b2.tag_changes = q.tag_changes /\ b2.data = q.data /\ b2.part_id = q.part_id /\ b2.next_id = q.next_id
    BY <2>2, <2>5 DEF SortMade, BufferFields
  <2>7. ColumnEffect(b2, b, s, c)
    BY <1>1, <2>3, <2>5, <2>6 DEF ColumnEffect, ColumnsAfter, NewDefs, PartMade, SortMade
  <2>8. PartEffect(b2, b, s, c)
    <3>1. NeedsPart(c) <=> c.val.part # {}
      BY <1>1 DEF NeedsPart
    <3>2. b2.next_id \in Nat /\ b.next_id <= b2.next_id
          /\ (NeedsPart(c) /\ b.part_id = 0 => b.next_id < b2.next_id)
      <4>1. /\ b2.next_id \in Nat /\ p.next_id \in Nat /\ p.next_id <= b2.next_id /\ b.next_id <= p.next_id
            /\ (NeedsPart(c) /\ b.part_id = 0 => b.next_id < p.next_id)
        BY <2>3, <2>5, <2>6, <3>1 DEF PartMade, SortMade
      <4>. QED
        BY <1>0, <4>1
    <3>. QED
      BY <1>0, <1>1, <2>3, <2>5, <2>6, <3>1, <3>2 DEF PartEffect, NewPart, PartOf, PartMade, SortMade
  <2>9. SortEffect(b2, b, s, c)
    <3>1. b2.sorts = b.sorts \union NewSort(c, s, p.next_id)
      BY <1>1, <2>3, <2>5, <2>6 DEF NewSort, SortOf, PartMade, SortMade
    <3>. QED
      BY <1>0, <1>1, <2>3, <2>5, <2>6, <3>1 DEF SortEffect, PartMade, SortMade
  <2>10. OtherEffect(b2, b, s, c)
    BY <1>1, <2>3, <2>5, <2>6 DEF OtherEffect, DataOf, PartMade, SortMade
  <2>. QED
    BY <2>6, <2>7, <2>8, <2>9, <2>10 DEF Effect
<1>2. CASE c.op \in {"add", "update", "remove"}
  <2>1. b2 = IF c.op = "add" THEN exec_add(b, s, c) ELSE IF c.op = "update" THEN exec_update(b, s, c) ELSE exec_remove(b, s, c)
    BY <1>2 DEF apply
  <2>2. /\ DOMAIN b2 = BufferFields /\ ColumnEffect(b2, b, s, c)
    BY <1>0, <1>2, <2>1 DEF BufferFields, exec_add, exec_update, exec_remove, ColumnEffect, ColumnsAfter, NewDefs
  <2>3. /\ b2.parts = b.parts /\ b2.part_cols = b.part_cols /\ b2.repartitioned = b.repartitioned
        /\ b2.sorts = b.sorts /\ b2.resorted = b.resorted /\ b2.tags = b.tags /\ b2.tag_changes = b.tag_changes
        /\ b2.data = b.data /\ b2.part_id = b.part_id /\ b2.next_id = b.next_id
    BY <1>0, <1>2, <2>1 DEF BufferFields, exec_add, exec_update, exec_remove
  <2>4. ~ NeedsPart(c)
    BY <1>2 DEF NeedsPart
  <2>5. PartEffect(b2, b, s, c)
    BY <1>0, <1>2, <2>3, <2>4 DEF PartEffect
  <2>6. SortEffect(b2, b, s, c) /\ OtherEffect(b2, b, s, c)
    BY <1>0, <1>2, <2>3 DEF SortEffect, OtherEffect, DataOf
  <2>. QED
    BY <2>2, <2>5, <2>6 DEF Effect
<1>3. CASE c.op = "partition"
  <2> DEFINE a == [b EXCEPT !.repartitioned = TRUE, !.parts = Ended(@, s)]
  <2>1. b2 = create_partitioning(a, s, c.val)
    BY <1>3 DEF apply, exec_partition
  <2>2. /\ DOMAIN a = BufferFields /\ a.repartitioned = TRUE /\ a.parts = Ended(b.parts, s)
        /\ a.columns = b.columns /\ a.retired = b.retired /\ a.part_cols = b.part_cols
        /\ a.sorts = b.sorts /\ a.resorted = b.resorted /\ a.tags = b.tags /\ a.tag_changes = b.tag_changes
        /\ a.data = b.data /\ a.part_id = b.part_id /\ a.next_id = b.next_id
    BY <1>0 DEF BufferFields
  <2>. HIDE DEF a
  <2>3. IsBuffer(a) /\ partition_id(a) = partition_id(b)
    BY <1>0, <2>2 DEF IsBuffer, partition_id
  <2>4. PartMade(b2, a, s, c.val, partition_id(b))
    BY <2>1, <2>3, PartCreated
  <2>5. NeedsPart(c) <=> c.val # {}
    BY <1>3 DEF NeedsPart
  <2>6. PartEffect(b2, b, s, c)
    BY <1>0, <1>3, <2>2, <2>4, <2>5 DEF PartEffect, NewPart, PartOf, PartMade
  <2>7. ColumnEffect(b2, b, s, c)
    BY <1>3, <2>2, <2>4 DEF ColumnEffect, ColumnsAfter, PartMade
  <2>8. SortEffect(b2, b, s, c) /\ OtherEffect(b2, b, s, c)
    BY <1>0, <1>3, <2>2, <2>4 DEF SortEffect, OtherEffect, DataOf, PartMade
  <2>. QED
    BY <2>4, <2>6, <2>7, <2>8 DEF Effect, PartMade
<1>4. CASE c.op = "sort"
  <2> DEFINE a == [b EXCEPT !.resorted = TRUE, !.sorts = Ended(@, s)]
  <2>1. b2 = create_sort_info(a, s, c.val)
    BY <1>4 DEF apply, exec_sort
  <2>2. /\ DOMAIN a = BufferFields /\ a.resorted = TRUE /\ a.sorts = Ended(b.sorts, s)
        /\ a.columns = b.columns /\ a.retired = b.retired /\ a.part_cols = b.part_cols
        /\ a.parts = b.parts /\ a.repartitioned = b.repartitioned /\ a.tags = b.tags /\ a.tag_changes = b.tag_changes
        /\ a.data = b.data /\ a.part_id = b.part_id /\ a.next_id = b.next_id
    BY <1>0 DEF BufferFields
  <2>. HIDE DEF a
  <2>3. IsBuffer(a)
    BY <1>0, <2>2 DEF IsBuffer
  <2>4. SortMade(b2, a, s, c.val)
    BY <2>1, <2>3, SortCreated
  <2>5. ~ NeedsPart(c)
    BY <1>4 DEF NeedsPart
  <2>6. PartEffect(b2, b, s, c)
    BY <1>0, <1>4, <2>2, <2>4, <2>5 DEF PartEffect, SortMade
  <2>7. ColumnEffect(b2, b, s, c) /\ OtherEffect(b2, b, s, c)
    BY <1>4, <2>2, <2>4 DEF ColumnEffect, ColumnsAfter, SortMade, OtherEffect, DataOf
  <2>8. SortEffect(b2, b, s, c)
    <3>1. b2.sorts = Ended(b.sorts, s) \union NewSort(c, s, a.next_id)
      BY <1>4, <2>2, <2>4 DEF NewSort, SortOf, SortMade
    <3>2. b2.resorted = TRUE
      BY <2>2, <2>4 DEF SortMade
    <3>. QED
      BY <1>4, <3>1, <3>2 DEF SortEffect
  <2>. QED
    BY <2>4, <2>6, <2>7, <2>8 DEF Effect, SortMade
<1>5. CASE c.op \in {"tag", "untag"}
  <2>1. b2 = [b EXCEPT !.tag_changes = Append(@, c)]
    BY <1>5 DEF apply, exec_tag
  <2>2. /\ DOMAIN b2 = BufferFields /\ b2.tag_changes = Append(b.tag_changes, c)
        /\ b2.columns = b.columns /\ b2.retired = b.retired
        /\ b2.parts = b.parts /\ b2.part_cols = b.part_cols /\ b2.repartitioned = b.repartitioned
        /\ b2.sorts = b.sorts /\ b2.resorted = b.resorted /\ b2.tags = b.tags
        /\ b2.data = b.data /\ b2.part_id = b.part_id /\ b2.next_id = b.next_id
    BY <1>0, <2>1 DEF BufferFields
  <2>4. ~ NeedsPart(c)
    BY <1>5 DEF NeedsPart
  <2>5. PartEffect(b2, b, s, c)
    BY <1>0, <1>5, <2>2, <2>4 DEF PartEffect
  <2>6. ColumnEffect(b2, b, s, c) /\ SortEffect(b2, b, s, c) /\ OtherEffect(b2, b, s, c)
    BY <1>0, <1>5, <2>2 DEF SortEffect, OtherEffect, DataOf, ColumnEffect, ColumnsAfter
  <2>. QED
    BY <2>2, <2>5, <2>6 DEF Effect
<1>6. CASE c.op \in {"files", "inline"}
  <2> DEFINE w == IF NeedsPart(c) THEN WithPartitionId(b) ELSE b
  <2>0. NeedsPart(c) <=> c.op = "files" /\ c.val.part # {}
    BY <1>6 DEF NeedsPart
  <2>1. b2 = [w EXCEPT !.data = @ \union DataOf(c, partition_id(b))]
    <3>1. CASE c.op = "files"
      BY <2>0, <3>1 DEF apply, exec_files, DataOf
    <3>2. CASE c.op = "inline"
      BY <2>0, <3>2 DEF apply, exec_inline, DataOf
    <3>. QED
      BY <1>6, <3>1, <3>2
  <2>2. /\ DOMAIN w = BufferFields /\ w.part_id = (IF NeedsPart(c) THEN partition_id(b) ELSE b.part_id)
        /\ w.next_id \in Nat /\ b.next_id <= w.next_id /\ (NeedsPart(c) /\ b.part_id = 0 => b.next_id < w.next_id)
        /\ w.parts = b.parts /\ w.part_cols = b.part_cols
        /\ w.columns = b.columns /\ w.retired = b.retired /\ w.repartitioned = b.repartitioned
        /\ w.sorts = b.sorts /\ w.resorted = b.resorted /\ w.tags = b.tags
        /\ w.tag_changes = b.tag_changes /\ w.data = b.data
    BY <1>0 DEF WithPartitionId, partition_id, BufferFields
  <2>. HIDE DEF w
  <2>3. /\ DOMAIN b2 = BufferFields /\ b2.data = b.data \union DataOf(c, partition_id(b))
        /\ b2.columns = b.columns /\ b2.retired = b.retired /\ b2.tag_changes = b.tag_changes
        /\ b2.parts = b.parts /\ b2.part_cols = b.part_cols /\ b2.repartitioned = b.repartitioned
        /\ b2.sorts = b.sorts /\ b2.resorted = b.resorted /\ b2.tags = b.tags
        /\ b2.part_id = w.part_id /\ b2.next_id = w.next_id
    BY <2>1, <2>2 DEF BufferFields
  <2>5. PartEffect(b2, b, s, c)
    BY <1>0, <1>6, <2>2, <2>3 DEF PartEffect
  <2>6. ColumnEffect(b2, b, s, c) /\ SortEffect(b2, b, s, c) /\ OtherEffect(b2, b, s, c)
    BY <1>0, <1>6, <2>3 DEF SortEffect, OtherEffect, ColumnEffect, ColumnsAfter
  <2>. QED
    BY <2>3, <2>5, <2>6 DEF Effect
<1>. QED
  BY <1>1, <1>2, <1>3, <1>4, <1>5, <1>6 DEF ChangeOps

-----------------------------------------------------------------------------
(* Rows that are retired and inserted: earlier snapshots stay.             *)

\* Two versions of a row that differ at most in when they end.
Twin(r2, r) == DOMAIN r2 = DOMAIN r /\ \A k \in DOMAIN r : k # "end" => r2[k] = r[k]

\* The rows `new` are the rows `old`, some of which have ended since.
Continues(new, old) ==
    \E f : /\ \A r \in old : Twin(f[r], r) /\ f[r] \in new
           /\ \A r2 \in new : \E r \in old : r2 = f[r]

Recent(rows, s) == \A r \in rows : r.begin = s /\ r.end \in {NULL, s} /\ {"id", "begin", "end"} \subseteq DOMAIN r

\* What happens to a set of rows in snapshot s.
Revised(new, old, s) == \A q \in 0 .. s - 1 : Continues(Visible(new, q), Visible(old, q))

(* Nothing happens.                                                        *)
LEMMA ContinuesItself ==
    ASSUME NEW rows
    PROVE  Continues(rows, rows)
<1> DEFINE f == [r \in rows |-> r]
<1>1. \A r \in rows : Twin(f[r], r) /\ f[r] \in rows
  BY DEF Twin
<1>2. \A r2 \in rows : \E r \in rows : r2 = f[r]
  OBVIOUS
<1>. QED
  BY <1>1, <1>2 DEF Continues

(* One revision after the other.                                           *)
LEMMA ContinuesTwice ==
    ASSUME NEW a, NEW b, NEW c, Continues(b, a), Continues(c, b)
    PROVE  Continues(c, a)
<1>1. PICK f : /\ \A r \in a : Twin(f[r], r) /\ f[r] \in b
               /\ \A r2 \in b : \E r \in a : r2 = f[r]
  BY DEF Continues
<1>2. PICK g : /\ \A r \in b : Twin(g[r], r) /\ g[r] \in c
               /\ \A r2 \in c : \E r \in b : r2 = g[r]
  BY DEF Continues
<1> DEFINE h == [r \in a |-> g[f[r]]]
<1>3. ASSUME NEW r \in a PROVE Twin(h[r], r) /\ h[r] \in c
  <2>1. Twin(f[r], r) /\ f[r] \in b /\ Twin(g[f[r]], f[r]) /\ g[f[r]] \in c
    BY <1>1, <1>2
  <2>2. h[r] = g[f[r]]
    OBVIOUS
  <2>. QED
    BY <2>1, <2>2 DEF Twin
<1>4. ASSUME NEW r2 \in c PROVE \E r \in a : r2 = h[r]
  <2>1. PICK m \in b : r2 = g[m]
    BY <1>2
  <2>2. PICK r \in a : m = f[r]
    BY <1>1
  <2>. QED
    BY <2>1, <2>2
<1>. HIDE DEF h
<1>. QED
  BY <1>3, <1>4 DEF Continues

(* In the latest snapshot the rows that are alive are visible.             *)
LEMMA VisibleIsLive ==
    ASSUME NEW h \in Nat, NEW rows, Timed(rows, h)
    PROVE  Visible(rows, h) = Live(rows)
<1>1. ASSUME NEW r \in rows PROVE VisibleAt(r, h) <=> r.end = NULL
  <2>1. r.begin \in 0 .. h /\ r.end \in {NULL} \union 0 .. h
    BY DEF Timed
  <2>2. CASE r.end = NULL
    BY <2>1, <2>2 DEF VisibleAt
  <2>3. CASE r.end # NULL
    BY <2>1, <2>3 DEF VisibleAt
  <2>. QED
    BY <2>2, <2>3
<1>. QED
  BY <1>1 DEF Visible, Live

(* Rows with the times of an earlier snapshot.                             *)
LEMMA TimedLater ==
    ASSUME NEW h \in Nat, NEW rows, Timed(rows, h)
    PROVE  Timed(rows, h + 1)
<1>1. ASSUME NEW r \in rows
      PROVE  /\ {"id", "begin", "end"} \subseteq DOMAIN r
             /\ r.begin \in 0 .. h + 1 /\ r.end \in {NULL} \union 0 .. h + 1
  <2>1. /\ {"id", "begin", "end"} \subseteq DOMAIN r
        /\ r.begin \in 0 .. h /\ r.end \in {NULL} \union 0 .. h
    BY DEF Timed
  <2>2. \A x : x \in 0 .. h => x \in 0 .. h + 1
    OBVIOUS
  <2>. QED
    BY <2>1, <2>2
<1>. QED
  BY <1>1 DEF Timed

\* The rows `all` are what is left when the rows hit are retired and new ones begin.
Retires(all, rows, hit, new, s) ==
    /\ Timed(all, s) /\ Revised(all, rows, s)
    /\ \A r : r \in Live(all) <=> (r \in Live(rows) /\ r \notin hit) \/ r \in Live(new)
    /\ Ids(rows) \subseteq Ids(all) /\ Ids(all) \subseteq Ids(rows) \union Ids(new)
    /\ \A r \in all : r \in new \/ \E r0 \in rows : Twin(r, r0)

(* Rows are retired in snapshot s, and others begin.                       *)
LEMMA RowsRevised ==
    ASSUME NEW s \in Nat, s # 0, NEW rows, Timed(rows, s), NEW hit, NEW new, Recent(new, s),
           NEW all, all = retire_rows(rows, hit, s) \union new
    PROVE  Retires(all, rows, hit, new, s)
<1> DEFINE gone == hit \intersect Live(rows)
           f == [r \in rows |-> IF r \in gone THEN [r EXCEPT !.end = s] ELSE r]
<1>1. all = (rows \ gone) \union Ended(gone, s) \union new
  BY DEF retire_rows
<1>2. NULL # s /\ \A r \in rows : r \in gone => r \in hit /\ r.end = NULL
  BY DEF Live, NULL
<1>3. ASSUME NEW r \in rows
      PROVE  /\ Twin(f[r], r) /\ f[r] \in all /\ f[r].id = r.id /\ f[r].begin = r.begin
             /\ {"id", "begin", "end"} \subseteq DOMAIN f[r]
             /\ (r \in gone => f[r].end = s) /\ (r \notin gone => f[r] = r)
  <2>1. {"id", "begin", "end"} \subseteq DOMAIN r
    BY DEF Timed
  <2>2. CASE r \in gone
    <3>1. f[r] = [r EXCEPT !.end = s]
      BY <2>2
    <3>2. f[r] \in Ended(gone, s)
      BY <2>2, <3>1 DEF Ended
    <3>3. Twin(f[r], r) /\ f[r].end = s
      BY <2>1, <3>1 DEF Twin
    <3>. HIDE DEF f
    <3>. QED
      BY <1>1, <2>1, <2>2, <3>2, <3>3 DEF Twin
  <2>3. CASE r \notin gone
    <3>1. f[r] = r
      BY <2>3
    <3>. HIDE DEF f
    <3>. QED
      BY <1>1, <2>1, <2>3, <3>1 DEF Twin
  <2>. QED
    BY <2>2, <2>3
<1>4. ASSUME NEW r \in all PROVE r \in new \/ \E r0 \in rows : r = f[r0]
  <2>1. CASE r \in rows \ gone
    BY <2>1
  <2>2. CASE r \in Ended(gone, s)
    <3>1. PICK r0 \in gone : r = [r0 EXCEPT !.end = s]
      BY <2>2 DEF Ended
    <3>2. r0 \in rows
      BY DEF Live
    <3>3. r = f[r0]
      BY <3>1, <3>2
    <3>. QED
      BY <3>2, <3>3
  <2>. QED
    BY <1>1, <2>1, <2>2
<1>. HIDE DEF f
<1>5. Timed(all, s)
  <2> SUFFICES ASSUME NEW r \in all
               PROVE  /\ {"id", "begin", "end"} \subseteq DOMAIN r
                      /\ r.begin \in 0 .. s /\ r.end \in {NULL} \union 0 .. s
    BY DEF Timed
  <2>1. CASE r \in new
    BY <2>1 DEF Recent
  <2>2. ASSUME NEW r0 \in rows, r = f[r0] PROVE /\ {"id", "begin", "end"} \subseteq DOMAIN r
                      /\ r.begin \in 0 .. s /\ r.end \in {NULL} \union 0 .. s
    <3>1. r0.begin \in 0 .. s /\ r0.end \in {NULL} \union 0 .. s /\ s \in 0 .. s
      BY DEF Timed
    <3>. QED
      BY <1>3, <2>2, <3>1
  <2>. QED
    BY <1>4, <2>1, <2>2
<1>6. ASSUME NEW q \in 0 .. s - 1 PROVE Continues(Visible(all, q), Visible(rows, q))
  <2>0. q \in Nat /\ q < s
    OBVIOUS
  <2>1. ASSUME NEW r \in rows PROVE VisibleAt(f[r], q) <=> VisibleAt(r, q)
    <3>1. CASE r \in gone
      BY <1>2, <1>3, <2>0, <3>1 DEF VisibleAt
    <3>2. CASE r \notin gone
      BY <1>3, <3>2
    <3>. QED
      BY <3>1, <3>2
  <2>2. \A r \in new : ~ VisibleAt(r, q)
    BY <2>0 DEF Recent, VisibleAt
  <2>3. \A r \in Visible(rows, q) : Twin(f[r], r) /\ f[r] \in Visible(all, q)
    BY <1>3, <2>1 DEF Visible
  <2>4. \A r2 \in Visible(all, q) : \E r \in Visible(rows, q) : r2 = f[r]
    BY <1>4, <2>1, <2>2 DEF Visible
  <2>. QED
    BY <2>3, <2>4 DEF Continues
<1>7. ASSUME NEW r PROVE r \in Live(all) <=> (r \in Live(rows) /\ r \notin hit) \/ r \in Live(new)
  <2>1. ASSUME r \in Live(all), r \notin new PROVE r \in Live(rows) /\ r \notin hit
    <3>1. r \in all /\ r.end = NULL
      BY <2>1 DEF Live
    <3>2. PICK r0 \in rows : r = f[r0]
      BY <1>4, <2>1, <3>1
    <3>3. r0 \notin gone
      BY <1>2, <1>3, <3>1, <3>2
    <3>4. r = r0
      BY <1>3, <3>2, <3>3
    <3>. QED
      BY <3>1, <3>3, <3>4 DEF Live
  <2>2. ASSUME r \in Live(rows), r \notin hit PROVE r \in Live(all)
    BY <1>1, <2>2 DEF Live
  <2>3. r \in Live(new) => r \in Live(all)
    BY <1>1 DEF Live
  <2>4. r \in Live(all) /\ r \in new => r \in Live(new)
    BY DEF Live
  <2>. QED
    BY <2>1, <2>2, <2>3, <2>4
<1>8. Ids(rows) \subseteq Ids(all)
  BY <1>3 DEF Ids
<1>9. Ids(all) \subseteq Ids(rows) \union Ids(new)
  BY <1>3, <1>4 DEF Ids
<1>10. \A r \in all : r \in new \/ \E r0 \in rows : Twin(r, r0)
  BY <1>3, <1>4
<1>. HIDE DEF gone
<1>. QED
  BY <1>5, <1>6, <1>7, <1>8, <1>9, <1>10 DEF Revised, Retires

(* What is the same in a set of rows that continues another.               *)
LEMMA ContinuesFacts ==
    ASSUME NEW new, NEW old, Continues(new, old), \A r \in old : "id" \in DOMAIN r
    PROVE  /\ Ids(new) = Ids(old) /\ (new = {} <=> old = {})
           /\ \A r2 \in new : \E r \in old : Twin(r2, r)
           /\ OneEach(old) => OneEach(new)
           /\ AtMostOne(old) => AtMostOne(new)
<1>1. PICK f : /\ \A r \in old : Twin(f[r], r) /\ f[r] \in new
               /\ \A r2 \in new : \E r \in old : r2 = f[r]
  BY DEF Continues
<1>2. \A r \in old : f[r].id = r.id
  BY <1>1 DEF Twin
<1>3. Ids(new) = Ids(old)
  BY <1>1, <1>2 DEF Ids
<1>4. new = {} <=> old = {}
  BY <1>1
<1>5. OneEach(old) => OneEach(new)
  BY <1>1, <1>2 DEF OneEach
<1>6. AtMostOne(old) => AtMostOne(new)
  BY <1>1 DEF AtMostOne
<1>. QED
  BY <1>1, <1>3, <1>4, <1>5, <1>6

(* The row with an ID.                                                     *)
LEMMA RowFound ==
    ASSUME NEW rows, NEW x \in Ids(rows)
    PROVE  RowOf(rows, x) \in rows /\ RowOf(rows, x).id = x
<1>1. \E r \in rows : r.id = x
  BY DEF Ids
<1>. QED
  BY <1>1 DEF RowOf

\* Nothing is known of the partition columns but those of partitionings that were there.
SameKeys(new, old, ids) ==
    \A p \in ids : {k.col : k \in {r \in new : r.id = p}} = {k.col : k \in {r \in old : r.id = p}}

RowShapes(t) ==
    /\ \A r \in t.columns : DOMAIN r = ColumnFields
    /\ \A r \in t.parts : "id" \in DOMAIN r
    /\ \A r \in t.sorts : {"id", "name"} \subseteq DOMAIN r
    /\ \A r \in t.tags : DOMAIN r = TagFields

SnapshotKept(t2, t, q) ==
    /\ Continues(Visible(t2.columns, q), Visible(t.columns, q))
    /\ Continues(Visible(t2.parts, q), Visible(t.parts, q))
    /\ Continues(Visible(t2.sorts, q), Visible(t.sorts, q))
    /\ Continues(Visible(t2.tags, q), Visible(t.tags, q))
    /\ SameKeys(t2.part_cols, t.part_cols, Ids(t.parts))

\* The root column with a name.
SortColumn(cols, name) ==
    CHOOSE c \in DOMAIN cols \union {NULL} :
        \/ c # NULL /\ cols[c].parent = 0 /\ cols[c].name = name
        \/ c = NULL /\ \A d \in DOMAIN cols : cols[d].parent = 0 => cols[d].name # name

(* How the sort order is found.                                            *)
LEMMA SortLoaded ==
    ASSUME NEW t, NEW q, Visible(t.sorts, q) # {}, NEW name, \A i \in Visible(t.sorts, q) : i.name = name
    PROVE  LoadedSort(t, q) = SortColumn(LoadedColumns(t, q), name)
<1>1. (CHOOSE i \in Visible(t.sorts, q) : TRUE) \in Visible(t.sorts, q)
  OBVIOUS
<1>2. (CHOOSE i \in Visible(t.sorts, q) : TRUE).name = name
  BY <1>1
<1>. QED
  BY <1>2 DEF LoadedSort, SortColumn

(* A snapshot of which only ends of rows have changed is loaded as before. *)
LEMMA SameSnapshot ==
    ASSUME NEW t, NEW t2, NEW q, RowShapes(t), SnapOk(t, q), SnapshotKept(t2, t, q)
    PROVE  Load(t2, q) = Load(t, q) /\ SnapOk(t2, q)
<1> DEFINE C == Visible(t.columns, q)
           P == Visible(t.parts, q)
           S == Visible(t.sorts, q)
           G == Visible(t.tags, q)
           C2 == Visible(t2.columns, q)
           P2 == Visible(t2.parts, q)
           S2 == Visible(t2.sorts, q)
           G2 == Visible(t2.tags, q)
<1>1. /\ \A r \in C : DOMAIN r = ColumnFields /\ "id" \in DOMAIN r
      /\ \A r \in P : "id" \in DOMAIN r
      /\ \A r \in S : "id" \in DOMAIN r /\ "name" \in DOMAIN r
      /\ \A r \in G : DOMAIN r = TagFields /\ "id" \in DOMAIN r
      /\ Ids(P) \subseteq Ids(t.parts)
  BY DEF RowShapes, Visible, ColumnFields, TagFields, Ids
<1>2. /\ Continues(C2, C) /\ Continues(P2, P) /\ Continues(S2, S) /\ Continues(G2, G)
      /\ SameKeys(t2.part_cols, t.part_cols, Ids(t.parts))
  BY DEF SnapshotKept
<1>3. /\ OneEach(C) /\ OneEach(G) /\ AtMostOne(P) /\ AtMostOne(S) /\ CatOk(Load(t, q))
      /\ (P # {} => LoadedPart(t, q).cols # {})
      /\ \A i \in S : i.name = SortName(Load(t, q)) /\ i.name # Unsorted
  BY DEF SnapOk
<1>4. /\ Ids(C2) = Ids(C) /\ (\A r2 \in C2 : \E r \in C : Twin(r2, r)) /\ OneEach(C2)
  BY <1>1, <1>2, <1>3, ContinuesFacts
<1>5. Ids(P2) = Ids(P) /\ (P2 = {} <=> P = {}) /\ AtMostOne(P2)
  BY <1>1, <1>2, <1>3, ContinuesFacts
<1>6. (\A r2 \in S2 : \E r \in S : Twin(r2, r)) /\ (S2 = {} <=> S = {}) /\ AtMostOne(S2)
  BY <1>1, <1>2, <1>3, ContinuesFacts
<1>7. Ids(G2) = Ids(G) /\ (\A r2 \in G2 : \E r \in G : Twin(r2, r)) /\ OneEach(G2)
  BY <1>1, <1>2, <1>3, ContinuesFacts
<1>. HIDE DEF C, P, S, G, C2, P2, S2, G2
<1>8. LoadedColumns(t2, q) = LoadedColumns(t, q)
  <2>1. ASSUME NEW x \in Ids(C)
        PROVE  /\ RowOf(C2, x).parent = RowOf(C, x).parent /\ RowOf(C2, x).name = RowOf(C, x).name
               /\ RowOf(C2, x).type = RowOf(C, x).type /\ RowOf(C2, x).nullable = RowOf(C, x).nullable
    <3>1. RowOf(C, x) \in C /\ RowOf(C, x).id = x /\ RowOf(C2, x) \in C2 /\ RowOf(C2, x).id = x
      BY <1>4, RowFound
    <3>2. PICK r \in C : Twin(RowOf(C2, x), r)
      BY <1>4, <3>1
    <3>3. r.id = x
      BY <1>1, <3>1, <3>2 DEF Twin
    <3>4. r = RowOf(C, x)
      BY <1>3, <3>1, <3>3 DEF OneEach
    <3>5. DOMAIN r = ColumnFields
      BY <1>1
    <3>. QED
      BY <3>2, <3>4, <3>5 DEF Twin, ColumnFields
  <2>2. LoadedColumns(t2, q) = [x \in Ids(C2) |-> Column(RowOf(C2, x).parent, RowOf(C2, x).name, RowOf(C2, x).type, RowOf(C2, x).nullable)]
    BY DEF LoadedColumns, C2
  <2>3. LoadedColumns(t, q) = [x \in Ids(C) |-> Column(RowOf(C, x).parent, RowOf(C, x).name, RowOf(C, x).type, RowOf(C, x).nullable)]
    BY DEF LoadedColumns, C
  <2>. QED
    BY <1>4, <2>1, <2>2, <2>3
<1>9. LoadedPart(t2, q) = LoadedPart(t, q)
  <2>1. CASE P = {}
    BY <1>5, <2>1 DEF LoadedPart, P, P2
  <2>2. CASE P # {}
    <3> DEFINE p == CHOOSE p \in Ids(P) : TRUE
    <3>1. p \in Ids(P)
      BY <2>2 DEF Ids
    <3>2. {k.col : k \in {r \in t2.part_cols : r.id = p}} = {k.col : k \in {r \in t.part_cols : r.id = p}}
      BY <1>1, <1>2, <3>1 DEF SameKeys
    <3>3. LoadedPart(t, q) = [id |-> p, cols |-> {k.col : k \in {r \in t.part_cols : r.id = p}}]
      BY <2>2 DEF LoadedPart, P
    <3>4. LoadedPart(t2, q) = [id |-> CHOOSE i \in Ids(P2) : TRUE,
             cols |-> {k.col : k \in {r \in t2.part_cols : r.id = CHOOSE i \in Ids(P2) : TRUE}}]
      BY <1>5, <2>2 DEF LoadedPart, P2
    <3>5. (CHOOSE i \in Ids(P2) : TRUE) = p
      BY <1>5
    <3>. QED
      BY <3>2, <3>3, <3>4, <3>5
  <2>. QED
    BY <2>1, <2>2
<1>10. \A i \in S2 : i.name = SortName(Load(t, q)) /\ i.name # Unsorted
  BY <1>1, <1>3, <1>6 DEF Twin
<1>11. LoadedSort(t2, q) = LoadedSort(t, q)
  <2>1. CASE S = {}
    BY <1>6, <2>1 DEF LoadedSort, S, S2
  <2>2. CASE S # {}
    <3>1. LoadedSort(t, q) = SortColumn(LoadedColumns(t, q), SortName(Load(t, q)))
      BY <1>3, <2>2, SortLoaded DEF S
    <3>2. LoadedSort(t2, q) = SortColumn(LoadedColumns(t2, q), SortName(Load(t, q)))
      BY <1>6, <1>10, <2>2, SortLoaded DEF S2
    <3>. QED
      BY <1>8, <3>1, <3>2
  <2>. QED
    BY <2>1, <2>2
<1>12. LoadedTags(t2, q) = LoadedTags(t, q)
  <2>1. ASSUME NEW x \in Ids(G) PROVE RowOf(G2, x).value = RowOf(G, x).value
    <3>1. RowOf(G, x) \in G /\ RowOf(G, x).id = x /\ RowOf(G2, x) \in G2 /\ RowOf(G2, x).id = x
      BY <1>7, RowFound
    <3>2. PICK r \in G : Twin(RowOf(G2, x), r)
      BY <1>7, <3>1
    <3>3. r.id = x
      BY <1>1, <3>1, <3>2 DEF Twin
    <3>4. r = RowOf(G, x)
      BY <1>3, <3>1, <3>3 DEF OneEach
    <3>5. DOMAIN r = TagFields
      BY <1>1
    <3>. QED
      BY <3>2, <3>4, <3>5 DEF Twin, TagFields
  <2>2. LoadedTags(t2, q) = [x \in Ids(G2) |-> RowOf(G2, x).value]
    BY DEF LoadedTags, G2
  <2>3. LoadedTags(t, q) = [x \in Ids(G) |-> RowOf(G, x).value]
    BY DEF LoadedTags, G
  <2>. QED
    BY <1>7, <2>1, <2>2, <2>3
<1>13. Load(t2, q) = Load(t, q)
  BY <1>8, <1>9, <1>11, <1>12 DEF Load
<1>14. SnapOk(t2, q)
  BY <1>3, <1>4, <1>5, <1>6, <1>7, <1>9, <1>10, <1>13 DEF SnapOk, C2, P2, S2, G2
<1>. QED
  BY <1>13, <1>14

-----------------------------------------------------------------------------
(* The buffer after each change.                                           *)

(* What holds at the start and is kept by each step holds at every position. *)
LEMMA Induct ==
    ASSUME NEW n \in Nat, NEW S, 0 \in S, \A i \in 1 .. n : i - 1 \in S => i \in S
    PROVE  0 .. n \subseteq S
<1> DEFINE T == {m \in 0 .. n : m \notin S}
<1>1. SUFFICES ASSUME T # {} PROVE FALSE
  OBVIOUS
<1>2. T \subseteq Nat
  OBVIOUS
<1>3. PICK m \in T : \A k \in T : m <= k
  BY <1>1, <1>2, Least
<1>4. m \in 0 .. n /\ m \notin S /\ m # 0
  BY <1>3
<1>5. m \in 1 .. n /\ m - 1 \in 0 .. n /\ ~ (m <= m - 1)
  BY <1>4
<1>6. m - 1 \notin T
  BY <1>3, <1>5
<1>. QED
  BY <1>4, <1>5, <1>6

\* The changes that stay are applied one after the other.
Applied(b, cs, s) ==
    /\ Len(cs) \in Nat /\ DOMAIN cs = 1 .. Len(cs) /\ b[0] = NoBuffer(tx.cat)
    /\ \A i \in 0 .. Len(cs) : IsBuffer(b[i])
    /\ \A i \in DOMAIN cs : IF i \in ChangeSet(cs) THEN Effect(b[i], b[i - 1], s, cs[i]) ELSE b[i] = b[i - 1]

(* How a buffer is filled.                                                 *)
LEMMA BufferApplied ==
    ASSUME NEW cs, NEW s, IsSeq(cs), \A i \in DOMAIN cs : cs[i].op \in ChangeOps, next_id \in Nat
    PROVE  \E b : Applied(b, cs, s) /\ Buffer(cs, s) = b[Len(cs)]
<1>1. Len(cs) \in Nat /\ DOMAIN cs = 1 .. Len(cs)
  BY LenProperties DEF IsSeq
<1>2. PICK b : Fills(b, cs, s, Len(cs)) /\ Buffer(cs, s) = b[Len(cs)]
  BY <1>1, BufferFilled
<1>3. b[0] = NoBuffer(tx.cat) /\ \A i \in 1 .. Len(cs) : b[i] = apply_next(b[i - 1], cs, s, i)
  BY <1>2 DEF Fills
<1> DEFINE S == {i \in 0 .. Len(cs) : IsBuffer(b[i])}
<1>4. 0 \in S
  <2>1. IsBuffer(NoBuffer(tx.cat))
    BY DEF IsBuffer, NoBuffer, BufferFields
  <2>. QED
    BY <1>1, <1>3, <2>1
<1>5. ASSUME NEW i \in 1 .. Len(cs), i - 1 \in S
      PROVE  i \in S /\ IF i \in ChangeSet(cs) THEN Effect(b[i], b[i - 1], s, cs[i]) ELSE b[i] = b[i - 1]
  <2>1. i \in 0 .. Len(cs) /\ i \in DOMAIN cs /\ IsBuffer(b[i - 1])
    BY <1>1, <1>5
  <2>2. CASE i \in ChangeSet(cs)
    <3>1. b[i] = apply(b[i - 1], s, cs[i])
      BY <1>3, <2>2 DEF apply_next
    <3>2. Effect(b[i], b[i - 1], s, cs[i])
      BY <2>1, <3>1, ApplyEffect
    <3>3. IsBuffer(b[i])
      BY <2>1, <3>2 DEF Effect, PartEffect, SortEffect, IsBuffer
    <3>. QED
      BY <2>1, <2>2, <3>2, <3>3
  <2>3. CASE i \notin ChangeSet(cs)
    BY <1>3, <2>1, <2>3 DEF apply_next
  <2>. QED
    BY <2>2, <2>3
<1>6. 0 .. Len(cs) \subseteq S
  <2>. HIDE DEF S
  <2>. QED
    BY <1>1, <1>4, <1>5, Induct
<1>7. \A i \in 0 .. Len(cs) : IsBuffer(b[i])
  BY <1>6
<1>8. \A i \in DOMAIN cs : i - 1 \in S
  BY <1>1, <1>6
<1>. HIDE DEF S
<1>. QED
  BY <1>1, <1>2, <1>3, <1>5, <1>7, <1>8 DEF Applied

(* The changes that stay are the last ones of their kind.                  *)
LEMMA StaysIfLast ==
    ASSUME NEW cs, DOMAIN cs = 1 .. Len(cs), Len(cs) \in Nat, NEW i \in DOMAIN cs, NEW op, NEW key, cs[i].op = op, cs[i].key = key
    PROVE  i \in ChangeSet(cs) <=> IsLast(i, At(cs, op, key))
<1>1. \A j \in DOMAIN cs : HashableChange(cs[j]) = HashableChange(cs[i]) <=> j \in At(cs, op, key)
  BY DEF HashableChange, At
<1>2. \A j \in DOMAIN cs : ~ (i < j) <=> j <= i
  OBVIOUS
<1>3. At(cs, op, key) \subseteq DOMAIN cs /\ i \in At(cs, op, key)
  BY DEF At
<1>. QED
  BY <1>1, <1>2, <1>3 DEF ChangeSet, IsLast

(* One change of a kind stays, if there are any.                           *)
LEMMA OneStays ==
    ASSUME NEW cs, DOMAIN cs = 1 .. Len(cs), Len(cs) \in Nat, NEW op, NEW key
    PROVE  /\ At(cs, op, key) # {} => \E i \in At(cs, op, key) : i \in ChangeSet(cs)
           /\ \A i \in At(cs, op, key) : i \in ChangeSet(cs) <=> IsLast(i, At(cs, op, key))
           /\ \A i, j \in At(cs, op, key) : i \in ChangeSet(cs) /\ j \in ChangeSet(cs) => i = j
<1>1. \A i \in At(cs, op, key) : i \in DOMAIN cs /\ cs[i].op = op /\ cs[i].key = key
  BY DEF At
<1>2. \A i \in At(cs, op, key) : i \in ChangeSet(cs) <=> IsLast(i, At(cs, op, key))
  BY <1>1, StaysIfLast
<1>3. ASSUME At(cs, op, key) # {} PROVE \E i \in At(cs, op, key) : i \in ChangeSet(cs)
  <2>1. At(cs, op, key) \subseteq 0 .. Len(cs)
    BY <1>1
  <2>2. PICK i : IsLast(i, At(cs, op, key))
    BY <1>3, <2>1, LastExists
  <2>. QED
    BY <1>2, <2>2 DEF IsLast
<1>4. ASSUME NEW i \in At(cs, op, key), NEW j \in At(cs, op, key), i \in ChangeSet(cs), j \in ChangeSet(cs) PROVE i = j
  <2>1. i <= j /\ j <= i /\ i \in Nat /\ j \in Nat
    BY <1>1, <1>2, <1>4 DEF IsLast
  <2>. QED
    BY <2>1
<1>. QED
  BY <1>2, <1>3, <1>4

\* A change at one of the positions S stays and has been applied.
Done(cs, S, i) == \E j \in S : j \in ChangeSet(cs) /\ j <= i

(* What has been done so far.                                              *)
LEMMA DoneNext ==
    ASSUME NEW cs, DOMAIN cs = 1 .. Len(cs), Len(cs) \in Nat, NEW S, S \subseteq DOMAIN cs
    PROVE  /\ ~ Done(cs, S, 0)
           /\ \A i \in DOMAIN cs : Done(cs, S, i) <=> Done(cs, S, i - 1) \/ (i \in S /\ i \in ChangeSet(cs))
           /\ Done(cs, S, Len(cs)) <=> \E j \in S : j \in ChangeSet(cs)
<1>1. ~ Done(cs, S, 0)
  BY DEF Done
<1>2. \A i \in DOMAIN cs : \A j \in S : j <= i <=> j <= i - 1 \/ j = i
  OBVIOUS
<1>3. \A i \in DOMAIN cs : Done(cs, S, i) <=> Done(cs, S, i - 1) \/ (i \in S /\ i \in ChangeSet(cs))
  <2> SUFFICES ASSUME NEW i \in DOMAIN cs PROVE Done(cs, S, i) <=> Done(cs, S, i - 1) \/ (i \in S /\ i \in ChangeSet(cs))
    OBVIOUS
  <2>1. \A j \in S : j <= i <=> j <= i - 1 \/ j = i
    BY <1>2
  <2>2. i <= i
    OBVIOUS
  <2>. QED
    BY <2>1, <2>2, Zenon DEF Done
<1>4. \A j \in S : j <= Len(cs)
  OBVIOUS
<1>. QED
  BY <1>1, <1>3, <1>4 DEF Done

\* The row of a column, and the rows of column x among others.
ColumnVersion(s, x, def) ==
    [id |-> x, parent |-> def.parent, name |-> def.name, type |-> def.type,
     nullable |-> def.nullable, begin |-> s, end |-> NULL]
RowsAt(rows, x) == {r \in rows : r.id = x}

(* The rows of one column after a change.                                  *)
LEMMA RowsOfColumn ==
    ASSUME NEW columns, NEW s, NEW c, c.op \in ChangeOps, NEW x, NEW new, new = ColumnsAfter(columns, s, c),
           \A r \in columns : DOMAIN r = ColumnFields
    PROVE  /\ x \in DOMAIN NewDefs(c) => RowsAt(new, x) = RowsAt(columns, x) \union {ColumnVersion(s, x, NewDefs(c)[x])}
           /\ c.op = "update" /\ c.key = x => RowsAt(new, x) = {ColumnVersion(s, x, c.val)}
           /\ c.op = "remove" /\ c.key = x => RowsAt(new, x) = Ended(RowsAt(columns, x), s)
           /\ x \notin DOMAIN NewDefs(c) /\ ~ (c.op \in {"update", "remove"} /\ c.key = x) => RowsAt(new, x) = RowsAt(columns, x)
<1>0. \A y, d : ColumnVersion(s, y, d).id = y
  BY DEF ColumnVersion
<1>1. \A defs : Versions(s, defs) = {ColumnVersion(s, y, defs[y]) : y \in DOMAIN defs}
  BY DEF Versions, ColumnVersion
<1>2. ASSUME NEW rows, \A r \in rows : DOMAIN r = ColumnFields
      PROVE  \A r \in Ended(rows, s) : \E q \in rows : r = [q EXCEPT !.end = s] /\ r.id = q.id
  BY <1>2 DEF Ended, ColumnFields
<1>. HIDE DEF ColumnVersion
<1>3. CASE c.op \in {"create", "add"}
  <2>1. new = columns \union Versions(s, NewDefs(c))
    BY <1>3 DEF ColumnsAfter
  <2>2. x \in DOMAIN NewDefs(c) => RowsAt(new, x) = RowsAt(columns, x) \union {ColumnVersion(s, x, NewDefs(c)[x])}
    BY <1>0, <1>1, <2>1 DEF RowsAt
  <2>3. x \notin DOMAIN NewDefs(c) => RowsAt(new, x) = RowsAt(columns, x)
    BY <1>0, <1>1, <2>1 DEF RowsAt
  <2>. QED
    BY <1>3, <2>2, <2>3
<1>4. CASE c.op = "update"
  <2>0. NewDefs(c) = Empty /\ DOMAIN Empty = {}
    BY <1>4 DEF NewDefs, Empty
  <2>1. new = {r \in columns : r.id # c.key} \union Versions(s, [y \in {c.key} |-> c.val])
    BY <1>4 DEF ColumnsAfter
  <2>2. Versions(s, [y \in {c.key} |-> c.val]) = {ColumnVersion(s, c.key, c.val)}
    BY <1>1
  <2>3. c.key = x => RowsAt(new, x) = {ColumnVersion(s, x, c.val)}
    BY <1>0, <2>1, <2>2 DEF RowsAt
  <2>4. c.key # x => RowsAt(new, x) = RowsAt(columns, x)
    BY <1>0, <2>1, <2>2 DEF RowsAt
  <2>. QED
    BY <1>4, <2>0, <2>3, <2>4
<1>5. CASE c.op = "remove"
  <2>0. NewDefs(c) = Empty /\ DOMAIN Empty = {}
    BY <1>5 DEF NewDefs, Empty
  <2> DEFINE old == {r \in columns : r.id = c.key}
  <2>1. new = (columns \ old) \union Ended(old, s)
    BY <1>5 DEF ColumnsAfter
  <2>2. \A r \in Ended(old, s) : r.id = c.key
    BY <1>2
  <2>3. c.key = x => RowsAt(new, x) = Ended(RowsAt(columns, x), s)
    BY <2>1, <2>2 DEF RowsAt
  <2>4. c.key # x => RowsAt(new, x) = RowsAt(columns, x)
    BY <2>1, <2>2 DEF RowsAt
  <2>. QED
    BY <1>5, <2>0, <2>3, <2>4
<1>6. CASE c.op \notin {"create", "add", "update", "remove"}
  <2>0. NewDefs(c) = Empty /\ DOMAIN Empty = {}
    BY <1>6 DEF NewDefs, Empty
  <2>1. new = columns
    BY <1>6 DEF ColumnsAfter
  <2>. QED
    BY <1>6, <2>0, <2>1
<1>. QED
  BY <1>3, <1>4, <1>5, <1>6

\* Rows of columns S that begin in snapshot s.
RecentColumns(rows, S, s) ==
    \A r \in rows : DOMAIN r = ColumnFields /\ r.begin = s /\ r.end \in {NULL, s} /\ r.id \in S

(* Rows of columns that a change leaves behind.                            *)
LEMMA RowsAreRecent ==
    ASSUME NEW columns, NEW s, NEW c, NEW new, new = ColumnsAfter(columns, s, c), NEW S,
           RecentColumns(columns, S, s), DOMAIN NewDefs(c) \subseteq S, c.op = "update" => c.key \in S
    PROVE  RecentColumns(new, S, s)
<1>1. ASSUME NEW defs, DOMAIN defs \subseteq S
      PROVE  RecentColumns(Versions(s, defs), S, s)
  BY <1>1 DEF Versions, ColumnFields, RecentColumns
<1>2. ASSUME NEW rows, rows \subseteq columns
      PROVE  RecentColumns(Ended(rows, s), S, s)
  BY <1>2 DEF Ended, ColumnFields, RecentColumns
<1>3. CASE c.op \in {"create", "add"}
  BY <1>1, <1>3 DEF ColumnsAfter, RecentColumns
<1>4. CASE c.op = "update"
  <2>1. DOMAIN [x \in {c.key} |-> c.val] \subseteq S
    BY <1>4
  <2>. QED
    BY <1>1, <1>4, <2>1 DEF ColumnsAfter, RecentColumns
<1>5. CASE c.op = "remove"
  BY <1>2, <1>5 DEF ColumnsAfter, RecentColumns
<1>6. CASE c.op \notin {"create", "add", "update", "remove"}
  BY <1>6 DEF ColumnsAfter, RecentColumns
<1>. QED
  BY <1>3, <1>4, <1>5, <1>6

\* What the buffer B says of column x when the changes up to i are applied.
ColumnState(B, cs, cat, s, x, i) ==
    LET updated == Done(cs, At(cs, "update", x), i)
        removed == Done(cs, At(cs, "remove", x), i)
        added == Done(cs, AddsAt(cs, x), i)
        rows == RowsAt(B.columns, x)
    IN /\ removed => Live(rows) = {}
       /\ ~ removed /\ updated => rows = {ColumnVersion(s, x, cat.cols[x])}
       /\ ~ removed /\ ~ updated /\ added => \E a \in AddsAt(cs, x) : rows = {ColumnVersion(s, x, NewDefs(cs[a])[x])}
       /\ ~ removed /\ ~ updated /\ ~ added => rows = {}
       /\ added => rows # {}
       /\ x \in B.retired <=> updated \/ removed

BufferRows(B, cat, s) == RecentColumns(B.columns, DOMAIN cat.cols, s)

(* The rows of the buffer are rows of the snapshot that is made.           *)
LEMMA BufferRowsOk ==
    ASSUME NEW b, NEW cs, NEW s, Applied(b, cs, s), NEW created, ListOk(cs, created),
           NEW cat, NEW L, ColumnsOk(cs, cat, L), NEW i \in 0 .. Len(cs)
    PROVE  BufferRows(b[i], cat, s)
<1> DEFINE S == {j \in 0 .. Len(cs) : BufferRows(b[j], cat, s)}
<1>1. Len(cs) \in Nat /\ DOMAIN cs = 1 .. Len(cs) /\ b[0] = NoBuffer(tx.cat)
  BY DEF Applied
<1>2. 0 \in S
  <2>1. b[0].columns = {}
    BY <1>1 DEF NoBuffer
  <2>. QED
    BY <1>1, <2>1 DEF BufferRows, RecentColumns
<1>3. ASSUME NEW j \in 1 .. Len(cs), j - 1 \in S PROVE j \in S
  <2>1. j \in DOMAIN cs /\ j \in 0 .. Len(cs) /\ BufferRows(b[j - 1], cat, s)
    BY <1>1, <1>3
  <2>2. CASE j \in ChangeSet(cs)
    <3>1. b[j].columns = ColumnsAfter(b[j - 1].columns, s, cs[j])
      BY <2>1, <2>2 DEF Applied, Effect, ColumnEffect
    <3>2. \A x : x \in DOMAIN NewDefs(cs[j]) => x \in DOMAIN cat.cols
      BY <2>1 DEF ColumnsOk, ColumnOk, AddsAt
    <3>3. cs[j].op = "update" => cs[j].key \in DOMAIN cat.cols
      BY <2>1 DEF ColumnsOk, ColumnOk, At
    <3>5. DOMAIN NewDefs(cs[j]) \subseteq DOMAIN cat.cols
      BY <3>2
    <3>7. BufferRows(b[j], cat, s)
      BY <2>1, <3>1, <3>3, <3>5, RowsAreRecent DEF BufferRows
    <3>. QED
      BY <2>1, <3>7
  <2>3. CASE j \notin ChangeSet(cs)
    <3>1. b[j] = b[j - 1]
      BY <2>1, <2>3 DEF Applied
    <3>. QED
      BY <2>1, <3>1
  <2>. QED
    BY <2>2, <2>3
<1>. HIDE DEF S
<1>4. i \in S
  BY <1>1, <1>2, <1>3, Induct
<1>. QED
  BY <1>4 DEF S

(* No change that adds a column is dropped.                                *)
LEMMA AddsStay ==
    ASSUME NEW cs, DOMAIN cs = 1 .. Len(cs), Len(cs) \in Nat, NEW created, ListOk(cs, created),
           NEW cat, NEW L, NEW x, ColumnOk(cs, cat, L, x), NEW a \in AddsAt(cs, x)
    PROVE  a \in ChangeSet(cs)
<1>1. a \in DOMAIN cs /\ x \in DOMAIN NewDefs(cs[a])
  BY DEF AddsAt
<1>2. cs[a].op \in {"create", "add"}
  BY <1>1 DEF NewDefs, Empty
<1>3. ASSUME NEW j \in DOMAIN cs, a < j, HashableChange(cs[j]) = HashableChange(cs[a]) PROVE FALSE
  <2>1. cs[j].op = cs[a].op /\ cs[j].key = cs[a].key
    BY <1>3 DEF HashableChange
  <2>2. CASE cs[a].op = "create"
    <3>1. a = 1 /\ j = 1
      BY <1>1, <2>1, <2>2 DEF ListOk
    <3>. QED
      BY <1>3, <3>1
  <2>3. CASE cs[a].op = "add"
    <3>1. x \in DOMAIN NewDefs(cs[j])
      BY <1>1, <2>1, <2>3 DEF ListOk, NewDefs
    <3>2. j \in AddsAt(cs, x)
      BY <3>1 DEF AddsAt
    <3>3. j = a
      BY <3>2 DEF ColumnOk
    <3>. QED
      BY <1>1, <1>3, <3>3
  <2>. QED
    BY <1>2, <2>2, <2>3
<1>. QED
  BY <1>1, <1>3 DEF ChangeSet

\* ColumnState with what has been done spelled out.
ColumnIs(B, cs, cat, s, x, added, updated, removed) ==
    /\ removed => Live(RowsAt(B.columns, x)) = {}
    /\ ~ removed /\ updated => RowsAt(B.columns, x) = {ColumnVersion(s, x, cat.cols[x])}
    /\ ~ removed /\ ~ updated /\ added =>
          \E a \in AddsAt(cs, x) : RowsAt(B.columns, x) = {ColumnVersion(s, x, NewDefs(cs[a])[x])}
    /\ ~ removed /\ ~ updated /\ ~ added => RowsAt(B.columns, x) = {}
    /\ added => RowsAt(B.columns, x) # {}
    /\ x \in B.retired <=> updated \/ removed

(* A change that stays.                                                    *)
LEMMA ColumnNext ==
    ASSUME NEW cs, DOMAIN cs = 1 .. Len(cs), Len(cs) \in Nat, NEW created, ListOk(cs, created),
           NEW cat, NEW L, NEW x, ColumnOk(cs, cat, L, x), NEW s \in Nat, NEW i \in DOMAIN cs, i \in ChangeSet(cs),
           NEW B, NEW B2, ColumnEffect(B2, B, s, cs[i]), BufferRows(B, cat, s),
           ColumnState(B, cs, cat, s, x, i - 1)
    PROVE  ColumnState(B2, cs, cat, s, x, i)
<1> DEFINE U == At(cs, "update", x)
           R == At(cs, "remove", x)
           A == AddsAt(cs, x)
<1>1. U \subseteq DOMAIN cs /\ R \subseteq DOMAIN cs /\ A \subseteq DOMAIN cs
  BY DEF At, AddsAt
<1>2. ColumnIs(B, cs, cat, s, x, Done(cs, A, i - 1), Done(cs, U, i - 1), Done(cs, R, i - 1))
  BY DEF ColumnState, ColumnIs
<1>3. SUFFICES ColumnIs(B2, cs, cat, s, x, Done(cs, A, i), Done(cs, U, i), Done(cs, R, i))
  BY DEF ColumnState, ColumnIs
<1>4. /\ Done(cs, A, i) <=> Done(cs, A, i - 1) \/ i \in A
      /\ Done(cs, U, i) <=> Done(cs, U, i - 1) \/ i \in U
      /\ Done(cs, R, i) <=> Done(cs, R, i - 1) \/ i \in R
  BY <1>1, DoneNext
<1>5. cs[i].op \in ChangeOps /\ \A r \in B.columns : DOMAIN r = ColumnFields
  BY DEF ListOk, BufferRows, RecentColumns
<1>6. /\ B2.columns = ColumnsAfter(B.columns, s, cs[i])
      /\ B2.retired = B.retired \union (IF cs[i].op \in {"update", "remove"} THEN {cs[i].key} ELSE {})
  BY DEF ColumnEffect
<1>7. /\ i \in A <=> x \in DOMAIN NewDefs(cs[i])
      /\ i \in U <=> cs[i].op = "update" /\ cs[i].key = x
      /\ i \in R <=> cs[i].op = "remove" /\ cs[i].key = x
  BY DEF At, AddsAt
<1>8. i \in A => cs[i].op \in {"create", "add"}
  BY <1>7 DEF NewDefs, Empty
<1>9. /\ i \in A => RowsAt(B2.columns, x) = RowsAt(B.columns, x) \union {ColumnVersion(s, x, NewDefs(cs[i])[x])}
      /\ i \in U => RowsAt(B2.columns, x) = {ColumnVersion(s, x, cs[i].val)}
      /\ i \in R => RowsAt(B2.columns, x) = Ended(RowsAt(B.columns, x), s)
      /\ i \notin A /\ i \notin U /\ i \notin R => RowsAt(B2.columns, x) = RowsAt(B.columns, x)
  BY <1>5, <1>6, <1>7, RowsOfColumn
<1>10. \A j \in 1 .. Len(cs) : j <= i - 1 => j < i /\ ~ (i < j) /\ j # i
  OBVIOUS
<1>11. CASE i \in A
  <2>1. i \notin U /\ i \notin R
    BY <1>7, <1>8, <1>11
  <2>2. ~ Done(cs, U, i - 1) /\ ~ Done(cs, R, i - 1) /\ ~ Done(cs, A, i - 1)
    BY <1>1, <1>10, <1>11 DEF Done, ColumnOk
  <2>3. RowsAt(B2.columns, x) = {ColumnVersion(s, x, NewDefs(cs[i])[x])}
    BY <1>2, <1>9, <1>11, <2>2 DEF ColumnIs
  <2>4. x \in B2.retired <=> x \in B.retired
    BY <1>6, <1>8, <1>11
  <2>. HIDE DEF A, U, R
  <2>5. ~ Done(cs, U, i) /\ ~ Done(cs, R, i) /\ Done(cs, A, i)
    BY <1>4, <1>11, <2>1, <2>2
  <2>. QED
    BY <1>2, <1>11, <2>2, <2>3, <2>4, <2>5 DEF ColumnIs, A
<1>12. CASE i \in U
  <2>1. i \notin A /\ i \notin R
    BY <1>7, <1>8, <1>12
  <2>2. ~ Done(cs, R, i - 1)
    BY <1>1, <1>10, <1>12 DEF Done, ColumnOk
  <2>3. IsLast(i, U)
    BY <1>7, <1>12, StaysIfLast
  <2>4. cs[i].val = cat.cols[x]
    BY <1>12, <2>3 DEF ColumnOk
  <2>5. x \in B2.retired
    BY <1>6, <1>7, <1>12
  <2>6. RowsAt(B2.columns, x) = {ColumnVersion(s, x, cat.cols[x])}
    BY <1>9, <1>12, <2>4
  <2>. HIDE DEF A, U, R
  <2>7. Done(cs, U, i) /\ ~ Done(cs, R, i)
    BY <1>4, <1>12, <2>1, <2>2
  <2>. QED
    BY <2>5, <2>6, <2>7 DEF ColumnIs
<1>13. CASE i \in R
  <2>1. i \notin A /\ i \notin U
    BY <1>7, <1>8, <1>13
  <2>2. RowsAt(B2.columns, x) = Ended(RowsAt(B.columns, x), s) /\ x \in B2.retired
    BY <1>6, <1>7, <1>9, <1>13
  <2>3. Live(RowsAt(B2.columns, x)) = {}
    <3>1. \A r \in RowsAt(B.columns, x) : [r EXCEPT !.end = s].end = s
      BY <1>5 DEF RowsAt, ColumnFields
    <3>2. s # NULL
      BY DEF NULL
    <3>. QED
      BY <2>2, <3>1, <3>2 DEF Ended, Live
  <2>4. RowsAt(B.columns, x) # {} => RowsAt(B2.columns, x) # {}
    BY <2>2 DEF Ended
  <2>. HIDE DEF A, U, R
  <2>5. Done(cs, R, i) /\ (Done(cs, A, i) <=> Done(cs, A, i - 1))
    BY <1>4, <1>13, <2>1
  <2>. QED
    BY <1>2, <2>2, <2>3, <2>4, <2>5 DEF ColumnIs
<1>14. CASE i \notin A /\ i \notin U /\ i \notin R
  <2>1. x \in B2.retired <=> x \in B.retired
    BY <1>6, <1>7, <1>14
  <2>. HIDE DEF A, U, R
  <2>2. RowsAt(B2.columns, x) = RowsAt(B.columns, x)
    BY <1>9, <1>14
  <2>3. /\ Done(cs, A, i) <=> Done(cs, A, i - 1)
        /\ Done(cs, U, i) <=> Done(cs, U, i - 1)
        /\ Done(cs, R, i) <=> Done(cs, R, i - 1)
    BY <1>4, <1>14
  <2>. QED
    BY <1>2, <2>1, <2>2, <2>3 DEF ColumnIs
<1>. QED
  BY <1>11, <1>12, <1>13, <1>14

(* The columns at every position.                                          *)
LEMMA ColumnStates ==
    ASSUME NEW b, NEW cs, NEW s \in Nat, Applied(b, cs, s), NEW created, ListOk(cs, created),
           NEW cat, NEW L, ColumnsOk(cs, cat, L), NEW x, NEW i \in 0 .. Len(cs)
    PROVE  ColumnState(b[i], cs, cat, s, x, i)
<1> DEFINE S == {j \in 0 .. Len(cs) : ColumnState(b[j], cs, cat, s, x, j)}
<1>1. Len(cs) \in Nat /\ DOMAIN cs = 1 .. Len(cs) /\ b[0] = NoBuffer(tx.cat) /\ ColumnOk(cs, cat, L, x)
  BY DEF Applied, ColumnsOk
<1>0. At(cs, "update", x) \subseteq DOMAIN cs /\ At(cs, "remove", x) \subseteq DOMAIN cs /\ AddsAt(cs, x) \subseteq DOMAIN cs
  BY DEF At, AddsAt
<1>2. 0 \in S
  <2>1. b[0].columns = {} /\ b[0].retired = {}
    BY <1>1 DEF NoBuffer
  <2>2. ~ Done(cs, At(cs, "update", x), 0) /\ ~ Done(cs, At(cs, "remove", x), 0) /\ ~ Done(cs, AddsAt(cs, x), 0)
    BY <1>0, <1>1, DoneNext
  <2>3. RowsAt(b[0].columns, x) = {}
    BY <2>1 DEF RowsAt
  <2>4. ColumnState(b[0], cs, cat, s, x, 0)
    BY <2>1, <2>2, <2>3 DEF ColumnState
  <2>. QED
    BY <1>1, <2>4
<1>3. ASSUME NEW j \in 1 .. Len(cs), j - 1 \in S PROVE j \in S
  <2>1. j \in DOMAIN cs /\ j \in 0 .. Len(cs) /\ j - 1 \in 0 .. Len(cs) /\ ColumnState(b[j - 1], cs, cat, s, x, j - 1)
    BY <1>1, <1>3
  <2>2. CASE j \in ChangeSet(cs)
    <3>1. ColumnEffect(b[j], b[j - 1], s, cs[j])
      BY <2>1, <2>2 DEF Applied, Effect
    <3>2. BufferRows(b[j - 1], cat, s)
      BY <2>1, BufferRowsOk
    <3>3. ColumnState(b[j], cs, cat, s, x, j)
      BY <1>1, <2>1, <2>2, <3>1, <3>2, ColumnNext
    <3>. QED
      BY <2>1, <3>3
  <2>3. CASE j \notin ChangeSet(cs)
    <3>1. b[j] = b[j - 1]
      BY <2>1, <2>3 DEF Applied
    <3>2. /\ Done(cs, At(cs, "update", x), j) <=> Done(cs, At(cs, "update", x), j - 1)
          /\ Done(cs, At(cs, "remove", x), j) <=> Done(cs, At(cs, "remove", x), j - 1)
          /\ Done(cs, AddsAt(cs, x), j) <=> Done(cs, AddsAt(cs, x), j - 1)
      BY <1>0, <1>1, <2>1, <2>3, DoneNext
    <3>3. ColumnState(b[j], cs, cat, s, x, j)
      BY <2>1, <3>1, <3>2 DEF ColumnState
    <3>. QED
      BY <2>1, <3>3
  <2>. QED
    BY <2>2, <2>3
<1>. HIDE DEF S
<1>4. i \in S
  BY <1>1, <1>2, <1>3, Induct
<1>. QED
  BY <1>4 DEF S

\* What the buffer says of column x in the end.
ColumnEnds(B, cs, cat, s, x) ==
    /\ At(cs, "remove", x) # {} => Live(RowsAt(B.columns, x)) = {}
    /\ At(cs, "remove", x) = {} /\ (At(cs, "update", x) # {} \/ AddsAt(cs, x) # {}) =>
          RowsAt(B.columns, x) = {ColumnVersion(s, x, cat.cols[x])}
    /\ At(cs, "remove", x) = {} /\ At(cs, "update", x) = {} /\ AddsAt(cs, x) = {} => RowsAt(B.columns, x) = {}
    /\ AddsAt(cs, x) # {} => RowsAt(B.columns, x) # {}
    /\ x \in B.retired <=> At(cs, "update", x) # {} \/ At(cs, "remove", x) # {}

(* The columns when all changes are applied.                               *)
LEMMA ColumnsEnd ==
    ASSUME NEW b, NEW cs, NEW s \in Nat, Applied(b, cs, s), NEW created, ListOk(cs, created),
           NEW cat, NEW L, ColumnsOk(cs, cat, L), NEW x
    PROVE  ColumnEnds(b[Len(cs)], cs, cat, s, x)
<1>1. Len(cs) \in Nat /\ DOMAIN cs = 1 .. Len(cs) /\ ColumnOk(cs, cat, L, x) /\ Len(cs) \in 0 .. Len(cs)
  BY DEF Applied, ColumnsOk
<1>2. At(cs, "update", x) \subseteq DOMAIN cs /\ At(cs, "remove", x) \subseteq DOMAIN cs /\ AddsAt(cs, x) \subseteq DOMAIN cs
  BY DEF At, AddsAt
<1>3. Done(cs, At(cs, "update", x), Len(cs)) <=> At(cs, "update", x) # {}
  BY <1>1, <1>2, DoneNext, OneStays
<1>4. Done(cs, At(cs, "remove", x), Len(cs)) <=> At(cs, "remove", x) # {}
  BY <1>1, <1>2, DoneNext, OneStays
<1>5. Done(cs, AddsAt(cs, x), Len(cs)) <=> AddsAt(cs, x) # {}
  <2>1. \A a \in AddsAt(cs, x) : a \in ChangeSet(cs)
    BY <1>1, AddsStay
  <2>. QED
    BY <1>1, <1>2, <2>1, DoneNext
<1>6. ColumnState(b[Len(cs)], cs, cat, s, x, Len(cs))
  BY <1>1, ColumnStates
<1>7. At(cs, "update", x) = {} => \A a \in AddsAt(cs, x) : cat.cols[x] = NewDefs(cs[a])[x]
  BY <1>1 DEF ColumnOk
<1>. QED
  BY <1>3, <1>4, <1>5, <1>6, <1>7 DEF ColumnState, ColumnEnds

\* The rows show what catalog cat shows.
ShowsColumns(rows, cat) ==
    /\ OneEach(rows) /\ Ids(rows) = Present(cat)
    /\ \A r \in rows : Column(r.parent, r.name, r.type, r.nullable) = cat.cols[r.id]

HaveFields(rows, fields) == \A r \in rows : DOMAIN r = fields

\* Rows that show the columns of catalog cat in snapshot s, and in earlier ones
\* what was there before.
ColumnsFit(new, old, cat, s) ==
    /\ Timed(new, s) /\ Revised(new, old, s) /\ HaveFields(new, ColumnFields)
    /\ ShowsColumns(Visible(new, s), cat)
    /\ Ids(old) \union DOMAIN cat.cols \subseteq Ids(new)
    /\ Ids(new) \subseteq Ids(old) \union DOMAIN cat.cols

(* The rows of the columns after the commit.                               *)
LEMMA ColumnsPersisted ==
    ASSUME NEW b, NEW cs, NEW h \in Nat, NEW s, s = h + 1, Applied(b, cs, s), NEW created, ListOk(cs, created),
           NEW cat, ColsOk(cat), NEW L, L.cols = LoadedColumns(table, h), ColumnsOk(cs, cat, L),
           Timed(table.columns, h), OneEach(Visible(table.columns, h)), HaveFields(table.columns, ColumnFields),
           NEW B, B = b[Len(cs)], NEW new, new = persist(B, s).columns
    PROVE  ColumnsFit(new, table.columns, cat, s)
<1> USE DEF ColumnsFit, HaveFields
<1>p. new = retire_rows(table.columns, {r \in table.columns : r.id \in B.retired}, s) \union B.columns
  BY DEF persist
<1> USE <1>p
<1> DEFINE old == table.columns
           hit == {r \in table.columns : r.id \in B.retired}
<1>0. s \in Nat /\ s # 0 /\ Len(cs) \in 0 .. Len(cs)
  BY DEF Applied
<1>1. RecentColumns(B.columns, DOMAIN cat.cols, s)
  BY <1>0, BufferRowsOk DEF BufferRows
<1>2. Recent(B.columns, s) /\ Ids(B.columns) \subseteq DOMAIN cat.cols
  BY <1>1 DEF RecentColumns, Recent, ColumnFields, Ids
<1>3. Timed(old, s)
  BY TimedLater
<1>4. /\ Timed(new, s) /\ Revised(new, old, s)
      /\ \A r : r \in Live(new) <=> (r \in Live(old) /\ r \notin hit) \/ r \in Live(B.columns)
      /\ Ids(old) \subseteq Ids(new) /\ Ids(new) \subseteq Ids(old) \union Ids(B.columns)
      /\ \A r \in new : r \in B.columns \/ \E r0 \in old : Twin(r, r0)
  <2>1. new = retire_rows(old, hit, s) \union B.columns
    OBVIOUS
  <2>. HIDE DEF hit, old
  <2>2. Retires(new, old, hit, B.columns, s)
    BY <1>0, <1>2, <1>3, <2>1, RowsRevised
  <2>. QED
    BY <2>2 DEF Retires
<1>5. \A r \in new : DOMAIN r = ColumnFields
  BY <1>1, <1>4 DEF Twin, RecentColumns
<1>6. Visible(new, s) = Live(new) /\ Visible(old, h) = Live(old)
  BY <1>0, <1>4, VisibleIsLive
<1>7. \A x : ColumnEnds(B, cs, cat, s, x) /\ ColumnOk(cs, cat, L, x)
  BY <1>0, ColumnsEnd DEF ColumnsOk
<1>8. ASSUME NEW r \in Live(old)
      PROVE  r.id \in DOMAIN L.cols /\ L.cols[r.id] = Column(r.parent, r.name, r.type, r.nullable)
  <2>1. r.id \in Ids(Visible(old, h))
    BY <1>6 DEF Ids
  <2>2. RowOf(Visible(old, h), r.id) = r
    BY <1>6, <2>1, RowFound DEF OneEach
  <2>3. L.cols = [c \in Ids(Visible(old, h)) |-> LET q == RowOf(Visible(old, h), c) IN Column(q.parent, q.name, q.type, q.nullable)]
    BY DEF LoadedColumns
  <2>. QED
    BY <2>1, <2>2, <2>3
<1>9. \A x \in DOMAIN L.cols : \E r \in Live(old) : r.id = x
  BY <1>6 DEF LoadedColumns, Ids
<1>. HIDE DEF old, hit
<1>10. ASSUME NEW x, NEW def, def = cat.cols[x], x \in DOMAIN cat.cols
       PROVE  /\ ColumnVersion(s, x, def).id = x /\ ColumnVersion(s, x, def).end = NULL
              /\ LET r == ColumnVersion(s, x, def) IN Column(r.parent, r.name, r.type, r.nullable) = def
  <2>1. def = Column(def.parent, def.name, def.type, def.nullable)
    BY <1>10 DEF ColsOk, DefOk
  <2>2. LET r == ColumnVersion(s, x, def) IN
           r.parent = def.parent /\ r.name = def.name /\ r.type = def.type /\ r.nullable = def.nullable /\ r.id = x /\ r.end = NULL
    BY DEF ColumnVersion
  <2>. QED
    BY <2>1, <2>2
<1>11. ASSUME NEW r \in Live(new)
       PROVE  /\ r.id \in Present(cat) /\ Column(r.parent, r.name, r.type, r.nullable) = cat.cols[r.id]
              /\ r \in Live(B.columns) => r = ColumnVersion(s, r.id, cat.cols[r.id])
              /\ r \in Live(B.columns) => At(cs, "update", r.id) # {} \/ AddsAt(cs, r.id) # {}
              /\ r \notin Live(B.columns) => r \in Live(old) /\ At(cs, "update", r.id) = {} /\ AddsAt(cs, r.id) = {}
  <2> DEFINE x == r.id
  <2>0. ColumnEnds(B, cs, cat, s, x) /\ ColumnOk(cs, cat, L, x)
    BY <1>7
  <2>1. CASE r \in Live(B.columns)
    <3>1. r \in RowsAt(B.columns, x) /\ r.end = NULL
      BY <2>1 DEF RowsAt, Live
    <3>2. At(cs, "remove", x) = {}
      BY <2>0, <3>1 DEF ColumnEnds, Live
    <3>3. At(cs, "update", x) # {} \/ AddsAt(cs, x) # {}
      BY <2>0, <3>1, <3>2 DEF ColumnEnds
    <3>4. r = ColumnVersion(s, x, cat.cols[x])
      BY <2>0, <3>1, <3>2, <3>3 DEF ColumnEnds
    <3>5. x \in DOMAIN cat.cols /\ x \notin cat.gone
      BY <2>0, <3>2, <3>3 DEF ColumnOk
    <3>. QED
      BY <1>10, <2>1, <3>3, <3>4, <3>5 DEF Present
  <2>2. CASE r \notin Live(B.columns)
    <3>1. r \in Live(old) /\ r \notin hit /\ r \in old
      BY <1>4, <2>2 DEF Live
    <3>2. x \notin B.retired
      BY <3>1 DEF hit, old
    <3>3. At(cs, "remove", x) = {} /\ At(cs, "update", x) = {}
      BY <2>0, <3>2 DEF ColumnEnds
    <3>4. x \in Ids(table.columns)
      BY <3>1 DEF Ids, old
    <3>5. AddsAt(cs, x) = {}
      BY <2>0, <3>4 DEF ColumnOk
    <3>6. x \in DOMAIN L.cols /\ L.cols[x] = Column(r.parent, r.name, r.type, r.nullable)
      BY <1>8, <3>1
    <3>7. x \in DOMAIN cat.cols /\ x \notin cat.gone /\ cat.cols[x] = L.cols[x]
      BY <2>0, <3>3, <3>6 DEF ColumnOk
    <3>. QED
      BY <2>2, <3>1, <3>3, <3>5, <3>6, <3>7 DEF Present
  <2>. QED
    BY <2>1, <2>2
<1>12. OneEach(Live(new))
  <2> SUFFICES ASSUME NEW r \in Live(new), NEW q \in Live(new), r.id = q.id PROVE r = q
    BY DEF OneEach
  <2>1. CASE r \in Live(B.columns) /\ q \in Live(B.columns)
    BY <1>11, <2>1
  <2>2. CASE ~ (r \in Live(B.columns) /\ q \in Live(B.columns))
    <3>1. r \in Live(old) /\ q \in Live(old)
      BY <1>11, <2>2
    <3>. QED
      BY <1>6, <3>1 DEF OneEach, old
  <2>. QED
    BY <2>1, <2>2
<1>13. ASSUME NEW x \in Present(cat) PROVE \E r \in Live(new) : r.id = x
  <2>0. ColumnEnds(B, cs, cat, s, x) /\ ColumnOk(cs, cat, L, x) /\ x \in DOMAIN cat.cols /\ x \notin cat.gone
    BY <1>7 DEF Present
  <2>1. At(cs, "remove", x) = {}
    BY <2>0 DEF ColumnOk
  <2>2. CASE At(cs, "update", x) # {} \/ AddsAt(cs, x) # {}
    <3>1. ColumnVersion(s, x, cat.cols[x]) \in RowsAt(B.columns, x)
      BY <2>0, <2>1, <2>2 DEF ColumnEnds
    <3>2. ColumnVersion(s, x, cat.cols[x]).id = x /\ ColumnVersion(s, x, cat.cols[x]).end = NULL
      BY <1>10, <2>0
    <3>3. ColumnVersion(s, x, cat.cols[x]) \in Live(B.columns)
      BY <3>1, <3>2 DEF RowsAt, Live
    <3>. QED
      BY <1>4, <3>2, <3>3
  <2>3. CASE At(cs, "update", x) = {} /\ AddsAt(cs, x) = {}
    <3>1. x \in DOMAIN L.cols
      BY <2>0, <2>3 DEF ColumnOk
    <3>2. PICK r \in Live(old) : r.id = x
      BY <1>9, <3>1
    <3>3. x \notin B.retired
      BY <2>0, <2>1, <2>3 DEF ColumnEnds
    <3>4. r \notin hit
      BY <3>2, <3>3 DEF hit
    <3>. QED
      BY <1>4, <3>2, <3>4
  <2>. QED
    BY <2>2, <2>3
<1>14. ShowsColumns(Live(new), cat)
  <2>0. \A r \in Live(new) : r.id \in Present(cat)
    BY <1>11
  <2>1. \A x \in Present(cat) : \E r \in Live(new) : r.id = x
    BY <1>13
  <2>2. Ids(Live(new)) = Present(cat)
    BY <2>0, <2>1 DEF Ids
  <2>. QED
    BY <1>11, <1>12, <2>2 DEF ShowsColumns
<1>15. ASSUME NEW x \in DOMAIN cat.cols PROVE x \in Ids(new)
  <2>0. ColumnEnds(B, cs, cat, s, x) /\ ColumnOk(cs, cat, L, x)
    BY <1>7
  <2>1. CASE AddsAt(cs, x) # {}
    <3>1. PICK r \in B.columns : r.id = x
      BY <2>0, <2>1 DEF ColumnEnds, RowsAt
    <3>2. r \in new
      OBVIOUS
    <3>. QED
      BY <3>1, <3>2 DEF Ids
  <2>2. CASE AddsAt(cs, x) = {}
    <3>1. x \in DOMAIN L.cols
      BY <2>0, <2>2 DEF ColumnOk
    <3>2. x \in Ids(old)
      BY <1>9, <3>1 DEF Live, Ids
    <3>. QED
      BY <1>4, <3>2
  <2>. QED
    BY <2>1, <2>2
<1>. QED
  BY <1>2, <1>4, <1>5, <1>6, <1>14, <1>15 DEF old

(* The columns that are loaded from these rows.                            *)
LEMMA ColumnsShown ==
    ASSUME NEW t, NEW s, NEW cat, ShowsColumns(Visible(t.columns, s), cat)
    PROVE  LoadedColumns(t, s) = Only(cat.cols, Present(cat))
<1> DEFINE V == Visible(t.columns, s)
<1>1. OneEach(V) /\ Ids(V) = Present(cat) /\ \A r \in V : Column(r.parent, r.name, r.type, r.nullable) = cat.cols[r.id]
  BY DEF ShowsColumns
<1>2. LoadedColumns(t, s) = [c \in Ids(V) |-> LET r == RowOf(V, c) IN Column(r.parent, r.name, r.type, r.nullable)]
  BY DEF LoadedColumns
<1>. HIDE DEF V
<1>3. \A c \in Ids(V) : RowOf(V, c) \in V /\ RowOf(V, c).id = c
  BY RowFound
<1>4. \A c \in Ids(V) : LET r == RowOf(V, c) IN Column(r.parent, r.name, r.type, r.nullable) = cat.cols[c]
  BY <1>1, <1>3
<1>5. DOMAIN cat.cols \intersect Present(cat) = Present(cat)
  BY DEF Present
<1>6. LoadedColumns(t, s) = [c \in Present(cat) |-> cat.cols[c]]
  BY <1>1, <1>2, <1>4
<1>. QED
  BY <1>5, <1>6 DEF Only

-----------------------------------------------------------------------------
(* The partitioning in the buffer.                                         *)

\* The changes that make a partitioning.
Makers(cs) == {i \in DOMAIN cs : cs[i].op \in {"create", "partition"} /\ NeedsPart(cs[i])}

(* There is at most one of them, and it makes the one of the catalog.      *)
LEMMA MakersOk ==
    ASSUME NEW cs, DOMAIN cs = 1 .. Len(cs), Len(cs) \in Nat, NEW created \in BOOLEAN, ListOk(cs, created),
           NEW cat, NEW L, PartOk(cs, cat, L, created)
    PROVE  /\ \A i \in Makers(cs) : i \in ChangeSet(cs) => PartOf(cs[i]) = cat.part.cols /\ cat.part.id = 0 /\ cat.part.cols # {}
           /\ \A i \in Makers(cs), j \in Makers(cs) \union At(cs, "partition", 0) :
                 i \in ChangeSet(cs) /\ j \in ChangeSet(cs) => i = j
           /\ Makers(cs) \subseteq DOMAIN cs
<1>1. ASSUME NEW i \in Makers(cs), i \in ChangeSet(cs)
      PROVE  /\ PartOf(cs[i]) = cat.part.cols /\ cat.part.id = 0 /\ cat.part.cols # {}
             /\ cs[i].op = "create" => i = 1 /\ At(cs, "partition", 0) = {}
             /\ cs[i].op = "partition" => i \in At(cs, "partition", 0)
             /\ cs[i].op \in {"create", "partition"}
  <2>0. i \in DOMAIN cs /\ cs[i].op \in {"create", "partition"} /\ NeedsPart(cs[i])
    BY DEF Makers
  <2>1. CASE cs[i].op = "create"
    <3>1. created /\ i = 1 /\ cs[i].val.part # {}
      BY <2>0, <2>1 DEF ListOk, NeedsPart
    <3>2. At(cs, "partition", 0) = {}
      BY <3>1 DEF PartOk
    <3>3. cat.part = [id |-> 0, cols |-> cs[1].val.part]
      BY <3>1, <3>2 DEF PartOk, FirstPart
    <3>. QED
      BY <2>1, <3>1, <3>2, <3>3 DEF PartOf
  <2>2. CASE cs[i].op = "partition"
    <3>1. i \in At(cs, "partition", 0) /\ cs[i].val # {}
      BY <2>0, <2>2 DEF ListOk, At, NeedsPart
    <3>2. IsLast(i, At(cs, "partition", 0))
      BY <1>1, <3>1, OneStays
    <3>3. cs[i].val = cat.part.cols /\ cat.part.id = 0
      BY <3>1, <3>2 DEF PartOk
    <3>. QED
      BY <2>2, <3>1, <3>3 DEF PartOf
  <2>. QED
    BY <2>0, <2>1, <2>2
<1>2. ASSUME NEW i \in Makers(cs), NEW j \in Makers(cs) \union At(cs, "partition", 0),
             i \in ChangeSet(cs), j \in ChangeSet(cs)
      PROVE  i = j
  <2>1. CASE j \in At(cs, "partition", 0)
    <3>1. i \in At(cs, "partition", 0)
      BY <1>1, <1>2, <2>1
    <3>. QED
      BY <1>2, <2>1, <3>1, OneStays
  <2>2. CASE j \notin At(cs, "partition", 0)
    <3>1. cs[j].op = "create" /\ j = 1 /\ At(cs, "partition", 0) = {}
      BY <1>1, <1>2, <2>2
    <3>2. cs[i].op = "create" /\ i = 1
      BY <1>1, <1>2, <3>1
    <3>. QED
      BY <3>1, <3>2
  <2>. QED
    BY <2>1, <2>2
<1>. QED
  BY <1>1, <1>2 DEF Makers

PartIs(B, cat, s, k, made, changed) ==
    /\ B.repartitioned <=> changed
    /\ ~ made => B.parts = {} /\ B.part_cols = {}
    /\ made => /\ cat.part.id = 0 /\ B.part_id # 0
               /\ B.parts = {[id |-> B.part_id, begin |-> s, end |-> NULL]}
               /\ B.part_cols = {[id |-> B.part_id, col |-> x] : x \in cat.part.cols}
    /\ B.next_id \in Nat /\ k <= B.next_id
    /\ \/ B.part_id = cat.part.id
       \/ cat.part.id = 0 /\ B.part_id \in Nat /\ k <= B.part_id /\ B.part_id < B.next_id

PartState(B, cs, cat, s, k, i) ==
    PartIs(B, cat, s, k, Done(cs, Makers(cs), i), Done(cs, At(cs, "partition", 0), i))

(* A change that stays.                                                    *)
LEMMA PartNext ==
    ASSUME NEW cs, DOMAIN cs = 1 .. Len(cs), Len(cs) \in Nat, NEW created \in BOOLEAN, ListOk(cs, created),
           NEW cat, NEW L, PartOk(cs, cat, L, created), NEW s, NEW k \in Nat, k # 0, NEW i \in DOMAIN cs, i \in ChangeSet(cs),
           NEW B, NEW B2, B.repartitioned \in BOOLEAN, PartEffect(B2, B, s, cs[i]), PartState(B, cs, cat, s, k, i - 1)
    PROVE  PartState(B2, cs, cat, s, k, i)
<1> DEFINE M == Makers(cs)
           P == At(cs, "partition", 0)
           c == cs[i]
<1>1. M \subseteq DOMAIN cs /\ P \subseteq DOMAIN cs
  BY DEF Makers, At
<1>2. /\ Done(cs, M, i) <=> Done(cs, M, i - 1) \/ i \in M
      /\ Done(cs, P, i) <=> Done(cs, P, i - 1) \/ i \in P
  BY <1>1, DoneNext
<1>3. PartIs(B, cat, s, k, Done(cs, M, i - 1), Done(cs, P, i - 1))
  BY DEF PartState
<1>4. SUFFICES PartIs(B2, cat, s, k, Done(cs, M, i), Done(cs, P, i))
  BY DEF PartState
<1>5. /\ i \in P <=> c.op = "partition"
      /\ i \in M <=> c.op \in {"create", "partition"} /\ NeedsPart(c)
      /\ NeedsPart(c) => c.op \in {"create", "partition", "files"}
  BY DEF At, Makers, ListOk, NeedsPart
<1>6. i \in M \union P => ~ Done(cs, M, i - 1)
  <2> SUFFICES ASSUME i \in M \union P, NEW j \in M, j \in ChangeSet(cs), j <= i - 1 PROVE FALSE
    BY DEF Done
  <2>1. j = i
    BY MakersOk
  <2>2. i \in Nat
    OBVIOUS
  <2>. QED
    BY <2>1, <2>2
<1>7. i \in M => PartOf(c) = cat.part.cols /\ cat.part.id = 0 /\ cat.part.cols # {}
  BY MakersOk
<1>8. /\ B2.part_id = IF NeedsPart(c) THEN partition_id(B) ELSE B.part_id
      /\ B2.next_id \in Nat /\ B.next_id <= B2.next_id
      /\ NeedsPart(c) /\ B.part_id = 0 => B.next_id < B2.next_id
      /\ B2.parts = (IF c.op = "partition" THEN Ended(B.parts, s) ELSE B.parts)
                      \union (IF c.op \in {"create", "partition"} THEN NewPart(c, s, partition_id(B)) ELSE {})
      /\ B2.part_cols = B.part_cols \union
            (IF c.op \in {"create", "partition"} THEN {[id |-> partition_id(B), col |-> x] : x \in PartOf(c)} ELSE {})
      /\ B2.repartitioned = (B.repartitioned \/ c.op = "partition")
  BY DEF PartEffect
<1>. HIDE DEF M, P, c
<1>9. B2.repartitioned <=> Done(cs, P, i)
  BY <1>2, <1>3, <1>5, <1>8 DEF PartIs
<1>10. /\ B2.next_id \in Nat /\ k <= B2.next_id
       /\ \/ B2.part_id = cat.part.id
          \/ cat.part.id = 0 /\ B2.part_id \in Nat /\ k <= B2.part_id /\ B2.part_id < B2.next_id
       /\ NeedsPart(c) => B2.part_id # 0
  <2>1. B.next_id \in Nat /\ k <= B.next_id
    BY <1>3 DEF PartIs
  <2>2. B2.next_id \in Nat /\ B.next_id <= B2.next_id
    BY <1>8
  <2>3. CASE ~ NeedsPart(c) \/ B.part_id # 0
    <3>1. B2.part_id = B.part_id
      BY <1>8, <2>3 DEF partition_id
    <3>2. CASE B.part_id = cat.part.id
      BY <2>1, <2>2, <2>3, <3>1, <3>2
    <3>3. CASE cat.part.id = 0 /\ B.part_id \in Nat /\ k <= B.part_id /\ B.part_id < B.next_id
      BY <2>1, <2>2, <2>3, <3>1, <3>3
    <3>. QED
      BY <1>3, <3>2, <3>3 DEF PartIs
  <2>4. CASE NeedsPart(c) /\ B.part_id = 0
    <3>1. B2.part_id = B.next_id /\ B.next_id < B2.next_id
      BY <1>8, <2>4 DEF partition_id
    <3>2. cat.part.id = 0
      BY <1>3, <2>4 DEF PartIs
    <3>. QED
      BY <2>1, <2>2, <3>1, <3>2
  <2>. QED
    BY <2>3, <2>4
<1>11. ~ Done(cs, M, i) => B2.parts = {} /\ B2.part_cols = {}
  <2> SUFFICES ASSUME ~ Done(cs, M, i) PROVE B2.parts = {} /\ B2.part_cols = {}
    OBVIOUS
  <2>1. i \notin M /\ B.parts = {} /\ B.part_cols = {}
    BY <1>2, <1>3 DEF PartIs
  <2>2. Ended(B.parts, s) = {}
    BY <2>1 DEF Ended
  <2>3. c.op \in {"create", "partition"} => ~ NeedsPart(c)
    BY <1>5, <2>1
  <2>4. c.op \in {"create", "partition"} => NewPart(c, s, partition_id(B)) = {}
    BY <2>3 DEF NewPart
  <2>5. c.op \in {"create", "partition"} => PartOf(c) = {}
    BY <2>3 DEF NeedsPart, PartOf
  <2>6. c.op \in {"create", "partition"} => {[id |-> partition_id(B), col |-> x] : x \in PartOf(c)} = {}
    BY <2>5
  <2>. QED
    BY <1>8, <2>1, <2>2, <2>4, <2>6
<1>12. Done(cs, M, i) => /\ cat.part.id = 0 /\ B2.part_id # 0
                         /\ B2.parts = {[id |-> B2.part_id, begin |-> s, end |-> NULL]}
                         /\ B2.part_cols = {[id |-> B2.part_id, col |-> x] : x \in cat.part.cols}
  <2>1. CASE i \in M
    <3>1. B.parts = {} /\ B.part_cols = {} /\ Ended(B.parts, s) = {}
      BY <1>3, <1>6, <2>1 DEF PartIs, Ended
    <3>2. c.op \in {"create", "partition"} /\ NeedsPart(c)
      BY <1>5, <2>1
    <3>3. B2.part_id = partition_id(B)
      BY <1>8, <3>2
    <3>4. B2.parts = {[id |-> B2.part_id, begin |-> s, end |-> NULL]}
      BY <1>8, <3>1, <3>2, <3>3 DEF NewPart
    <3>5. B2.part_cols = {[id |-> B2.part_id, col |-> x] : x \in PartOf(c)}
      BY <1>8, <3>1, <3>2, <3>3
    <3>. QED
      BY <1>7, <1>10, <2>1, <3>2, <3>4, <3>5
  <2>2. CASE i \notin M /\ Done(cs, M, i - 1)
    <3>1. i \notin P
      BY <1>6, <2>2
    <3>2. c.op # "partition" /\ (c.op = "create" => ~ NeedsPart(c))
      BY <1>5, <2>2, <3>1
    <3>3. B.part_id # 0
      BY <1>3, <2>2 DEF PartIs
    <3>4. B2.part_id = B.part_id
      BY <1>8, <3>3 DEF partition_id
    <3>5. c.op = "create" => NewPart(c, s, partition_id(B)) = {} /\ PartOf(c) = {}
      BY <3>2 DEF NewPart, PartOf, NeedsPart
    <3>6. B2.parts = B.parts
      BY <1>8, <3>2, <3>5
    <3>7. B2.part_cols = B.part_cols
      <4>1. c.op = "create" => {[id |-> partition_id(B), col |-> x] : x \in PartOf(c)} = {}
        BY <3>5
      <4>. QED
        BY <1>8, <3>2, <4>1
    <3>. QED
      BY <1>3, <2>2, <3>4, <3>6, <3>7 DEF PartIs
  <2>. QED
    BY <1>2, <2>1, <2>2
<1>. QED
  BY <1>9, <1>10, <1>11, <1>12 DEF PartIs

(* The partitioning at every position.                                     *)
LEMMA PartStates ==
    ASSUME NEW b, NEW cs, NEW s, Applied(b, cs, s), NEW created \in BOOLEAN, ListOk(cs, created), next_id \in Nat, next_id # 0,
           NEW cat, cat = tx.cat, NEW L, PartOk(cs, cat, L, created), NEW i \in 0 .. Len(cs)
    PROVE  PartState(b[i], cs, cat, s, next_id, i)
<1> DEFINE S == {j \in 0 .. Len(cs) : PartState(b[j], cs, cat, s, next_id, j)}
<1>1. Len(cs) \in Nat /\ DOMAIN cs = 1 .. Len(cs) /\ b[0] = NoBuffer(tx.cat)
  BY DEF Applied
<1>0. At(cs, "partition", 0) \subseteq DOMAIN cs /\ Makers(cs) \subseteq DOMAIN cs
  BY DEF At, Makers
<1>2. 0 \in S
  <2>1. /\ b[0].parts = {} /\ b[0].part_cols = {} /\ b[0].repartitioned = FALSE
        /\ b[0].part_id = cat.part.id /\ b[0].next_id = next_id
    BY <1>1 DEF NoBuffer
  <2>2. ~ Done(cs, At(cs, "partition", 0), 0) /\ ~ Done(cs, Makers(cs), 0)
    BY <1>0, <1>1, DoneNext
  <2>3. PartState(b[0], cs, cat, s, next_id, 0)
    BY <2>1, <2>2 DEF PartState, PartIs
  <2>. QED
    BY <1>1, <2>3
<1>3. ASSUME NEW j \in 1 .. Len(cs), j - 1 \in S PROVE j \in S
  <2>1. j \in DOMAIN cs /\ j \in 0 .. Len(cs) /\ j - 1 \in 0 .. Len(cs) /\ PartState(b[j - 1], cs, cat, s, next_id, j - 1)
    BY <1>1, <1>3
  <2>2. CASE j \in ChangeSet(cs)
    <3>1. PartEffect(b[j], b[j - 1], s, cs[j]) /\ b[j - 1].repartitioned \in BOOLEAN
      BY <2>1, <2>2 DEF Applied, Effect, IsBuffer
    <3>3. PartState(b[j], cs, cat, s, next_id, j)
      BY <1>1, <2>1, <2>2, <3>1, PartNext
    <3>. QED
      BY <2>1, <3>3
  <2>3. CASE j \notin ChangeSet(cs)
    <3>1. b[j] = b[j - 1]
      BY <2>1, <2>3 DEF Applied
    <3>2. /\ Done(cs, At(cs, "partition", 0), j) <=> Done(cs, At(cs, "partition", 0), j - 1)
          /\ Done(cs, Makers(cs), j) <=> Done(cs, Makers(cs), j - 1)
      BY <1>0, <1>1, <2>1, <2>3, DoneNext
    <3>3. PartState(b[j], cs, cat, s, next_id, j)
      BY <2>1, <3>1, <3>2 DEF PartState, PartIs
    <3>. QED
      BY <2>1, <3>3
  <2>. QED
    BY <2>2, <2>3
<1>. HIDE DEF S
<1>4. i \in S
  BY <1>1, <1>2, <1>3, Induct
<1>. QED
  BY <1>4 DEF S

KeysOf(keys, p) == {k.col : k \in {r \in keys : r.id = p}}

\* The partitioning the rows V name is the one of the catalog.
ShowsPart(V, keys, cat) ==
    /\ AtMostOne(V)
    /\ V = {} => cat.part.cols = {}
    /\ \A r \in V : r.id \in Nat /\ KeysOf(keys, r.id) = cat.part.cols /\ cat.part.cols # {}

PartsEnd(B, keys, cat, k) ==
    /\ B.next_id \in Nat /\ k <= B.next_id
    /\ cat.part.cols # {} /\ B.part_id # 0 =>
          B.part_id \in Nat /\ B.part_id < B.next_id /\ KeysOf(keys, B.part_id) = cat.part.cols
    /\ \A r \in B.parts \union B.part_cols : r.id \in Nat /\ k <= r.id /\ r.id < B.next_id

NumberedBelow(rows, k) == \A r \in rows : r.id \in Nat /\ r.id # 0 /\ r.id < k

(* The columns of the rows of a partitioning.                              *)
LEMMA ColsOfRows ==
    ASSUME NEW rows, NEW cols, \A k \in rows : k.col \in cols, \A x \in cols : \E k \in rows : x = k.col
    PROVE  {k.col : k \in rows} = cols
OBVIOUS

\* A partitioning is made, there is none any more, or it is left alone.
PartIsMade(B, cat, s, k) ==
    /\ cat.part.id = 0 /\ cat.part.cols # {}
    /\ B.part_id \in Nat /\ k <= B.part_id /\ B.part_id < B.next_id
    /\ B.parts = {[id |-> B.part_id, begin |-> s, end |-> NULL]}
    /\ B.part_cols = {[id |-> B.part_id, col |-> x] : x \in cat.part.cols}
PartIsGone(B, cat) == cat.part.cols = {} /\ B.parts = {} /\ B.part_cols = {}
PartStays(B, cat, L) ==
    /\ cat.part = L.part /\ B.parts = {} /\ B.part_cols = {}
    /\ cat.part.id # 0 => B.part_id = cat.part.id

PartOutcome(B, cat, L, s, k, created) ==
    /\ \/ (B.repartitioned \/ created) /\ PartIsMade(B, cat, s, k)
       \/ (B.repartitioned \/ created) /\ PartIsGone(B, cat)
       \/ ~ B.repartitioned /\ ~ created /\ PartStays(B, cat, L)
    /\ B.next_id \in Nat /\ k <= B.next_id

(* What is left of the partitioning in the end.                            *)
LEMMA PartEnds ==
    ASSUME NEW b, NEW cs, NEW s, Applied(b, cs, s), NEW created \in BOOLEAN, ListOk(cs, created), next_id \in Nat, next_id # 0,
           NEW cat, cat = tx.cat, NEW L, PartOk(cs, cat, L, created), NEW B, B = b[Len(cs)]
    PROVE  PartOutcome(B, cat, L, s, next_id, created)
<1> DEFINE M == Makers(cs)
           P == At(cs, "partition", 0)
<1>1. Len(cs) \in Nat /\ DOMAIN cs = 1 .. Len(cs) /\ Len(cs) \in 0 .. Len(cs)
  BY DEF Applied
<1>2. M \subseteq DOMAIN cs /\ P \subseteq DOMAIN cs
  BY DEF Makers, At
<1>3. /\ Done(cs, M, Len(cs)) <=> \E j \in M : j \in ChangeSet(cs)
      /\ Done(cs, P, Len(cs)) <=> \E j \in P : j \in ChangeSet(cs)
  BY <1>1, <1>2, DoneNext
<1>4. PartIs(B, cat, s, next_id, Done(cs, M, Len(cs)), Done(cs, P, Len(cs)))
  BY <1>1, PartStates DEF PartState
<1>5. B.next_id \in Nat /\ next_id <= B.next_id
  BY <1>4 DEF PartIs
<1>6. CASE \E j \in M : j \in ChangeSet(cs)
  <2>1. PICK j \in M : j \in ChangeSet(cs)
    BY <1>6
  <2>2. cat.part.id = 0 /\ cat.part.cols # {}
    BY <1>1, <2>1, MakersOk
  <2>3. B.repartitioned \/ created
    <3>1. j \in DOMAIN cs /\ cs[j].op \in {"create", "partition"}
      BY DEF Makers
    <3>2. cs[j].op = "create" => created
      BY <3>1 DEF ListOk
    <3>3. cs[j].op = "partition" => j \in P
      BY <3>1 DEF ListOk, At
    <3>. QED
      BY <1>3, <1>4, <2>1, <3>1, <3>2, <3>3 DEF PartIs
  <2>. QED
    BY <1>3, <1>4, <1>5, <2>1, <2>2, <2>3 DEF PartIs, PartOutcome, PartIsMade
<1>7. CASE ~ (\E j \in M : j \in ChangeSet(cs)) /\ P # {}
  <2>1. PICK j \in P : j \in ChangeSet(cs)
    BY <1>1, <1>7, OneStays
  <2>0. IsLast(j, P)
    BY <1>1, <2>1, OneStays
  <2>2. cs[j].val = cat.part.cols /\ cs[j].op = "partition" /\ j \in DOMAIN cs
    BY <2>0, <2>1 DEF PartOk, At
  <2>3. ~ NeedsPart(cs[j])
    BY <1>7, <2>1, <2>2 DEF Makers
  <2>4. cat.part.cols = {}
    BY <2>2, <2>3 DEF NeedsPart
  <2>. QED
    BY <1>3, <1>4, <1>5, <1>7, <2>1, <2>4 DEF PartIs, PartOutcome, PartIsGone
<1>8. CASE ~ (\E j \in M : j \in ChangeSet(cs)) /\ P = {}
  <2>1. cat.part = FirstPart(cs, L, created)
    BY <1>8 DEF PartOk
  <2>2. ASSUME created PROVE cat.part.cols = {}
    <3>1. 1 \in DOMAIN cs /\ cs[1].op = "create" /\ \A j \in DOMAIN cs : cs[j].op = "create" => j = 1
      BY <2>2 DEF ListOk
    <3>2. 1 \in ChangeSet(cs)
      BY <1>1, <3>1 DEF ChangeSet, HashableChange
    <3>3. ~ NeedsPart(cs[1])
      BY <1>8, <3>1, <3>2 DEF Makers
    <3>. QED
      BY <2>1, <2>2, <3>1, <3>3 DEF NeedsPart, FirstPart
  <2>3. ~ created => cat.part = L.part
    BY <2>1 DEF FirstPart
  <2>4. ~ B.repartitioned /\ B.parts = {} /\ B.part_cols = {} /\ (cat.part.id # 0 => B.part_id = cat.part.id)
    BY <1>3, <1>4, <1>8 DEF PartIs
  <2>. QED
    BY <1>5, <2>2, <2>3, <2>4 DEF PartOutcome, PartIsGone, PartStays
<1>. QED
  BY <1>6, <1>7, <1>8

\* The same for the partitioning and its columns.
PartsFit(new, keys, B, cat, s) ==
    /\ Timed(new, s) /\ Revised(new, table.parts, s)
    /\ NumberedBelow(new, B.next_id) /\ NumberedBelow(keys, B.next_id)
    /\ SameKeys(keys, table.part_cols, {p \in Nat : p < next_id})
    /\ ShowsPart(Visible(new, s), keys, cat) /\ PartsEnd(B, keys, cat, next_id)

(* The rows of the partitioning after the commit.                          *)
LEMMA PartPersisted ==
    ASSUME NEW b, NEW cs, NEW h \in Nat, NEW s, s = h + 1, Applied(b, cs, s), NEW created \in BOOLEAN, ListOk(cs, created),
           next_id \in Nat, next_id # 0, NEW cat, cat = tx.cat, NEW L, L.part = LoadedPart(table, h), PartOk(cs, cat, L, created),
           Timed(table.parts, h), AtMostOne(Visible(table.parts, h)), created => table.parts = {},
           NumberedBelow(table.parts, next_id), NumberedBelow(table.part_cols, next_id),
           Visible(table.parts, h) # {} => LoadedPart(table, h).cols # {},
           NEW B, B = b[Len(cs)], NEW new, new = persist(B, s).parts, NEW keys, keys = persist(B, s).part_cols
    PROVE  PartsFit(new, keys, B, cat, s)
<1> USE DEF PartsFit
<1>p. /\ new = retire_rows(table.parts, All(table.parts, B.repartitioned), s) \union B.parts
      /\ keys = table.part_cols \union B.part_cols
  BY DEF persist
<1> USE <1>p
<1> DEFINE old == table.parts
           hit == All(table.parts, B.repartitioned)
           p == B.part_id
<1>0. s \in Nat /\ s # 0
  OBVIOUS
<1>1. PartOutcome(B, cat, L, s, next_id, created)
  BY PartEnds
<1>a. B.next_id \in Nat /\ next_id <= B.next_id
  BY <1>1 DEF PartOutcome
<1>2. \A r \in B.parts : r.id = p /\ p \in Nat /\ next_id <= p /\ p < B.next_id /\ r.begin = s /\ r.end = NULL /\ DOMAIN r = {"id", "begin", "end"}
  BY <1>1 DEF PartOutcome, PartIsMade, PartIsGone, PartStays
<1>3. Recent(B.parts, s)
  BY <1>2 DEF Recent
<1>4. \A k \in B.part_cols : k.id = p /\ p \in Nat /\ next_id <= p /\ p < B.next_id
  BY <1>1 DEF PartOutcome, PartIsMade, PartIsGone, PartStays
<1>5. Retires(new, old, hit, B.parts, s)
  <2>1. new = retire_rows(old, hit, s) \union B.parts /\ Timed(old, h)
    OBVIOUS
  <2>2. Timed(old, s)
    BY <2>1, TimedLater
  <2>. HIDE DEF old, hit
  <2>. QED
    BY <1>0, <1>3, <2>1, <2>2, RowsRevised
<1>6. Timed(new, s) /\ Revised(new, old, s)
  BY <1>5 DEF Retires
<1>7. Live(new) = (IF B.repartitioned THEN {} ELSE Live(old)) \union B.parts
  <2>1. \A r : r \in Live(new) <=> (r \in Live(old) /\ r \notin hit) \/ r \in Live(B.parts)
    BY <1>5 DEF Retires
  <2>2. Live(B.parts) = B.parts
    BY <1>2 DEF Live
  <2>3. Live(old) \subseteq old /\ hit = IF B.repartitioned THEN old ELSE {}
    BY DEF Live, All
  <2>. HIDE DEF old, hit
  <2>. QED
    BY <2>1, <2>2, <2>3
<1>8. NumberedBelow(new, B.next_id)
  <2> SUFFICES ASSUME NEW r \in new PROVE r.id \in Nat /\ r.id # 0 /\ r.id < B.next_id
    BY DEF NumberedBelow
  <2>1. r \in B.parts \/ \E r0 \in old : Twin(r, r0)
    BY <1>5 DEF Retires
  <2>2. CASE r \in B.parts
    BY <1>a, <1>2, <2>2
  <2>3. ASSUME NEW r0 \in old, Twin(r, r0) PROVE r.id \in Nat /\ r.id # 0 /\ r.id < B.next_id
    <3>1. r.id = r0.id
      BY <2>3 DEF Twin, Timed
    <3>2. r0.id \in Nat /\ r0.id # 0 /\ r0.id < next_id
      BY DEF NumberedBelow
    <3>. QED
      BY <1>a, <3>1, <3>2
  <2>. QED
    BY <2>1, <2>2, <2>3
<1>9. NumberedBelow(keys, B.next_id)
  BY <1>a, <1>4 DEF NumberedBelow
<1>10. ASSUME NEW q \in Nat, q < next_id PROVE KeysOf(keys, q) = KeysOf(table.part_cols, q)
  <2>1. \A k \in B.part_cols : k.id # q
    BY <1>4, <1>10
  <2>. QED
    BY <2>1 DEF KeysOf
<1>11. SameKeys(keys, table.part_cols, {q \in Nat : q < next_id})
  BY <1>10 DEF SameKeys, KeysOf
<1>12. Visible(new, s) = Live(new) /\ Visible(old, h) = Live(old)
  BY <1>0, <1>6, VisibleIsLive
<1>13. ASSUME B.repartitioned \/ created, PartIsMade(B, cat, s, next_id)
       PROVE  ShowsPart(Visible(new, s), keys, cat) /\ PartsEnd(B, keys, cat, next_id)
  <2>0. /\ cat.part.cols # {} /\ p \in Nat /\ next_id <= p /\ p < B.next_id
        /\ B.parts = {[id |-> p, begin |-> s, end |-> NULL]}
        /\ B.part_cols = {[id |-> p, col |-> x] : x \in cat.part.cols}
    BY <1>13 DEF PartIsMade
  <2>1. KeysOf(keys, p) = cat.part.cols
    <3>1. \A k \in table.part_cols : k.id # p
      BY <2>0 DEF NumberedBelow
    <3>2. {k \in keys : k.id = p} = B.part_cols
      BY <1>4, <3>1
    <3>3. {k.col : k \in B.part_cols} = cat.part.cols
      <4>1. \A x \in cat.part.cols : [id |-> p, col |-> x] \in B.part_cols /\ [id |-> p, col |-> x].col = x
        BY <2>0
      <4>2. \A k \in B.part_cols : k.col \in cat.part.cols
        BY <2>0
      <4>3. \A x \in cat.part.cols : \E k \in B.part_cols : x = k.col
        BY <4>1
      <4>. QED
        BY <4>2, <4>3, ColsOfRows
    <3>. QED
      BY <3>2, <3>3 DEF KeysOf
  <2>2. Live(old) = {} \/ B.repartitioned
    BY <1>13 DEF Live
  <2>3. Visible(new, s) = B.parts
    BY <1>7, <1>12, <2>2
  <2>4. ShowsPart(Visible(new, s), keys, cat)
    <3>1. B.parts # {} /\ AtMostOne(B.parts)
      BY <2>0 DEF AtMostOne
    <3>2. \A r \in B.parts : r.id \in Nat /\ r.id = p
      BY <1>2
    <3>. QED
      BY <2>0, <2>1, <2>3, <3>1, <3>2 DEF ShowsPart
  <2>5. PartsEnd(B, keys, cat, next_id)
    BY <1>a, <1>2, <1>4, <2>0, <2>1 DEF PartsEnd
  <2>. QED
    BY <2>4, <2>5
<1>14. ASSUME B.repartitioned \/ created, PartIsGone(B, cat)
       PROVE  ShowsPart(Visible(new, s), keys, cat) /\ PartsEnd(B, keys, cat, next_id)
  <2>1. Live(old) = {} \/ B.repartitioned
    BY <1>14 DEF Live
  <2>2. Visible(new, s) = {}
    BY <1>7, <1>12, <1>14, <2>1 DEF PartIsGone
  <2>. QED
    BY <1>a, <1>14, <2>2 DEF ShowsPart, AtMostOne, PartsEnd, PartIsGone
<1>15. ASSUME ~ B.repartitioned /\ ~ created, PartStays(B, cat, L)
       PROVE  ShowsPart(Visible(new, s), keys, cat) /\ PartsEnd(B, keys, cat, next_id)
  <2>0. cat.part = L.part /\ B.parts = {} /\ B.part_cols = {} /\ (cat.part.id # 0 => p = cat.part.id)
    BY <1>15 DEF PartStays
  <2> DEFINE V == Visible(old, h)
  <2>1. Visible(new, s) = V
    BY <1>7, <1>12, <1>15, <2>0
  <2>2. cat.part = IF V = {} THEN NoPart ELSE [id |-> CHOOSE q \in Ids(V) : TRUE, cols |-> KeysOf(table.part_cols, CHOOSE q \in Ids(V) : TRUE)]
    BY <2>0 DEF LoadedPart, KeysOf
  <2>3. V \subseteq old /\ AtMostOne(V) /\ (V # {} => cat.part.cols # {})
    BY <2>0 DEF Visible
  <2>4. keys = table.part_cols
    BY <2>0
  <2>. HIDE DEF V
  <2>5. CASE V = {}
    <3>1. cat.part.cols = {} /\ cat.part.id = 0
      BY <2>2, <2>5 DEF NoPart
    <3>. QED
      BY <1>a, <2>0, <2>1, <2>5, <3>1 DEF ShowsPart, AtMostOne, PartsEnd
  <2>6. CASE V # {}
    <3>1. PICK r \in V : TRUE
      BY <2>6
    <3>2. Ids(V) = {r.id}
      BY <2>3 DEF Ids, AtMostOne
    <3>3. cat.part.id = r.id /\ cat.part.cols = KeysOf(table.part_cols, r.id)
      BY <2>2, <2>6, <3>2
    <3>4. r.id \in Nat /\ r.id # 0 /\ r.id < next_id
      BY <2>3 DEF NumberedBelow
    <3>5. \A q \in V : q = r
      BY <2>3 DEF AtMostOne
    <3>6. p = r.id /\ r.id < B.next_id
      BY <1>a, <2>0, <3>3, <3>4
    <3>. QED
      BY <1>a, <2>0, <2>1, <2>3, <2>4, <2>6, <3>3, <3>4, <3>5, <3>6 DEF ShowsPart, PartsEnd
  <2>. QED
    BY <2>5, <2>6
<1>16. ShowsPart(Visible(new, s), keys, cat) /\ PartsEnd(B, keys, cat, next_id)
  <2>. HIDE DEF old, hit, p
  <2>. QED
    BY <1>1, <1>13, <1>14, <1>15 DEF PartOutcome
<1>. QED
  BY <1>6, <1>8, <1>9, <1>11, <1>16

-----------------------------------------------------------------------------
(* The sort order in the buffer.                                           *)

SortFields == {"id", "name", "begin", "end"}

\* The rows V are the sort order with this name, if any.
OneSort(V, name, s) ==
    /\ name = Unsorted => V = {}
    /\ name # Unsorted => \E k : V = {[id |-> k, name |-> name, begin |-> s, end |-> NULL]}

SortIs(B, cs, cat, s, created, changed) ==
    /\ B.resorted <=> changed
    /\ \A r \in B.sorts : DOMAIN r = SortFields /\ r.begin = s /\ r.end \in {NULL, s}
    /\ changed => OneSort(Live(B.sorts), SortName(cat), s)
    /\ ~ changed /\ created => OneSort(Live(B.sorts), cs[1].val.sort, s)
    /\ ~ changed /\ ~ created => Live(B.sorts) = {}

SortState(B, cs, cat, s, i) ==
    SortIs(B, cs, cat, s, Done(cs, At(cs, "create", 0), i), Done(cs, At(cs, "sort", 0), i))

(* The rows of a new sort order.                                           *)
LEMMA NewSortOk ==
    ASSUME NEW c, NEW s, NEW k
    PROVE  /\ OneSort(NewSort(c, s, k), SortOf(c), s) /\ Live(NewSort(c, s, k)) = NewSort(c, s, k)
           /\ \A r \in NewSort(c, s, k) : DOMAIN r = SortFields /\ r.begin = s /\ r.end \in {NULL, s}
BY DEF OneSort, NewSort, Live, SortFields

(* A change that stays.                                                    *)
LEMMA SortNext ==
    ASSUME NEW cs, DOMAIN cs = 1 .. Len(cs), Len(cs) \in Nat, NEW created, ListOk(cs, created),
           NEW cat, NEW L, SortOk(cs, cat, L, created), NEW s \in Nat, NEW i \in DOMAIN cs, i \in ChangeSet(cs),
           NEW B, NEW B2, B.resorted \in BOOLEAN, SortEffect(B2, B, s, cs[i]), SortState(B, cs, cat, s, i - 1)
    PROVE  SortState(B2, cs, cat, s, i)
<1> DEFINE C == At(cs, "create", 0)
           S == At(cs, "sort", 0)
           c == cs[i]
<1>1. C \subseteq DOMAIN cs /\ S \subseteq DOMAIN cs
  BY DEF At
<1>2. /\ Done(cs, C, i) <=> Done(cs, C, i - 1) \/ i \in C
      /\ Done(cs, S, i) <=> Done(cs, S, i - 1) \/ i \in S
  BY <1>1, DoneNext
<1>3. SortIs(B, cs, cat, s, Done(cs, C, i - 1), Done(cs, S, i - 1))
  BY DEF SortState
<1>4. SUFFICES SortIs(B2, cs, cat, s, Done(cs, C, i), Done(cs, S, i))
  BY DEF SortState
<1>5. /\ i \in S <=> c.op = "sort"
      /\ i \in C <=> c.op = "create"
  BY DEF At, ListOk
<1>6. PICK k : B2.sorts = (IF c.op = "sort" THEN Ended(B.sorts, s) ELSE B.sorts)
                             \union (IF c.op \in {"create", "sort"} THEN NewSort(c, s, k) ELSE {})
  BY DEF SortEffect
<1>7. B2.resorted = (B.resorted \/ c.op = "sort")
  BY DEF SortEffect
<1>8. \A r \in B.sorts : DOMAIN r = SortFields /\ r.begin = s /\ r.end \in {NULL, s}
  BY <1>3 DEF SortIs
<1>9. /\ OneSort(NewSort(c, s, k), SortOf(c), s) /\ Live(NewSort(c, s, k)) = NewSort(c, s, k)
      /\ \A r \in NewSort(c, s, k) : DOMAIN r = SortFields /\ r.begin = s /\ r.end \in {NULL, s}
  BY NewSortOk
<1>10. \A r \in Ended(B.sorts, s) : DOMAIN r = SortFields /\ r.begin = s /\ r.end = s
  BY <1>8 DEF Ended, SortFields
<1>11. \A r \in B2.sorts : DOMAIN r = SortFields /\ r.begin = s /\ r.end \in {NULL, s}
  BY <1>6, <1>8, <1>9, <1>10
<1>12. B2.resorted <=> Done(cs, S, i)
  BY <1>2, <1>3, <1>5, <1>7 DEF SortIs
<1>13. CASE i \in S
  <2>1. c.val = SortName(cat)
    <3>1. IsLast(i, S)
      BY <1>13, OneStays
    <3>. QED
      BY <1>13, <3>1 DEF SortOk
  <2>2. s # NULL
    BY DEF NULL
  <2>3. c.op = "sort" /\ SortOf(c) = SortName(cat)
    BY <1>5, <1>13, <2>1 DEF SortOf
  <2>4. B2.sorts = Ended(B.sorts, s) \union NewSort(c, s, k)
    BY <1>6, <2>3
  <2>5. Live(B2.sorts) = NewSort(c, s, k)
    BY <1>9, <1>10, <2>2, <2>4 DEF Live
  <2>6. OneSort(Live(B2.sorts), SortName(cat), s)
    BY <1>9, <2>3, <2>5
  <2>. HIDE DEF C, S, c
  <2>. QED
    BY <1>2, <1>11, <1>12, <1>13, <2>6 DEF SortIs
<1>14. CASE i \in C
  <2>1. c.op = "create" /\ i = 1 /\ i \notin S
    BY <1>5, <1>14 DEF ListOk
  <2>2. ~ Done(cs, C, i - 1) /\ ~ Done(cs, S, i - 1)
    <3>1. i - 1 = 0
      BY <2>1
    <3>. QED
      BY <1>1, <3>1, DoneNext
  <2>3. Live(B.sorts) = {}
    BY <1>3, <2>2 DEF SortIs
  <2>4. B2.sorts = B.sorts \union NewSort(c, s, k) /\ SortOf(c) = cs[1].val.sort
    BY <1>6, <2>1 DEF SortOf
  <2>5. Live(B2.sorts) = NewSort(c, s, k)
    BY <1>9, <2>3, <2>4 DEF Live
  <2>6. OneSort(Live(B2.sorts), cs[1].val.sort, s)
    BY <1>9, <2>4, <2>5
  <2>. HIDE DEF C, S, c
  <2>. QED
    BY <1>2, <1>11, <1>12, <1>14, <2>1, <2>2, <2>6 DEF SortIs
<1>15. CASE i \notin C /\ i \notin S
  <2>1. B2.sorts = B.sorts
    BY <1>5, <1>6, <1>15
  <2>. HIDE DEF C, S, c
  <2>. QED
    BY <1>2, <1>3, <1>11, <1>12, <1>15, <2>1 DEF SortIs
<1>. QED
  BY <1>13, <1>14, <1>15

(* The sort order at every position.                                       *)
LEMMA SortStates ==
    ASSUME NEW b, NEW cs, NEW s \in Nat, Applied(b, cs, s), NEW created, ListOk(cs, created),
           NEW cat, NEW L, SortOk(cs, cat, L, created), NEW i \in 0 .. Len(cs)
    PROVE  SortState(b[i], cs, cat, s, i)
<1> DEFINE S == {j \in 0 .. Len(cs) : SortState(b[j], cs, cat, s, j)}
<1>1. Len(cs) \in Nat /\ DOMAIN cs = 1 .. Len(cs) /\ b[0] = NoBuffer(tx.cat)
  BY DEF Applied
<1>0. At(cs, "sort", 0) \subseteq DOMAIN cs /\ At(cs, "create", 0) \subseteq DOMAIN cs
  BY DEF At
<1>2. 0 \in S
  <2>1. b[0].sorts = {} /\ b[0].resorted = FALSE
    BY <1>1 DEF NoBuffer
  <2>2. ~ Done(cs, At(cs, "sort", 0), 0) /\ ~ Done(cs, At(cs, "create", 0), 0)
    BY <1>0, <1>1, DoneNext
  <2>3. SortState(b[0], cs, cat, s, 0)
    BY <2>1, <2>2 DEF SortState, SortIs, Live
  <2>. QED
    BY <1>1, <2>3
<1>3. ASSUME NEW j \in 1 .. Len(cs), j - 1 \in S PROVE j \in S
  <2>1. j \in DOMAIN cs /\ j \in 0 .. Len(cs) /\ j - 1 \in 0 .. Len(cs) /\ SortState(b[j - 1], cs, cat, s, j - 1)
    BY <1>1, <1>3
  <2>2. CASE j \in ChangeSet(cs)
    <3>1. SortEffect(b[j], b[j - 1], s, cs[j]) /\ b[j - 1].resorted \in BOOLEAN
      BY <2>1, <2>2 DEF Applied, Effect, IsBuffer
    <3>3. SortState(b[j], cs, cat, s, j)
      BY <1>1, <2>1, <2>2, <3>1, SortNext
    <3>. QED
      BY <2>1, <3>3
  <2>3. CASE j \notin ChangeSet(cs)
    <3>1. b[j] = b[j - 1]
      BY <2>1, <2>3 DEF Applied
    <3>2. /\ Done(cs, At(cs, "sort", 0), j) <=> Done(cs, At(cs, "sort", 0), j - 1)
          /\ Done(cs, At(cs, "create", 0), j) <=> Done(cs, At(cs, "create", 0), j - 1)
      BY <1>0, <1>1, <2>1, <2>3, DoneNext
    <3>3. SortState(b[j], cs, cat, s, j)
      BY <2>1, <3>1, <3>2 DEF SortState, SortIs
    <3>. QED
      BY <2>1, <3>3
  <2>. QED
    BY <2>2, <2>3
<1>. HIDE DEF S
<1>4. i \in S
  BY <1>1, <1>2, <1>3, Induct
<1>. QED
  BY <1>4 DEF S

\* The sort order the rows V name is the one of the catalog.
ShowsSort(V, cat) ==
    /\ AtMostOne(V) /\ \A r \in V : r.name = SortName(cat) /\ r.name # Unsorted
    /\ V = {} => SortName(cat) = Unsorted

HaveNames(rows) == \A r \in rows : "name" \in DOMAIN r

\* The same for the sort order.
SortsFit(new, old, cat, s) ==
    Timed(new, s) /\ Revised(new, old, s) /\ HaveNames(new) /\ ShowsSort(Visible(new, s), cat)

(* The rows of the sort order after the commit.                            *)
LEMMA SortPersisted ==
    ASSUME NEW b, NEW cs, NEW h \in Nat, NEW s, s = h + 1, Applied(b, cs, s), NEW created \in BOOLEAN, ListOk(cs, created),
           NEW cat, NEW L, ShowsSort(Visible(table.sorts, h), L), SortOk(cs, cat, L, created),
           Timed(table.sorts, h), created => table.sorts = {}, HaveNames(table.sorts),
           NEW B, B = b[Len(cs)], NEW new, new = persist(B, s).sorts
    PROVE  SortsFit(new, table.sorts, cat, s)
<1> USE DEF SortsFit, HaveNames
<1>p. new = retire_rows(table.sorts, All(table.sorts, B.resorted), s) \union B.sorts
  BY DEF persist
<1> USE <1>p
<1> DEFINE old == table.sorts
           hit == All(table.sorts, B.resorted)
           C == At(cs, "create", 0)
           S == At(cs, "sort", 0)
<1>0. s \in Nat /\ s # 0 /\ Len(cs) \in Nat /\ DOMAIN cs = 1 .. Len(cs) /\ Len(cs) \in 0 .. Len(cs)
  BY DEF Applied
<1>1. SortIs(B, cs, cat, s, Done(cs, C, Len(cs)), Done(cs, S, Len(cs)))
  BY <1>0, SortStates DEF SortState
<1>2. C \subseteq DOMAIN cs /\ S \subseteq DOMAIN cs
  BY DEF At
<1>3. Done(cs, S, Len(cs)) <=> S # {}
  BY <1>0, <1>2, DoneNext, OneStays
<1>4. Done(cs, C, Len(cs)) <=> created
  <2>1. Done(cs, C, Len(cs)) <=> C # {}
    BY <1>0, <1>2, DoneNext, OneStays
  <2>2. C # {} <=> created
    BY DEF At, ListOk
  <2>. QED
    BY <2>1, <2>2
<1>5. /\ B.resorted <=> S # {}
      /\ \A r \in B.sorts : DOMAIN r = SortFields /\ r.begin = s /\ r.end \in {NULL, s}
      /\ S # {} => OneSort(Live(B.sorts), SortName(cat), s)
      /\ S = {} /\ created => OneSort(Live(B.sorts), cs[1].val.sort, s)
      /\ S = {} /\ ~ created => Live(B.sorts) = {}
  BY <1>1, <1>3, <1>4 DEF SortIs
<1>6. Recent(B.sorts, s)
  BY <1>5 DEF Recent, SortFields
<1>7. Retires(new, old, hit, B.sorts, s)
  <2>1. new = retire_rows(old, hit, s) \union B.sorts /\ Timed(old, h)
    OBVIOUS
  <2>2. Timed(old, s)
    BY <2>1, TimedLater
  <2>. HIDE DEF old, hit
  <2>. QED
    BY <1>0, <1>6, <2>1, <2>2, RowsRevised
<1>8. Timed(new, s) /\ Revised(new, old, s)
  BY <1>7 DEF Retires
<1>9. \A r \in new : "name" \in DOMAIN r
  BY <1>5, <1>7 DEF Retires, Twin, SortFields
<1>10. Live(new) = (IF S # {} THEN {} ELSE Live(old)) \union Live(B.sorts)
  <2>1. \A r : r \in Live(new) <=> (r \in Live(old) /\ r \notin hit) \/ r \in Live(B.sorts)
    BY <1>7 DEF Retires
  <2>2. Live(old) \subseteq old /\ hit = IF S # {} THEN old ELSE {}
    BY <1>5 DEF Live, All
  <2>. HIDE DEF old, hit, S
  <2>. QED
    BY <2>1, <2>2
<1>11. Visible(new, s) = Live(new) /\ Visible(old, h) = Live(old)
  BY <1>0, <1>8, VisibleIsLive
<1>12. ASSUME NEW V, NEW name, OneSort(V, name, s), name = SortName(cat) PROVE ShowsSort(V, cat)
  <2>1. CASE name = Unsorted
    BY <1>12, <2>1 DEF OneSort, ShowsSort, AtMostOne
  <2>2. CASE name # Unsorted
    <3>1. PICK k : V = {[id |-> k, name |-> name, begin |-> s, end |-> NULL]}
      BY <1>12, <2>2 DEF OneSort
    <3>2. AtMostOne(V) /\ V # {} /\ \A r \in V : r.name = name
      BY <3>1 DEF AtMostOne
    <3>. QED
      BY <1>12, <2>2, <3>2 DEF ShowsSort
  <2>. QED
    BY <2>1, <2>2
<1>13. ShowsSort(Visible(new, s), cat)
  <2>1. CASE S # {}
    BY <1>5, <1>10, <1>11, <1>12, <2>1
  <2>2. CASE S = {} /\ created
    <3>1. Live(old) = {}
      BY <2>2 DEF Live
    <3>2. cs[1].val.sort = SortName(cat)
      BY <2>2 DEF SortOk, FirstSort
    <3>. QED
      BY <1>5, <1>10, <1>11, <1>12, <2>2, <3>1, <3>2
  <2>3. CASE S = {} /\ ~ created
    <3>1. SortName(cat) = SortName(L)
      BY <2>3 DEF SortOk, FirstSort
    <3>2. Visible(new, s) = Visible(old, h)
      BY <1>5, <1>10, <1>11, <2>3
    <3>. QED
      BY <3>1, <3>2 DEF ShowsSort
  <2>. QED
    BY <2>1, <2>2, <2>3
<1>. QED
  BY <1>8, <1>9, <1>13

-----------------------------------------------------------------------------
(* The edits of tags in the buffer.                                        *)

\* The last edit of the tag of o among the first i changes is the last one in tc.
EditState(tc, cs, o, i) ==
    \/ ~ Done(cs, EditsOf(cs, o), i) /\ \A k \in DOMAIN tc : tc[k].key # o
    \/ \E k \in DOMAIN tc, j \in EditsOf(cs, o) :
          /\ j \in ChangeSet(cs) /\ j <= i
          /\ \A m \in EditsOf(cs, o) : m \in ChangeSet(cs) /\ m <= i => m <= j
          /\ tc[k] = cs[j] /\ \A l \in DOMAIN tc : k < l => tc[l].key # o

TagState(B, cs, s, i) ==
    /\ IsSeq(B.tag_changes)
    /\ \A o : EditState(B.tag_changes, cs, o, i)
    /\ B.tags = IF Done(cs, At(cs, "create", 0), i) THEN TagRows(s, cs[1].val.tags) ELSE {}

LongerByOne(new, tc, c) ==
    /\ IsSeq(new) /\ Len(tc) \in Nat /\ DOMAIN tc = 1 .. Len(tc) /\ DOMAIN new = 1 .. Len(tc) + 1
    /\ new[Len(tc) + 1] = c /\ \A k \in DOMAIN tc : new[k] = tc[k]

(* A list with one more element.                                           *)
LEMMA OneAppended ==
    ASSUME NEW tc, IsSeq(tc), NEW c, NEW new, new = Append(tc, c)
    PROVE  LongerByOne(new, tc, c)
<1>1. PICK S : tc \in Seq(S)
  BY DEF IsSeq
<1>2. tc \in Seq(S \union {c}) /\ c \in S \union {c}
  BY <1>1, SeqMonotonic
<1>3. Len(tc) \in Nat /\ DOMAIN tc = 1 .. Len(tc)
  BY <1>2, LenProperties
<1>4. /\ new \in Seq(S \union {c}) /\ Len(new) = Len(tc) + 1
      /\ \A k \in 1 .. Len(tc) : new[k] = tc[k]
      /\ new[Len(tc) + 1] = c
  BY <1>2, AppendProperties
<1>5. DOMAIN new = 1 .. Len(new) /\ IsSeq(new)
  BY <1>4, LenProperties DEF IsSeq
<1>. QED
  BY <1>3, <1>4, <1>5 DEF LongerByOne

(* An edit that stays is the last one.                                     *)
LEMMA EditNext ==
    ASSUME NEW cs, DOMAIN cs = 1 .. Len(cs), Len(cs) \in Nat, NEW i \in DOMAIN cs, i \in ChangeSet(cs),
           cs[i].op \in {"tag", "untag"}, NEW tc, IsSeq(tc), NEW o, EditState(tc, cs, o, i - 1), NEW new, new = Append(tc, cs[i])
    PROVE  EditState(new, cs, o, i)
<1> DEFINE E == EditsOf(cs, o)
           n == Len(tc) + 1
<1>1. /\ IsSeq(new) /\ Len(tc) \in Nat /\ DOMAIN tc = 1 .. Len(tc) /\ DOMAIN new = 1 .. n
      /\ new[n] = cs[i] /\ \A k \in DOMAIN tc : new[k] = tc[k]
  <2>1. LongerByOne(new, tc, cs[i])
    BY OneAppended
  <2>. QED
    BY <2>1 DEF LongerByOne
<1>2. E \subseteq DOMAIN cs /\ (i \in E <=> cs[i].key = o)
  BY DEF EditsOf, At
<1>3. n \in DOMAIN new /\ \A k \in DOMAIN new : k = n \/ (k \in DOMAIN tc /\ k < n)
  BY <1>1
<1>4. \A k \in DOMAIN tc : k \in DOMAIN new
  BY <1>1
<1>5. i <= i /\ \A m \in DOMAIN cs : m <= i => m = i \/ m <= i - 1
  OBVIOUS
<1>a. \A m \in DOMAIN cs : m <= i - 1 => m <= i
  OBVIOUS
<1>6. CASE cs[i].key = o
  <2>1. \A l \in DOMAIN new : ~ (n < l)
    BY <1>1
  <2>2. i \in E
    BY <1>2, <1>6
  <2>3. \A m \in E : m <= i => m <= i
    OBVIOUS
  <2>. HIDE DEF E, n
  <2>. QED
    BY <1>1, <1>3, <1>5, <2>1, <2>2, <2>3 DEF EditState, E
<1>7. CASE cs[i].key # o
  <2>1. i \notin E
    BY <1>2, <1>7
  <2>2. Done(cs, E, i) <=> Done(cs, E, i - 1)
    BY <1>2, <2>1, DoneNext
  <2>3. CASE ~ Done(cs, E, i - 1) /\ \A k \in DOMAIN tc : tc[k].key # o
    <3>1. \A k \in DOMAIN new : new[k].key # o
      BY <1>1, <1>3, <1>7, <2>3
    <3>. QED
      BY <2>2, <2>3, <3>1 DEF EditState
  <2>4. ASSUME NEW k \in DOMAIN tc, NEW j \in E, j \in ChangeSet(cs), j <= i - 1,
               \A m \in E : m \in ChangeSet(cs) /\ m <= i - 1 => m <= j,
               tc[k] = cs[j], \A l \in DOMAIN tc : k < l => tc[l].key # o
        PROVE  EditState(new, cs, o, i)
    <3>1. \A l \in DOMAIN new : k < l => new[l].key # o
      BY <1>1, <1>3, <1>7, <2>4
    <3>2. \A m \in E : m \in ChangeSet(cs) /\ m <= i => m <= j
      BY <1>2, <1>5, <2>1, <2>4
    <3>3. j <= i /\ new[k] = cs[j] /\ k \in DOMAIN new
      BY <1>1, <1>2, <1>4, <1>a, <2>4
    <3>. HIDE DEF E
    <3>. QED
      BY <2>4, <3>1, <3>2, <3>3 DEF EditState, E
  <2>. QED
    BY <2>3, <2>4 DEF EditState
<1>. QED
  BY <1>6, <1>7

(* Other changes, and changes that are dropped, edit no tag.               *)
LEMMA NoEdit ==
    ASSUME NEW cs, DOMAIN cs = 1 .. Len(cs), Len(cs) \in Nat, NEW i \in DOMAIN cs,
           i \notin ChangeSet(cs) \/ cs[i].op \notin {"tag", "untag"}, NEW tc, NEW o, EditState(tc, cs, o, i - 1)
    PROVE  EditState(tc, cs, o, i)
<1> DEFINE E == EditsOf(cs, o)
<1>1. E \subseteq DOMAIN cs /\ (i \in E => i \notin ChangeSet(cs))
  BY DEF EditsOf, At
<1>2. Done(cs, E, i) <=> Done(cs, E, i - 1)
  BY <1>1, DoneNext
<1>3. \A m \in DOMAIN cs : (m <= i => m = i \/ m <= i - 1) /\ (m <= i - 1 => m <= i)
  OBVIOUS
<1>4. ASSUME NEW k \in DOMAIN tc, NEW j \in E, j \in ChangeSet(cs), j <= i - 1,
             \A m \in E : m \in ChangeSet(cs) /\ m <= i - 1 => m <= j,
             tc[k] = cs[j], \A l \in DOMAIN tc : k < l => tc[l].key # o
      PROVE  EditState(tc, cs, o, i)
  <2>1. \A m \in E : m \in ChangeSet(cs) /\ m <= i => m <= j
    BY <1>1, <1>3, <1>4
  <2>2. j <= i
    BY <1>1, <1>3, <1>4
  <2>. HIDE DEF E
  <2>. QED
    BY <1>4, <2>1, <2>2 DEF EditState, E
<1>. QED
  BY <1>2, <1>4 DEF EditState

(* The edits at every position.                                            *)
LEMMA TagStates ==
    ASSUME NEW b, NEW cs, NEW s, Applied(b, cs, s), NEW created, ListOk(cs, created), NEW i \in 0 .. Len(cs)
    PROVE  TagState(b[i], cs, s, i)
<1> DEFINE S == {j \in 0 .. Len(cs) : TagState(b[j], cs, s, j)}
           C == At(cs, "create", 0)
<1>1. Len(cs) \in Nat /\ DOMAIN cs = 1 .. Len(cs) /\ b[0] = NoBuffer(tx.cat)
  BY DEF Applied
<1>0. C \subseteq DOMAIN cs /\ \A o : EditsOf(cs, o) \subseteq DOMAIN cs
  BY DEF At, EditsOf
<1>2. 0 \in S
  <2>1. b[0].tags = {} /\ b[0].tag_changes = <<>>
    BY <1>1 DEF NoBuffer
  <2>2. ~ Done(cs, C, 0) /\ \A o : ~ Done(cs, EditsOf(cs, o), 0)
    BY <1>0, <1>1, DoneNext
  <2>3. IsSeq(<<>>) /\ DOMAIN <<>> = {}
    <3>1. <<>> \in Seq({})
      OBVIOUS
    <3>. QED
      BY <3>1 DEF IsSeq
  <2>4. TagState(b[0], cs, s, 0)
    BY <2>1, <2>2, <2>3 DEF TagState, EditState
  <2>. QED
    BY <1>1, <2>4
<1>3. ASSUME NEW j \in 1 .. Len(cs), j - 1 \in S PROVE j \in S
  <2>1. j \in DOMAIN cs /\ j \in 0 .. Len(cs) /\ TagState(b[j - 1], cs, s, j - 1)
    BY <1>1, <1>3
  <2>2. Done(cs, C, j) <=> Done(cs, C, j - 1) \/ (j \in C /\ j \in ChangeSet(cs))
    BY <1>0, <1>1, <2>1, DoneNext
  <2>3. CASE j \in ChangeSet(cs)
    <3>1. /\ b[j].tags = b[j - 1].tags \union (IF cs[j].op = "create" THEN TagRows(s, cs[j].val.tags) ELSE {})
          /\ b[j].tag_changes = IF cs[j].op \in {"tag", "untag"} THEN Append(b[j - 1].tag_changes, cs[j]) ELSE b[j - 1].tag_changes
      BY <2>1, <2>3 DEF Applied, Effect, OtherEffect
    <3>2. j \in C <=> cs[j].op = "create"
      BY <2>1 DEF At, ListOk
    <3>3. cs[j].op = "create" => j = 1
      BY <2>1 DEF ListOk
    <3>4. b[j].tags = IF Done(cs, C, j) THEN TagRows(s, cs[1].val.tags) ELSE {}
      BY <2>1, <2>2, <2>3, <3>1, <3>2, <3>3 DEF TagState
    <3>5. IsSeq(b[j].tag_changes) /\ \A o : EditState(b[j].tag_changes, cs, o, j)
      <4>1. CASE cs[j].op \in {"tag", "untag"}
        <5>1. b[j].tag_changes = Append(b[j - 1].tag_changes, cs[j])
          BY <3>1, <4>1
        <5>2. IsSeq(b[j - 1].tag_changes) /\ \A o : EditState(b[j - 1].tag_changes, cs, o, j - 1)
          BY <2>1 DEF TagState
        <5>3. IsSeq(b[j].tag_changes)
          <6>1. LongerByOne(b[j].tag_changes, b[j - 1].tag_changes, cs[j])
            BY <5>1, <5>2, OneAppended
          <6>. QED
            BY <6>1 DEF LongerByOne
        <5>4. ASSUME NEW o PROVE EditState(b[j].tag_changes, cs, o, j)
          BY <1>1, <2>1, <2>3, <4>1, <5>1, <5>2, EditNext
        <5>. QED
          BY <5>3, <5>4
      <4>2. CASE cs[j].op \notin {"tag", "untag"}
        BY <1>1, <2>1, <3>1, <4>2, NoEdit DEF TagState
      <4>. QED
        BY <4>1, <4>2
    <3>. QED
      BY <2>1, <3>4, <3>5 DEF TagState
  <2>4. CASE j \notin ChangeSet(cs)
    <3>1. b[j] = b[j - 1]
      BY <2>1, <2>4 DEF Applied
    <3>2. \A o : EditState(b[j].tag_changes, cs, o, j)
      BY <1>1, <2>1, <2>4, <3>1, NoEdit DEF TagState
    <3>. QED
      BY <2>1, <2>2, <2>4, <3>1, <3>2 DEF TagState
  <2>. QED
    BY <2>3, <2>4
<1>. HIDE DEF S
<1>4. i \in S
  BY <1>1, <1>2, <1>3, Induct
<1>. QED
  BY <1>4 DEF S

\* The last edit of the tag of o is the same in tc and in cs.
EndsAlike(tc, cs, o) ==
    \/ EditsOf(cs, o) = {} /\ \A k \in DOMAIN tc : tc[k].key # o
    \/ \E k \in DOMAIN tc, j \in EditsOf(cs, o) :
          /\ IsLast(j, EditsOf(cs, o)) /\ tc[k] = cs[j]
          /\ \A l \in DOMAIN tc : k < l => tc[l].key # o

(* In the end the last edit of each tag is the last one of the transaction. *)
LEMMA LastEdits ==
    ASSUME NEW b, NEW cs, NEW s, Applied(b, cs, s), NEW created, ListOk(cs, created), NEW B, B = b[Len(cs)], NEW o
    PROVE  EndsAlike(B.tag_changes, cs, o)
<1> DEFINE E == EditsOf(cs, o)
           tc == B.tag_changes
<1>1. Len(cs) \in Nat /\ DOMAIN cs = 1 .. Len(cs) /\ Len(cs) \in 0 .. Len(cs)
  BY DEF Applied
<1>2. EditState(tc, cs, o, Len(cs))
  BY <1>1, TagStates DEF TagState
<1>3. E \subseteq DOMAIN cs
  BY DEF EditsOf, At
<1>4. ASSUME E # {} PROVE \E m \in E : IsLast(m, E) /\ m \in ChangeSet(cs)
  <2>1. E \subseteq 0 .. Len(cs)
    BY <1>1, <1>3
  <2>2. PICK m : IsLast(m, E)
    BY <1>1, <1>4, <2>1, LastExists
  <2>3. m \in E /\ \A j \in E : j <= m
    BY <2>2 DEF IsLast
  <2>4. CASE m \in At(cs, "tag", o)
    <3>1. IsLast(m, At(cs, "tag", o))
      BY <2>3, <2>4 DEF IsLast, EditsOf
    <3>. QED
      BY <1>1, <2>2, <2>3, <2>4, <3>1, OneStays
  <2>5. CASE m \in At(cs, "untag", o)
    <3>1. IsLast(m, At(cs, "untag", o))
      BY <2>3, <2>5 DEF IsLast, EditsOf
    <3>. QED
      BY <1>1, <2>2, <2>3, <2>5, <3>1, OneStays
  <2>. QED
    BY <2>3, <2>4, <2>5 DEF EditsOf
<1>. HIDE DEF E, tc
<1>5. CASE E = {}
  <2>1. ~ \E j \in E : TRUE
    BY <1>5
  <2>. QED
    BY <1>2, <1>5, <2>1 DEF EditState, E, tc, EndsAlike
<1>6. CASE E # {}
  <2>1. PICK m \in E : IsLast(m, E) /\ m \in ChangeSet(cs)
    BY <1>4, <1>6
  <2>2. m <= Len(cs) /\ m \in Nat
    BY <1>1, <1>3
  <2>3. Done(cs, E, Len(cs))
    BY <2>1, <2>2 DEF Done
  <2>4. PICK k \in DOMAIN tc, j \in E :
           /\ j \in ChangeSet(cs) /\ j <= Len(cs)
           /\ \A n \in E : n \in ChangeSet(cs) /\ n <= Len(cs) => n <= j
           /\ tc[k] = cs[j] /\ \A l \in DOMAIN tc : k < l => tc[l].key # o
    BY <1>2, <2>3 DEF EditState, E
  <2>5. m <= j
    BY <2>1, <2>2, <2>4
  <2>6. j <= m
    BY <2>1 DEF IsLast
  <2>7. j = m
    BY <1>1, <1>3, <2>2, <2>5, <2>6
  <2>8. IsLast(j, E)
    BY <2>1, <2>7
  <2>. QED
    BY <2>4, <2>8 DEF E, tc, EndsAlike
<1>. QED
  BY <1>5, <1>6

-----------------------------------------------------------------------------
(* The edits are carried out one after the other.                          *)

TagRow(s, o, v) == [id |-> o, value |-> v, begin |-> s, end |-> NULL]
LiveAt(rows, o) == {r \in Live(rows) : r.id = o}
AfterEdit(c, s) == IF c.op = "tag" THEN {TagRow(s, c.key, c.val)} ELSE {}

\* What the first k edits leave of the tag of o.
TagEdited(rows, first, tc, s, o, k) ==
    \/ (\A l \in 1 .. k : tc[l].key # o) /\ LiveAt(rows, o) = LiveAt(first, o)
    \/ \E l \in 1 .. k : /\ tc[l].key = o /\ \A m \in 1 .. k : l < m => tc[m].key # o
                         /\ LiveAt(rows, o) = AfterEdit(tc[l], s)

TagRowsOk(rows, first, tc, s, k) ==
    /\ Timed(rows, s) /\ Revised(rows, first, s) /\ \A r \in rows : DOMAIN r = TagFields
    /\ \A o : TagEdited(rows, first, tc, s, o, k)

\* One edit.
EditMade(new, rows, s, c) ==
    /\ Timed(new, s) /\ Revised(new, rows, s) /\ \A r \in new : DOMAIN r = TagFields
    /\ LiveAt(new, c.key) = AfterEdit(c, s)
    /\ \A o : o # c.key => LiveAt(new, o) = LiveAt(rows, o)

(* What one edit does.                                                     *)
LEMMA OneEdit ==
    ASSUME NEW s \in Nat, s # 0, NEW rows, Timed(rows, s), \A r \in rows : DOMAIN r = TagFields, NEW c,
           NEW new, new = persist_tag(rows, s, c)
    PROVE  EditMade(new, rows, s, c)
<1> DEFINE hit == {r \in rows : r.id = c.key}
           add == AfterEdit(c, s)
<1>1. TagRows(s, [x \in {c.key} |-> c.val]) = {TagRow(s, c.key, c.val)}
  BY DEF TagRows, TagRow
<1>2. new = retire_rows(rows, hit, s) \union add
  BY <1>1 DEF persist_tag, AfterEdit
<1>3. \A r \in add : r.id = c.key /\ r.begin = s /\ r.end = NULL /\ DOMAIN r = TagFields
  BY DEF AfterEdit, TagRow, TagFields
<1>4. Recent(add, s)
  BY <1>3 DEF Recent, TagFields
<1>5. Live(add) = add
  BY <1>3 DEF Live
<1>6. Retires(new, rows, hit, add, s)
  <2>. HIDE DEF hit, add
  <2>. QED
    BY <1>2, <1>4, RowsRevised
<1>7. Timed(new, s) /\ Revised(new, rows, s) /\ \A r \in new : DOMAIN r = TagFields
  BY <1>3, <1>6 DEF Retires, Twin
<1>8. \A r : r \in Live(new) <=> (r \in Live(rows) /\ r \notin hit) \/ r \in add
  BY <1>5, <1>6 DEF Retires
<1>9. Live(rows) \subseteq rows
  BY DEF Live
<1>10. LiveAt(new, c.key) = add
  BY <1>3, <1>8, <1>9 DEF LiveAt
<1>11. ASSUME NEW o, o # c.key PROVE LiveAt(new, o) = LiveAt(rows, o)
  BY <1>3, <1>8, <1>9, <1>11 DEF LiveAt
<1>. QED
  BY <1>7, <1>10, <1>11 DEF EditMade

(* One revision after the other.                                           *)
LEMMA RevisedTwice ==
    ASSUME NEW a, NEW b, NEW c, NEW s, Revised(b, a, s), Revised(c, b, s)
    PROVE  Revised(c, a, s)
BY ContinuesTwice DEF Revised

(* All edits.                                                              *)
LEMMA TagsAreEdited ==
    ASSUME NEW s \in Nat, s # 0, NEW first, Timed(first, s), \A r \in first : DOMAIN r = TagFields, NEW tc, IsSeq(tc)
    PROVE  TagRowsOk(persist_tags(first, s, tc), first, tc, s, Len(tc))
<1>1. Len(tc) \in Nat /\ DOMAIN tc = 1 .. Len(tc)
  BY LenProperties DEF IsSeq
<1>2. PICK left : Edits(left, first, s, tc, Len(tc)) /\ persist_tags(first, s, tc) = left[Len(tc)]
  BY <1>1, TagsEdited
<1>3. left[0] = first /\ \A i \in 1 .. Len(tc) : left[i] = persist_tag(left[i - 1], s, tc[i])
  BY <1>2 DEF Edits
<1> DEFINE S == {k \in 0 .. Len(tc) : TagRowsOk(left[k], first, tc, s, k)}
<1>4. 0 \in S
  <2>1. Revised(first, first, s)
    BY ContinuesItself DEF Revised
  <2>2. \A o : TagEdited(first, first, tc, s, o, 0)
    BY DEF TagEdited
  <2>3. TagRowsOk(first, first, tc, s, 0)
    BY <2>1, <2>2 DEF TagRowsOk
  <2>. QED
    BY <1>1, <1>3, <2>3
<1>5. ASSUME NEW k \in 1 .. Len(tc), k - 1 \in S PROVE k \in S
  <2> DEFINE old == left[k - 1]
             new == left[k]
  <2>1. TagRowsOk(old, first, tc, s, k - 1) /\ new = persist_tag(old, s, tc[k]) /\ k \in 0 .. Len(tc)
    BY <1>1, <1>3, <1>5
  <2>. HIDE DEF old, new
  <2>2. /\ Timed(old, s) /\ Revised(old, first, s) /\ \A r \in old : DOMAIN r = TagFields
        /\ \A o : TagEdited(old, first, tc, s, o, k - 1)
    BY <2>1 DEF TagRowsOk
  <2>3. EditMade(new, old, s, tc[k])
    BY <2>1, <2>2, OneEdit
  <2>4. /\ Timed(new, s) /\ Revised(new, old, s) /\ \A r \in new : DOMAIN r = TagFields
        /\ LiveAt(new, tc[k].key) = AfterEdit(tc[k], s)
        /\ \A o : o # tc[k].key => LiveAt(new, o) = LiveAt(old, o)
    BY <2>3 DEF EditMade
  <2>5. Revised(new, first, s)
    BY <2>2, <2>4, RevisedTwice
  <2>6. k \in 1 .. k /\ \A l \in 1 .. k : (l = k \/ l \in 1 .. k - 1) /\ ~ (k < l)
    OBVIOUS
  <2>7. \A l \in 1 .. k - 1 : l \in 1 .. k
    OBVIOUS
  <2>8. ASSUME NEW o PROVE TagEdited(new, first, tc, s, o, k)
    <3>1. CASE o = tc[k].key
      BY <2>4, <2>6, <3>1 DEF TagEdited
    <3>2. CASE o # tc[k].key
      <4>1. LiveAt(new, o) = LiveAt(old, o) /\ TagEdited(old, first, tc, s, o, k - 1)
        BY <2>2, <2>4, <3>2
      <4>2. CASE (\A l \in 1 .. k - 1 : tc[l].key # o) /\ LiveAt(old, o) = LiveAt(first, o)
        BY <2>6, <3>2, <4>1, <4>2 DEF TagEdited
      <4>3. ASSUME NEW l \in 1 .. k - 1, tc[l].key = o, \A m \in 1 .. k - 1 : l < m => tc[m].key # o,
                   LiveAt(old, o) = AfterEdit(tc[l], s)
            PROVE  TagEdited(new, first, tc, s, o, k)
        <5>1. \A m \in 1 .. k : l < m => tc[m].key # o
          BY <2>6, <3>2, <4>3
        <5>. QED
          BY <2>7, <4>1, <4>3, <5>1 DEF TagEdited
      <4>. QED
        BY <4>1, <4>2, <4>3 DEF TagEdited
    <3>. QED
      BY <3>1, <3>2
  <2>9. TagRowsOk(new, first, tc, s, k)
    BY <2>4, <2>5, <2>8 DEF TagRowsOk
  <2>. QED
    BY <2>1, <2>9 DEF new
<1>6. 0 .. Len(tc) \subseteq S
  <2>. HIDE DEF S
  <2>. QED
    BY <1>1, <1>4, <1>5, Induct
<1>7. Len(tc) \in 0 .. Len(tc)
  BY <1>1
<1>. QED
  BY <1>2, <1>6, <1>7

\* The rows S are the tag of o in f.
TagIs(S, f, o) ==
    /\ o \in DOMAIN f => \E r : S = {r} /\ r.value = f[o]
    /\ o \notin DOMAIN f => S = {}

ShowsTags(V, cat) ==
    /\ OneEach(V) /\ \A o : o \in Ids(V) <=> o \in DOMAIN cat.tags
    /\ \A r \in V : r.value = cat.tags[r.id]

(* The tags a transaction started from.                                    *)
LEMMA FirstTagsAre ==
    ASSUME NEW h \in Nat, NEW s, s = h + 1, Timed(table.tags, h), OneEach(Visible(table.tags, h)),
           NEW L, L.tags = LoadedTags(table, h), NEW cs, NEW created \in BOOLEAN, created => table.tags = {},
           NEW B, B.tags = IF created THEN TagRows(s, cs[1].val.tags) ELSE {}, NEW o
    PROVE  TagIs(LiveAt(table.tags \union B.tags, o), FirstTags(cs, L, created), o)
<1>1. CASE created
  <2> DEFINE f == cs[1].val.tags
  <2>1. table.tags \union B.tags = {TagRow(s, x, f[x]) : x \in DOMAIN f}
    BY <1>1 DEF TagRows, TagRow
  <2>2. \A x : TagRow(s, x, f[x]).id = x /\ TagRow(s, x, f[x]).end = NULL /\ TagRow(s, x, f[x]).value = f[x]
    BY DEF TagRow
  <2>3. FirstTags(cs, L, created) = f
    BY <1>1 DEF FirstTags
  <2>. HIDE DEF f
  <2>4. LiveAt(table.tags \union B.tags, o) = IF o \in DOMAIN f THEN {TagRow(s, o, f[o])} ELSE {}
    BY <2>1, <2>2 DEF LiveAt, Live
  <2>. QED
    BY <2>2, <2>3, <2>4 DEF TagIs
<1>2. CASE ~ created
  <2> DEFINE V == Visible(table.tags, h)
  <2>1. table.tags \union B.tags = table.tags /\ FirstTags(cs, L, created) = L.tags
    BY <1>2 DEF FirstTags
  <2>2. V = Live(table.tags)
    BY VisibleIsLive
  <2>3. L.tags = [x \in Ids(V) |-> RowOf(V, x).value] /\ OneEach(V)
    BY DEF LoadedTags
  <2>. HIDE DEF V
  <2>4. CASE o \in Ids(V)
    <3>1. RowOf(V, o) \in V /\ RowOf(V, o).id = o
      BY <2>4, RowFound
    <3>2. LiveAt(table.tags, o) = {RowOf(V, o)}
      BY <2>2, <2>3, <3>1 DEF LiveAt, OneEach
    <3>. QED
      BY <2>1, <2>3, <2>4, <3>2 DEF TagIs
  <2>5. CASE o \notin Ids(V)
    <3>1. LiveAt(table.tags, o) = {}
      BY <2>2, <2>5 DEF LiveAt, Ids
    <3>. QED
      BY <2>1, <2>3, <2>5, <3>1 DEF TagIs
  <2>. QED
    BY <2>4, <2>5
<1>. QED
  BY <1>1, <1>2

\* Rows that show the tags of catalog cat in snapshot s.
TagsFit(new, old, cat, s) ==
    Timed(new, s) /\ Revised(new, old, s) /\ HaveFields(new, TagFields) /\ ShowsTags(Visible(new, s), cat)

(* The rows of the tags after the commit.                                  *)
LEMMA TagsPersisted ==
    ASSUME NEW b, NEW cs, NEW h \in Nat, NEW s, s = h + 1, Applied(b, cs, s), NEW created \in BOOLEAN, ListOk(cs, created),
           NEW cat, NEW L, L.tags = LoadedTags(table, h), TagsOk(cs, cat, L, created),
           Timed(table.tags, h), OneEach(Visible(table.tags, h)), HaveFields(table.tags, TagFields),
           created => table.tags = {}, NEW B, B = b[Len(cs)], NEW new, new = persist(B, s).tags
    PROVE  TagsFit(new, table.tags, cat, s)
<1> USE DEF TagsFit, HaveFields
<1>p. new = persist_tags(table.tags \union B.tags, s, B.tag_changes)
  BY DEF persist
<1> USE <1>p
<1> DEFINE first == table.tags \union B.tags
           tc == B.tag_changes
           C == At(cs, "create", 0)
<1>0. s \in Nat /\ s # 0 /\ Len(cs) \in Nat /\ DOMAIN cs = 1 .. Len(cs) /\ Len(cs) \in 0 .. Len(cs)
  BY DEF Applied
<1>1. TagState(B, cs, s, Len(cs))
  BY <1>0, TagStates
<1>2. C \subseteq DOMAIN cs /\ (C # {} <=> created)
  BY DEF At, ListOk
<1>3. Done(cs, C, Len(cs)) <=> created
  <2>1. Done(cs, C, Len(cs)) <=> C # {}
    BY <1>0, <1>2, DoneNext, OneStays
  <2>. QED
    BY <1>2, <2>1
<1>4. IsSeq(tc) /\ B.tags = IF created THEN TagRows(s, cs[1].val.tags) ELSE {}
  BY <1>1, <1>3 DEF TagState
<1>5. \A r \in B.tags : DOMAIN r = TagFields /\ r.begin = s /\ r.end = NULL
  BY <1>4 DEF TagRows, TagFields
<1>6. Recent(B.tags, s)
  BY <1>5 DEF Recent, TagFields
<1>7. Timed(first, s) /\ Revised(first, table.tags, s)
  <2>1. Timed(table.tags, s)
    BY TimedLater
  <2>2. first = retire_rows(table.tags, {}, s) \union B.tags
    BY DEF retire_rows, Ended
  <2>. HIDE DEF first
  <2>3. Retires(first, table.tags, {}, B.tags, s)
    BY <1>0, <1>6, <2>1, <2>2, RowsRevised
  <2>. QED
    BY <2>3 DEF Retires
<1>8. \A r \in first : DOMAIN r = TagFields
  BY <1>5
<1>9. \A o : TagIs(LiveAt(first, o), FirstTags(cs, L, created), o)
  BY <1>0, <1>4, FirstTagsAre
<1>. HIDE DEF first
<1>10. TagRowsOk(new, first, tc, s, Len(tc))
  BY <1>0, <1>4, <1>7, <1>8, TagsAreEdited DEF first
<1>11. Timed(new, s) /\ Revised(new, first, s) /\ \A r \in new : DOMAIN r = TagFields
  BY <1>10 DEF TagRowsOk
<1>12. Revised(new, table.tags, s)
  BY <1>7, <1>11, RevisedTwice
<1>13. Len(tc) \in Nat /\ DOMAIN tc = 1 .. Len(tc)
  BY <1>4, LenProperties DEF IsSeq
<1>14. ASSUME NEW o PROVE TagIs(LiveAt(new, o), cat.tags, o)
  <2> DEFINE E == EditsOf(cs, o)
  <2>1. TagEdited(new, first, tc, s, o, Len(tc))
    BY <1>10 DEF TagRowsOk
  <2>2. TagOk(cs, cat, L, created, o)
    BY DEF TagsOk
  <2>3. \/ E = {} /\ \A k \in DOMAIN tc : tc[k].key # o
        \/ \E k \in DOMAIN tc, j \in E :
              /\ IsLast(j, E) /\ tc[k] = cs[j]
              /\ \A l \in DOMAIN tc : k < l => tc[l].key # o
    <3>1. EndsAlike(tc, cs, o)
      BY LastEdits
    <3>. QED
      BY <3>1 DEF EndsAlike
  <2>4. CASE E = {} /\ \A k \in DOMAIN tc : tc[k].key # o
    <3>1. LiveAt(new, o) = LiveAt(first, o)
      BY <1>13, <2>1, <2>4 DEF TagEdited
    <3>2. SameAt(cat.tags, FirstTags(cs, L, created), o)
      BY <2>2, <2>4 DEF TagOk
    <3>3. TagIs(LiveAt(first, o), FirstTags(cs, L, created), o)
      BY <1>9
    <3>. QED
      BY <3>1, <3>2, <3>3 DEF TagIs, SameAt
  <2>5. ASSUME NEW k \in DOMAIN tc, NEW j \in E, IsLast(j, E), tc[k] = cs[j],
               \A l \in DOMAIN tc : k < l => tc[l].key # o
        PROVE  TagIs(LiveAt(new, o), cat.tags, o)
    <3>1. tc[k].key = o /\ cs[j].op \in {"tag", "untag"}
      BY <2>5 DEF EditsOf, At
    <3>2. PICK l \in DOMAIN tc : /\ tc[l].key = o /\ \A m \in DOMAIN tc : l < m => tc[m].key # o
                                 /\ LiveAt(new, o) = AfterEdit(tc[l], s)
      BY <1>13, <2>1, <3>1 DEF TagEdited
    <3>3. ~ (k < l) /\ ~ (l < k)
      BY <2>5, <3>1, <3>2
    <3>4. k = l
      BY <1>13, <3>3
    <3>5. LiveAt(new, o) = AfterEdit(cs[j], s) /\ cs[j].key = o
      BY <2>5, <3>1, <3>2, <3>4
    <3>6. (o \in DOMAIN cat.tags <=> cs[j].op = "tag") /\ (cs[j].op = "tag" => cat.tags[o] = cs[j].val)
      BY <2>2, <2>5 DEF TagOk
    <3>7. TagRow(s, o, cs[j].val).value = cs[j].val
      BY DEF TagRow
    <3>. QED
      BY <3>5, <3>6, <3>7 DEF TagIs, AfterEdit
  <2>. QED
    BY <2>3, <2>4, <2>5
<1>15. Visible(new, s) = Live(new)
  BY <1>0, <1>11, VisibleIsLive
<1>16. \A r \in Live(new) : r \in LiveAt(new, r.id)
  BY DEF LiveAt
<1>17. OneEach(Live(new))
  <2> SUFFICES ASSUME NEW r \in Live(new), NEW q \in Live(new), r.id = q.id PROVE r = q
    BY DEF OneEach
  <2>1. r \in LiveAt(new, r.id) /\ q \in LiveAt(new, r.id) /\ TagIs(LiveAt(new, r.id), cat.tags, r.id)
    BY <1>14, <1>16
  <2>. QED
    BY <2>1 DEF TagIs
<1>18. ASSUME NEW o PROVE o \in Ids(Live(new)) <=> o \in DOMAIN cat.tags
  <2>1. o \in Ids(Live(new)) <=> LiveAt(new, o) # {}
    BY DEF Ids, LiveAt
  <2>2. TagIs(LiveAt(new, o), cat.tags, o)
    BY <1>14
  <2>. QED
    BY <2>1, <2>2 DEF TagIs
<1>19. ASSUME NEW r \in Live(new) PROVE r.value = cat.tags[r.id]
  <2>1. r \in LiveAt(new, r.id) /\ TagIs(LiveAt(new, r.id), cat.tags, r.id)
    BY <1>14, <1>16
  <2>. QED
    BY <2>1 DEF TagIs
<1>20. ShowsTags(Visible(new, s), cat)
  BY <1>15, <1>17, <1>18, <1>19 DEF ShowsTags
<1>. QED
  BY <1>11, <1>12, <1>20

-----------------------------------------------------------------------------
(* The writes in the buffer.                                               *)

WriteOf(c) == IF c.op = "files" THEN c.key ELSE c.val.write

\* A row of a write of the transaction, with the partitioning of the catalog if any.
DataRow(w, cs, cat, p) ==
    /\ \E j \in DOMAIN cs : cs[j].op \in WriteKinds /\ w.nulls = cs[j].val.nulls /\ w.cols = cs[j].val.cols
    /\ w.part = 0 \/ (w.part = p /\ p # 0 /\ w.values = cat.part.cols /\ cat.part.cols # {})

\* The writes up to i are in the buffer, and nothing else is.
DataState(B, cs, cat, i) ==
    /\ \A j \in 1 .. i : cs[j].op \in WriteKinds => \E w \in B.data : w.write = WriteOf(cs[j])
    /\ \A w \in B.data : DataRow(w, cs, cat, B.part_id)

(* No write is dropped.                                                    *)
LEMMA WritesStay ==
    ASSUME NEW cs, DOMAIN cs = 1 .. Len(cs), Len(cs) \in Nat, NEW n, WritesOk(cs, n),
           NEW i \in DOMAIN cs, cs[i].op \in WriteKinds
    PROVE  i \in ChangeSet(cs)
<1>1. \A j \in DOMAIN cs : cs[j].op = cs[i].op /\ cs[j].key = cs[i].key => j = i
  BY DEF WritesOk
<1>2. ASSUME NEW j \in DOMAIN cs, i < j, HashableChange(cs[j]) = HashableChange(cs[i])
      PROVE  FALSE
  <2>1. cs[j].op = cs[i].op /\ cs[j].key = cs[i].key
    BY <1>2 DEF HashableChange
  <2>2. j = i
    BY <1>1, <2>1
  <2> QED
    BY <1>2, <2>2
<1> QED
  BY <1>2 DEF ChangeSet

(* The row of one write.                                                   *)
LEMMA DataOfWrite ==
    ASSUME NEW c, NEW p
    PROVE  /\ c.op \in WriteKinds => \E w \in DataOf(c, p) : w.write = WriteOf(c)
           /\ \A w \in DataOf(c, p) :
                 /\ c.op \in WriteKinds /\ w.nulls = c.val.nulls /\ w.cols = c.val.cols
                 /\ w.part = 0 \/ (w.part = p /\ c.op = "files" /\ w.values = c.val.part /\ c.val.part # {})
<1>1. CASE c.op = "files"
  <2> DEFINE w == [write |-> c.key, kind |-> "files", nulls |-> c.val.nulls, cols |-> c.val.cols,
                   values |-> c.val.part, part |-> IF c.val.part = {} THEN 0 ELSE p]
  <2>1. DataOf(c, p) = {w}
    BY <1>1 DEF DataOf
  <2>2. /\ w.write = c.key /\ w.nulls = c.val.nulls /\ w.cols = c.val.cols /\ w.values = c.val.part
        /\ w.part = IF c.val.part = {} THEN 0 ELSE p
    OBVIOUS
  <2> HIDE DEF w
  <2>3. WriteOf(c) = c.key /\ c.op \in WriteKinds
    BY <1>1 DEF WriteOf, WriteKinds
  <2> QED
    BY <1>1, <2>1, <2>2, <2>3
<1>2. CASE c.op = "inline"
  <2> DEFINE w == [write |-> c.val.write, kind |-> "inline", nulls |-> c.val.nulls, cols |-> c.val.cols,
                   values |-> {}, part |-> 0]
  <2>1. DataOf(c, p) = {w}
    BY <1>2 DEF DataOf
  <2>2. w.write = c.val.write /\ w.nulls = c.val.nulls /\ w.cols = c.val.cols /\ w.part = 0
    OBVIOUS
  <2> HIDE DEF w
  <2>3. WriteOf(c) = c.val.write /\ c.op \in WriteKinds
    BY <1>2 DEF WriteOf, WriteKinds
  <2> QED
    BY <2>1, <2>2, <2>3
<1>3. CASE c.op \notin WriteKinds
  BY <1>3 DEF DataOf, WriteKinds
<1> QED
  BY <1>1, <1>2, <1>3 DEF WriteKinds

(* A change that stays.                                                    *)
LEMMA DataNext ==
    ASSUME NEW cs, DOMAIN cs = 1 .. Len(cs), Len(cs) \in Nat, NEW created, NEW cat, NEW L, PartOk(cs, cat, L, created),
           NEW s, NEW i \in DOMAIN cs, NEW B, NEW B2, B.next_id # 0,
           PartEffect(B2, B, s, cs[i]), OtherEffect(B2, B, s, cs[i]), DataState(B, cs, cat, i - 1)
    PROVE  DataState(B2, cs, cat, i)
<1> DEFINE c == cs[i]
           p == partition_id(B)
<1>1. B2.data = B.data \union DataOf(c, p)
  BY DEF OtherEffect
<1>2. p # 0 /\ (B.part_id # 0 => p = B.part_id)
  BY DEF partition_id
<1>3. B2.part_id = IF NeedsPart(c) THEN p ELSE B.part_id
  BY DEF PartEffect
<1>4. /\ c.op \in WriteKinds => \E w \in DataOf(c, p) : w.write = WriteOf(c)
      /\ \A w \in DataOf(c, p) :
            /\ c.op \in WriteKinds /\ w.nulls = c.val.nulls /\ w.cols = c.val.cols
            /\ w.part = 0 \/ (w.part = p /\ c.op = "files" /\ w.values = c.val.part /\ c.val.part # {})
  BY DataOfWrite
<1>5. c.op = "files" /\ c.val.part # {} => c.val.part = cat.part.cols /\ NeedsPart(c)
  BY DEF PartOk, NeedsPart
<1> HIDE DEF p
<1>6. ASSUME NEW j \in 1 .. i, cs[j].op \in WriteKinds
      PROVE  \E w \in B2.data : w.write = WriteOf(cs[j])
  <2>1. CASE j = i
    BY <1>1, <1>4, <1>6, <2>1
  <2>2. CASE j # i
    <3>1. j \in 1 .. i - 1
      BY <2>2
    <3> QED
      BY <1>1, <1>6, <3>1 DEF DataState
  <2> QED
    BY <2>1, <2>2
<1>7. ASSUME NEW w \in B2.data
      PROVE  DataRow(w, cs, cat, B2.part_id)
  <2>1. CASE w \in B.data
    <3>1. DataRow(w, cs, cat, B.part_id)
      BY <2>1 DEF DataState
    <3>2. B.part_id # 0 => B2.part_id = B.part_id
      BY <1>2, <1>3
    <3> QED
      BY <3>1, <3>2 DEF DataRow
  <2>2. CASE w \in DataOf(c, p)
    <3>1. c.op \in WriteKinds /\ w.nulls = c.val.nulls /\ w.cols = c.val.cols
      BY <1>4, <2>2
    <3>2. w.part = 0 \/ (w.part = p /\ c.op = "files" /\ w.values = c.val.part /\ c.val.part # {})
      BY <1>4, <2>2
    <3>3. w.part = 0 \/ (w.part = B2.part_id /\ B2.part_id # 0 /\ w.values = cat.part.cols /\ cat.part.cols # {})
      BY <1>2, <1>3, <1>5, <3>2
    <3> QED
      BY <3>1, <3>3 DEF DataRow
  <2> QED
    BY <1>1, <2>1, <2>2
<1> QED
  BY <1>6, <1>7 DEF DataState

(* The writes at every position.                                           *)
LEMMA DataStates ==
    ASSUME NEW b, NEW cs, NEW s, Applied(b, cs, s), NEW created \in BOOLEAN, ListOk(cs, created), next_id \in Nat, next_id # 0,
           NEW cat, cat = tx.cat, NEW L, PartOk(cs, cat, L, created), NEW n, WritesOk(cs, n), NEW i \in 0 .. Len(cs)
    PROVE  DataState(b[i], cs, cat, i)
<1>1. DOMAIN cs = 1 .. Len(cs) /\ Len(cs) \in Nat /\ b[0] = NoBuffer(tx.cat)
  BY DEF Applied
<1> DEFINE S == {k \in 0 .. Len(cs) : DataState(b[k], cs, cat, k)}
<1>2. 0 \in S
  <2>1. b[0].data = {}
    BY <1>1 DEF NoBuffer
  <2>2. 1 .. 0 = {}
    OBVIOUS
  <2>3. DataState(b[0], cs, cat, 0)
    BY <2>1, <2>2 DEF DataState
  <2> QED
    BY <1>1, <2>3
<1>3. ASSUME NEW k \in 1 .. Len(cs), k - 1 \in S
      PROVE  k \in S
  <2>1. k \in DOMAIN cs /\ k - 1 \in 0 .. Len(cs) /\ k \in 0 .. Len(cs)
    BY <1>1
  <2>2. DataState(b[k - 1], cs, cat, k - 1)
    BY <1>3
  <2>3. CASE k \in ChangeSet(cs)
    <3>1. PartEffect(b[k], b[k - 1], s, cs[k]) /\ OtherEffect(b[k], b[k - 1], s, cs[k])
      BY <2>1, <2>3 DEF Applied, Effect
    <3>2. PartState(b[k - 1], cs, cat, s, next_id, k - 1)
      BY PartStates, <2>1
    <3>3. b[k - 1].next_id \in Nat /\ next_id <= b[k - 1].next_id
      BY <3>2 DEF PartState, PartIs
    <3>4. b[k - 1].next_id # 0
      BY <3>3
    <3>5. DataState(b[k], cs, cat, k)
      BY DataNext, <1>1, <2>1, <2>2, <3>1, <3>4
    <3> QED
      BY <2>1, <3>5
  <2>4. CASE k \notin ChangeSet(cs)
    <3>1. b[k] = b[k - 1]
      BY <2>1, <2>4 DEF Applied
    <3>2. cs[k].op \notin WriteKinds
      BY WritesStay, <1>1, <2>1, <2>4
    <3>3. \A j \in 1 .. k : j # k => j \in 1 .. k - 1
      OBVIOUS
    <3>4. DataState(b[k], cs, cat, k)
      BY <2>2, <3>1, <3>2, <3>3 DEF DataState
    <3> QED
      BY <2>1, <3>4
  <2> QED
    BY <2>3, <2>4
<1> HIDE DEF S
<1>4. 0 .. Len(cs) \subseteq S
  BY Induct, <1>1, <1>2, <1>3
<1> QED
  BY <1>4 DEF S

-----------------------------------------------------------------------------
(* The commit.                                                             *)

\* The transaction has something to commit.
HasChanges == Active /\ tx.changes # <<>>

(* Nothing is staged before there is a table.                              *)
LEMMA TableIsOpen ==
    ASSUME TxOk, HasChanges
    PROVE  Open
BY DEF TxOk, HasChanges, Open

\* A table that the transaction has created has no rows.
NoRowsYet(t) ==
    t.columns = {} /\ t.parts = {} /\ t.part_cols = {} /\ t.sorts = {} /\ t.tags = {} /\ t.data = {}

(* A table that is created was not there.                                  *)
LEMMA CreatedIsNew ==
    ASSUME DbOk, TxOk, Active, tx.created
    PROVE  NoRowsYet(table)
<1>1. table.columns = {}
  BY DEF TxOk, Exists
<1> QED
  BY <1>1 DEF DbOk, RowsOk, NoRowsYet

(* The sort order of the catalog that was loaded.                          *)
LEMMA LoadedSortShown ==
    ASSUME NEW t, NEW q, SnapOk(t, q)
    PROVE  ShowsSort(Visible(t.sorts, q), Load(t, q))
<1>1. Load(t, q).sort = LoadedSort(t, q)
  BY DEF Load
<1>2. Visible(t.sorts, q) = {} => SortName(Load(t, q)) = Unsorted
  BY <1>1 DEF LoadedSort, SortName
<1> QED
  BY <1>2 DEF SnapOk, ShowsSort

\* The rows that a commit leaves behind.
TableFits(t, B, cat, s) ==
    /\ ColumnsFit(t.columns, table.columns, cat, s) /\ PartsFit(t.parts, t.part_cols, B, cat, s)
    /\ SortsFit(t.sorts, table.sorts, cat, s) /\ TagsFit(t.tags, table.tags, cat, s)

(* They show the catalog of the transaction.                               *)
LEMMA CommitRows ==
    ASSUME DbOk, TxOk, HasChanges, NEW s, s = head + 1, NEW b, Applied(b, tx.changes, s),
           NEW B, B = b[Len(tx.changes)], NEW t, t = persist(B, s)
    PROVE  TableFits(t, B, tx.cat, s)
<1>1. Open
  BY TableIsOpen
<1>2. PICK cs, cat, L, created : cs = tx.changes /\ cat = tx.cat /\ L = Loaded /\ created = tx.created
  OBVIOUS
<1>3. WholeOk(Draft, L, created, calls) /\ Draft.cat = cat /\ Draft.changes = cs /\ created \in BOOLEAN
  BY InCall, <1>1, <1>2
<1>4. /\ ListOk(cs, created) /\ ColumnsOk(cs, cat, L) /\ PartOk(cs, cat, L, created)
      /\ TagsOk(cs, cat, L, created) /\ SortOk(cs, cat, L, created)
  BY <1>3 DEF WholeOk, PartsOk
<1>5. ColsOk(cat)
  BY <1>3 DEF WholeOk, PartsOk, CatOk
<1>6. head \in Nat /\ next_id \in Nat /\ next_id # 0
  BY DEF DbOk, RowsOk
<1>7. Timed(table.columns, head) /\ Timed(table.parts, head) /\ Timed(table.sorts, head) /\ Timed(table.tags, head)
  BY DEF DbOk, RowsOk
<1>8. HaveFields(table.columns, ColumnFields) /\ HaveNames(table.sorts) /\ HaveFields(table.tags, TagFields)
  BY DEF DbOk, RowsOk, HaveFields, HaveNames
<1>9. NumberedBelow(table.parts, next_id) /\ NumberedBelow(table.part_cols, next_id)
  BY DEF DbOk, RowsOk, NumberedBelow
<1>10. SnapOk(table, head)
  BY <1>6 DEF DbOk
<1>11. /\ OneEach(Visible(table.columns, head)) /\ OneEach(Visible(table.tags, head))
       /\ AtMostOne(Visible(table.parts, head))
       /\ Visible(table.parts, head) # {} => LoadedPart(table, head).cols # {}
  BY <1>10 DEF SnapOk
<1>12. created => table.parts = {} /\ table.sorts = {} /\ table.tags = {}
  BY CreatedIsNew, <1>2 DEF NoRowsYet, HasChanges
<1>13. /\ L.cols = LoadedColumns(table, head) /\ L.part = LoadedPart(table, head)
       /\ L.tags = LoadedTags(table, head)
  BY <1>2 DEF Loaded, Load
<1>14. ShowsSort(Visible(table.sorts, head), L)
  BY LoadedSortShown, <1>2, <1>10 DEF Loaded
<1>15. Applied(b, cs, s) /\ B = b[Len(cs)]
  BY <1>2
<1>16. ColumnsFit(t.columns, table.columns, cat, s)
  BY ColumnsPersisted, <1>4, <1>5, <1>6, <1>7, <1>8, <1>11, <1>13, <1>15
<1>17. PartsFit(t.parts, t.part_cols, B, cat, s)
  BY PartPersisted, <1>2, <1>3, <1>4, <1>6, <1>7, <1>9, <1>11, <1>12, <1>13, <1>15
<1>18. SortsFit(t.sorts, table.sorts, cat, s)
  BY SortPersisted, <1>3, <1>4, <1>6, <1>7, <1>8, <1>12, <1>14, <1>15
<1>19. TagsFit(t.tags, table.tags, cat, s)
  BY TagsPersisted, <1>3, <1>4, <1>6, <1>7, <1>8, <1>11, <1>12, <1>13, <1>15
<1> QED
  BY <1>2, <1>16, <1>17, <1>18, <1>19 DEF TableFits

-----------------------------------------------------------------------------
(* What is loaded after the commit.                                        *)

\* What is visible in snapshot s of t is catalog cat.
ShowsCat(t, s, cat) ==
    /\ ShowsColumns(Visible(t.columns, s), cat)
    /\ ShowsPart(Visible(t.parts, s), t.part_cols, cat)
    /\ ShowsSort(Visible(t.sorts, s), cat)
    /\ ShowsTags(Visible(t.tags, s), cat)

(* The partitioning that is loaded.                                        *)
LEMMA PartShown ==
    ASSUME NEW t, NEW s, NEW cat, ShowsPart(Visible(t.parts, s), t.part_cols, cat), NEW p, p = LoadedPart(t, s)
    PROVE  /\ DOMAIN p = {"id", "cols"} /\ p.id \in Nat /\ p.cols = cat.part.cols
           /\ Visible(t.parts, s) # {} => p.cols # {}
<1> DEFINE V == Visible(t.parts, s)
<1>1. p = IF V = {} THEN NoPart
          ELSE [id |-> CHOOSE q \in Ids(V) : TRUE, cols |-> KeysOf(t.part_cols, CHOOSE q \in Ids(V) : TRUE)]
  BY DEF LoadedPart, KeysOf
<1>2. AtMostOne(V) /\ (V = {} => cat.part.cols = {})
  BY DEF ShowsPart
<1>3. \A r \in V : r.id \in Nat /\ KeysOf(t.part_cols, r.id) = cat.part.cols /\ cat.part.cols # {}
  BY DEF ShowsPart
<1> HIDE DEF V
<1>4. CASE V = {}
  BY <1>1, <1>2, <1>4 DEF NoPart, V
<1>5. CASE V # {}
  <2>1. PICK r \in V : TRUE
    BY <1>5
  <2>2. Ids(V) = {r.id}
    BY <1>2, <2>1 DEF Ids, AtMostOne
  <2>3. p = [id |-> r.id, cols |-> KeysOf(t.part_cols, r.id)]
    BY <1>1, <1>5, <2>2
  <2> QED
    BY <1>3, <2>1, <2>3
<1> QED
  BY <1>4, <1>5

(* Columns with different names: the one with a given name is found.       *)
LEMMA SortFound ==
    ASSUME NEW cols, NEW name, NEW x \in DOMAIN cols, cols[x].parent = 0, cols[x].name = name,
           NULL \notin DOMAIN cols,
           \A y \in DOMAIN cols : cols[y].parent = 0 /\ cols[y].name = name => y = x
    PROVE  SortColumn(cols, name) = x
<1> DEFINE P(c) == \/ c # NULL /\ cols[c].parent = 0 /\ cols[c].name = name
                   \/ c = NULL /\ \A d \in DOMAIN cols : cols[d].parent = 0 => cols[d].name # name
<1>1. P(x) /\ x \in DOMAIN cols \union {NULL}
  OBVIOUS
<1>2. \A c \in DOMAIN cols \union {NULL} : P(c) => c = x
  OBVIOUS
<1>3. SortColumn(cols, name) = CHOOSE c \in DOMAIN cols \union {NULL} : P(c)
  BY DEF SortColumn
<1> HIDE DEF P
<1> QED
  BY <1>1, <1>2, <1>3

\* The columns that are present.
Shows(cols, cat) ==
    /\ DOMAIN cols = Present(cat) /\ \A x \in DOMAIN cols : cols[x] = cat.cols[x]

(* The sort order that is loaded.                                          *)
LEMMA SortShown ==
    ASSUME NEW t, NEW s, NEW cat, CatOk(cat), ShowsSort(Visible(t.sorts, s), cat),
           Shows(LoadedColumns(t, s), cat)
    PROVE  LoadedSort(t, s) = cat.sort
<1> DEFINE V == Visible(t.sorts, s)
           cols == LoadedColumns(t, s)
<1>1. cat.sort # 0 => IsRoot(cat, cat.sort)
  BY DEF CatOk, KeysOk
<1>2. cat.sort # 0 => SortName(cat) # Unsorted
  BY <1>1 DEF SortName, IsRoot, Present, CatOk, ColsOk, DefOk
<1>3. CASE V = {}
  <2>1. LoadedSort(t, s) = 0
    BY <1>3 DEF LoadedSort
  <2>2. SortName(cat) = Unsorted
    BY <1>3 DEF ShowsSort
  <2> QED
    BY <1>2, <2>1, <2>2
<1>4. CASE V # {}
  <2>1. \A i \in V : i.name = SortName(cat) /\ i.name # Unsorted
    BY DEF ShowsSort
  <2>2. SortName(cat) # Unsorted
    BY <1>4, <2>1
  <2>3. cat.sort # 0
    BY <2>2 DEF SortName
  <2>4. LoadedSort(t, s) = SortColumn(cols, SortName(cat))
    BY SortLoaded, <1>4, <2>1
  <2>5. cat.sort \in Present(cat) /\ cat.cols[cat.sort].parent = 0 /\ cat.cols[cat.sort].name = SortName(cat)
    BY <1>1, <2>3 DEF IsRoot, SortName
  <2>6. DOMAIN cols = Present(cat) /\ \A x \in DOMAIN cols : cols[x] = cat.cols[x]
    BY DEF Shows
  <2>7. \A x \in Present(cat) : x \in Nat /\ x \in DOMAIN cat.cols
    BY DEF Present, CatOk, ColsOk
  <2>8. NULL \notin Nat
    BY DEF NULL
  <2>9. \A y \in Present(cat) : cat.cols[y].parent = 0 /\ cat.cols[y].name = SortName(cat) => y = cat.sort
    BY <2>5, <2>7 DEF CatOk, ColsOk
  <2> HIDE DEF cols
  <2>10. SortColumn(cols, SortName(cat)) = cat.sort
    BY SortFound, <2>5, <2>6, <2>7, <2>8, <2>9
  <2> QED
    BY <2>4, <2>10 DEF cols
<1> QED
  BY <1>3, <1>4

(* The tags that are loaded.                                               *)
LEMMA TagsShown ==
    ASSUME NEW t, NEW s, NEW cat, ShowsTags(Visible(t.tags, s), cat), NEW f, f = LoadedTags(t, s)
    PROVE  DOMAIN f = DOMAIN cat.tags /\ \A o \in DOMAIN f : f[o] = cat.tags[o]
<1> DEFINE V == Visible(t.tags, s)
<1>1. f = [o \in Ids(V) |-> RowOf(V, o).value]
  BY DEF LoadedTags
<1>2. (\A o : o \in Ids(V) <=> o \in DOMAIN cat.tags) /\ \A r \in V : r.value = cat.tags[r.id]
  BY DEF ShowsTags
<1> HIDE DEF V
<1>3. \A o \in Ids(V) : RowOf(V, o) \in V /\ RowOf(V, o).id = o
  BY RowFound
<1>4. DOMAIN f = Ids(V)
  BY <1>1
<1>5. DOMAIN f = DOMAIN cat.tags
  BY <1>2, <1>4
<1> QED
  BY <1>1, <1>2, <1>3, <1>4, <1>5

\* What is shown of a catalog, without the removed fields of a struct.
Remaining(cat) ==
    [cols |-> Only(cat.cols, Present(cat)), part |-> cat.part.cols, sort |-> cat.sort,
     tags |-> Only(cat.tags, Present(cat) \union {0})]

(* The columns that are listed and not removed are the ones that are there. *)
LEMMA ListedRemain ==
    ASSUME NEW cat, CatOk(cat)
    PROVE  Listed(cat) \ cat.gone = Present(cat) /\ 0 \notin cat.gone
<1>1. ASSUME NEW c \in Present(cat) PROVE c \in Listed(cat)
  BY DEF Present, Listed, CatOk, ColsOk
<1>. QED
  BY <1>1 DEF Present, Listed, CatOk, ColsOk

(* The removed fields are the difference.                                  *)
LEMMA ShownRemains ==
    ASSUME NEW cat, CatOk(cat)
    PROVE  Without(Shown(cat), cat.gone) = Remaining(cat)
<1> DEFINE view == Shown(cat)
           cols == Only(cat.cols, Listed(cat))
           tags == Only(cat.tags, Listed(cat) \union {0})
<1>1. view = [cols |-> cols, part |-> cat.part.cols, sort |-> cat.sort, tags |-> tags]
  BY DEF Shown
<1>2. Without(view, cat.gone) =
          [cols |-> Only(cols, DOMAIN cols \ cat.gone), part |-> cat.part.cols, sort |-> cat.sort,
           tags |-> Only(tags, DOMAIN tags \ cat.gone)]
  <2>. HIDE DEF cols, tags, view
  <2>1. view.cols = cols /\ view.part = cat.part.cols /\ view.sort = cat.sort /\ view.tags = tags
    BY <1>1
  <2>. QED
    BY <2>1 DEF Without
<1>3. Only(cols, DOMAIN cols \ cat.gone) = Only(cat.cols, Present(cat))
  BY ListedRemain DEF Only
<1>4. Only(tags, DOMAIN tags \ cat.gone) = Only(cat.tags, Present(cat) \union {0})
  BY ListedRemain DEF Only
<1>. QED
  BY <1>2, <1>3, <1>4 DEF Remaining

(* A catalog that was just loaded has none.                                *)
LEMMA LoadedIsShown ==
    ASSUME NEW t, NEW s, CatOk(Load(t, s))
    PROVE  Shown(Load(t, s)) = Remaining(Load(t, s))
<1>1. Load(t, s).gone = {}
  BY DEF Load
<1>2. Listed(Load(t, s)) = Present(Load(t, s))
  BY <1>1, ListedRemain
<1>. QED
  BY <1>2 DEF Shown, Remaining

(* A catalog that is loaded from what shows a catalog.                     *)
LEMMA CatShown ==
    ASSUME NEW t, NEW s, NEW cat, CatOk(cat), ShowsCat(t, s, cat)
    PROVE  /\ CatOk(Load(t, s)) /\ Remaining(Load(t, s)) = Remaining(cat)
           /\ Load(t, s).sort = cat.sort /\ Shows(LoadedColumns(t, s), cat)
<1> DEFINE cols == LoadedColumns(t, s)
           part == LoadedPart(t, s)
           tags == LoadedTags(t, s)
           M == Load(t, s)
<1>1. cols = Only(cat.cols, Present(cat))
  BY ColumnsShown DEF ShowsCat
<1>2. Present(cat) \subseteq DOMAIN cat.cols
  BY DEF Present
<1>3. Shows(cols, cat)
  BY <1>1, <1>2 DEF Only, Shows
<1>4. DOMAIN part = {"id", "cols"} /\ part.id \in Nat /\ part.cols = cat.part.cols
  BY PartShown DEF ShowsCat
<1>5. LoadedSort(t, s) = cat.sort
  BY SortShown, <1>3 DEF ShowsCat
<1>6. DOMAIN tags = DOMAIN cat.tags /\ \A o \in DOMAIN tags : tags[o] = cat.tags[o]
  BY TagsShown DEF ShowsCat
<1>7. /\ DOMAIN M = CatFields /\ M.cols = cols /\ M.gone = {} /\ M.part = part
      /\ M.sort = cat.sort /\ M.tags = tags
  BY <1>5 DEF Load, CatFields
<1>8. Present(M) = Present(cat)
  BY <1>3, <1>7 DEF Present, Shows
<1> HIDE DEF cols, part, tags, M
<1>9. ColsOk(M)
  <2>1. ASSUME NEW x \in DOMAIN cols
        PROVE  /\ x \in Nat /\ x # 0 /\ DefOk(cols[x])
               /\ cols[x].parent # 0 => cols[x].parent \in DOMAIN cols /\ cols[cols[x].parent].parent = 0
               /\ cols[x].parent \notin {}
               /\ \A y \in DOMAIN cols : cols[x].parent = cols[y].parent /\ cols[x].name = cols[y].name => x = y
    <3>1. x \in DOMAIN cat.cols /\ x \notin cat.gone /\ cols[x] = cat.cols[x]
      BY <1>3, <2>1 DEF Shows, Present
    <3>2. x \in Nat /\ x # 0 /\ DefOk(cat.cols[x])
      BY <3>1 DEF CatOk, ColsOk
    <3>3. ASSUME cols[x].parent # 0
          PROVE  cols[x].parent \in DOMAIN cols /\ cols[cols[x].parent].parent = 0
      <4> DEFINE p == cat.cols[x].parent
      <4>1. p \in DOMAIN cat.cols /\ cat.cols[p].parent = 0 /\ p \notin cat.gone
        BY <3>1, <3>3 DEF CatOk, ColsOk
      <4>2. p \in DOMAIN cols
        BY <1>3, <4>1 DEF Shows, Present
      <4> QED
        BY <1>3, <3>1, <4>1, <4>2 DEF Shows
    <3>4. \A y \in DOMAIN cols : y \in DOMAIN cat.cols /\ cols[y] = cat.cols[y]
      BY <1>2, <1>3 DEF Shows
    <3>5. \A y \in DOMAIN cols : cols[x].parent = cols[y].parent /\ cols[x].name = cols[y].name => x = y
      BY <3>1, <3>4 DEF CatOk, ColsOk
    <3> QED
      BY <3>1, <3>2, <3>3, <3>5
  <2> QED
    BY <1>7, <2>1 DEF ColsOk
<1>10. KeysOk(M)
  <2>1. ASSUME NEW x, IsRoot(cat, x)
        PROVE  IsRoot(M, x)
    BY <1>3, <1>7, <1>8, <2>1 DEF IsRoot, Shows
  <2>2. (\A x \in cat.part.cols : IsRoot(cat, x)) /\ (cat.sort # 0 => IsRoot(cat, cat.sort))
    BY DEF CatOk, KeysOk
  <2> QED
    BY <1>4, <1>7, <2>1, <2>2 DEF KeysOk
<1>11. Only(M.cols, Present(M)) = Only(cat.cols, Present(cat))
  <2>1. DOMAIN cols \intersect Present(cat) = DOMAIN cat.cols \intersect Present(cat)
    BY <1>2, <1>3 DEF Shows
  <2>2. \A x \in DOMAIN cat.cols \intersect Present(cat) : cols[x] = cat.cols[x]
    BY <1>3 DEF Shows
  <2> QED
    BY <1>7, <1>8, <2>1, <2>2 DEF Only
<1>12. Only(M.tags, Present(M) \union {0}) = Only(cat.tags, Present(cat) \union {0})
  BY <1>6, <1>7, <1>8 DEF Only
<1>13. Remaining(M) = Remaining(cat)
  BY <1>4, <1>7, <1>11, <1>12 DEF Remaining
<1> QED
  BY <1>3, <1>7, <1>9, <1>10, <1>13 DEF CatOk, M, cols

(* The snapshot that a commit makes can be loaded.                         *)
LEMMA NewSnapshotOk ==
    ASSUME NEW t, NEW s, NEW cat, CatOk(cat), ShowsCat(t, s, cat)
    PROVE  SnapOk(t, s) /\ Remaining(Load(t, s)) = Remaining(cat) /\ Shows(LoadedColumns(t, s), cat)
<1>1. /\ CatOk(Load(t, s)) /\ Remaining(Load(t, s)) = Remaining(cat)
      /\ Load(t, s).sort = cat.sort /\ Shows(LoadedColumns(t, s), cat)
  BY CatShown
<1>2. OneEach(Visible(t.columns, s)) /\ OneEach(Visible(t.tags, s))
  BY DEF ShowsCat, ShowsColumns, ShowsTags
<1>3. AtMostOne(Visible(t.parts, s)) /\ AtMostOne(Visible(t.sorts, s))
  BY DEF ShowsCat, ShowsPart, ShowsSort
<1>4. Visible(t.parts, s) # {} => LoadedPart(t, s).cols # {}
  BY PartShown DEF ShowsCat
<1>5. SortName(Load(t, s)) = SortName(cat)
  <2>1. Load(t, s).cols = LoadedColumns(t, s)
    BY DEF Load
  <2>2. cat.sort # 0 => cat.sort \in Present(cat)
    BY DEF CatOk, KeysOk, IsRoot
  <2>3. cat.sort # 0 => LoadedColumns(t, s)[cat.sort] = cat.cols[cat.sort]
    BY <1>1, <2>2 DEF Shows
  <2> QED
    BY <1>1, <2>1, <2>3 DEF SortName
<1>6. \A i \in Visible(t.sorts, s) : i.name = SortName(Load(t, s)) /\ i.name # Unsorted
  BY <1>5 DEF ShowsCat, ShowsSort
<1> QED
  BY <1>1, <1>2, <1>3, <1>4, <1>6 DEF SnapOk

-----------------------------------------------------------------------------
(* The invariant after a commit.                                           *)

\* The changes that are committed, the buffer they fill and the table they leave.
Committing(s, B, t) == s = head + 1 /\ B = Buffer(tx.changes, s) /\ t = persist(B, s)

(* A buffer is filled and its rows show the catalog.                       *)
LEMMA CommitFits ==
    ASSUME DbOk, TxOk, HasChanges, NEW s, NEW B, NEW t, Committing(s, B, t)
    PROVE  TableFits(t, B, tx.cat, s) /\ DataState(B, tx.changes, tx.cat, Len(tx.changes))
<1>1. Open
  BY TableIsOpen
<1>2. WholeOk(Draft, Loaded, tx.created, calls) /\ Draft.cat = tx.cat /\ Draft.changes = tx.changes /\ tx.created \in BOOLEAN
  BY InCall, <1>1
<1>3. ListOk(tx.changes, tx.created) /\ PartOk(tx.changes, tx.cat, Loaded, tx.created) /\ WritesOk(tx.changes, calls)
  BY <1>2 DEF WholeOk, PartsOk
<1>4. IsSeq(tx.changes) /\ \A i \in DOMAIN tx.changes : tx.changes[i].op \in ChangeOps
  BY <1>3 DEF ListOk
<1>5. next_id \in Nat /\ next_id # 0
  BY DEF DbOk, RowsOk
<1>6. PICK b : Applied(b, tx.changes, s) /\ Buffer(tx.changes, s) = b[Len(tx.changes)]
  BY BufferApplied, <1>4, <1>5
<1>7. s = head + 1 /\ B = b[Len(tx.changes)] /\ t = persist(B, s)
  BY <1>6 DEF Committing
<1>8. TableFits(t, B, tx.cat, s)
  BY CommitRows, <1>6, <1>7
<1>9. Len(tx.changes) \in 0 .. Len(tx.changes)
  BY <1>6 DEF Applied
<1>10. DataState(b[Len(tx.changes)], tx.changes, tx.cat, Len(tx.changes))
  BY DataStates, <1>2, <1>3, <1>5, <1>6, <1>9
<1> QED
  BY <1>7, <1>8, <1>10

(* Earlier snapshots are loaded as before.                                 *)
LEMMA SnapshotsKept ==
    ASSUME DbOk, NEW s, s = head + 1, NEW B, NEW t, NEW cat, TableFits(t, B, cat, s), NEW q \in 0 .. head
    PROVE  Load(t, q) = Load(table, q) /\ SnapOk(t, q)
<1>1. head \in Nat /\ q \in 0 .. s - 1
  BY DEF DbOk, RowsOk
<1>2. /\ Revised(t.columns, table.columns, s) /\ Revised(t.parts, table.parts, s)
      /\ Revised(t.sorts, table.sorts, s) /\ Revised(t.tags, table.tags, s)
  BY DEF TableFits, ColumnsFit, PartsFit, SortsFit, TagsFit
<1>3. SameKeys(t.part_cols, table.part_cols, {p \in Nat : p < next_id})
  BY DEF TableFits, PartsFit
<1>4. Ids(table.parts) \subseteq {p \in Nat : p < next_id}
  BY DEF DbOk, RowsOk, Ids
<1>5. SameKeys(t.part_cols, table.part_cols, Ids(table.parts))
  BY <1>3, <1>4 DEF SameKeys
<1>6. SnapshotKept(t, table, q)
  BY <1>1, <1>2, <1>5 DEF SnapshotKept, Revised
<1>7. RowShapes(table)
  BY DEF DbOk, RowsOk, RowShapes, Timed
<1>8. SnapOk(table, q)
  BY DEF DbOk
<1> QED
  BY SameSnapshot, <1>6, <1>7, <1>8

\* The data of table t, when IDs below k are taken.
DataFits(t, k) ==
    \A w \in t.data :
        /\ w.nulls \subseteq Ids(t.columns) /\ w.part \in Nat /\ w.part < k
        /\ w.part # 0 => w.values = KeysOf(t.part_cols, w.part)

(* The data after the commit.                                              *)
LEMMA DataPersisted ==
    ASSUME DbOk, NEW s, NEW B, NEW t, NEW cat, TableFits(t, B, cat, s), t.data = table.data \union B.data,
           NEW cs, NullsOk(cs, cat), NEW i, DataState(B, cs, cat, i)
    PROVE  DataFits(t, B.next_id)
<1>1. Ids(table.columns) \union DOMAIN cat.cols \subseteq Ids(t.columns)
  BY DEF TableFits, ColumnsFit
<1>2. PartsEnd(B, t.part_cols, cat, next_id) /\ SameKeys(t.part_cols, table.part_cols, {p \in Nat : p < next_id})
  BY DEF TableFits, PartsFit
<1>3. next_id \in Nat /\ next_id # 0 /\ B.next_id \in Nat /\ next_id <= B.next_id
  BY <1>2 DEF DbOk, RowsOk, PartsEnd
<1> SUFFICES ASSUME NEW w \in t.data
             PROVE  /\ w.nulls \subseteq Ids(t.columns) /\ w.part \in Nat /\ w.part < B.next_id
                    /\ w.part # 0 => w.values = KeysOf(t.part_cols, w.part)
  BY DEF DataFits
<1>4. CASE w \in table.data
  <2>1. w.nulls \subseteq Ids(table.columns) /\ w.part \in Nat /\ w.part < next_id
    BY <1>4 DEF DbOk, RowsOk
  <2>2. w.part # 0 => w.values = KeysOf(table.part_cols, w.part)
    BY <1>4 DEF DbOk, FilesMatchPartitioning, KeysOf
  <2>3. KeysOf(t.part_cols, w.part) = KeysOf(table.part_cols, w.part)
    BY <1>2, <2>1 DEF SameKeys, KeysOf
  <2>4. w.part < B.next_id
    BY <1>3, <2>1
  <2> QED
    BY <1>1, <2>1, <2>2, <2>3, <2>4
<1>5. CASE w \in B.data
  <2>1. DataRow(w, cs, cat, B.part_id)
    BY <1>5 DEF DataState
  <2>2. w.nulls \subseteq DOMAIN cat.cols
    BY <2>1 DEF DataRow, NullsOk
  <2>3. CASE w.part = 0
    BY <1>1, <1>3, <2>2, <2>3
  <2>4. CASE w.part # 0
    <3>1. w.part = B.part_id /\ B.part_id # 0 /\ w.values = cat.part.cols /\ cat.part.cols # {}
      BY <2>1, <2>4 DEF DataRow
    <3>2. B.part_id \in Nat /\ B.part_id < B.next_id /\ KeysOf(t.part_cols, B.part_id) = cat.part.cols
      BY <1>2, <3>1 DEF PartsEnd
    <3> QED
      BY <1>1, <2>2, <3>1, <3>2
  <2> QED
    BY <2>3, <2>4
<1> QED
  BY <1>4, <1>5

(* There are columns after a commit.                                       *)
LEMMA TableExists ==
    ASSUME DbOk, TxOk, HasChanges, NEW s, NEW B, NEW t, TableFits(t, B, tx.cat, s)
    PROVE  t.columns # {}
<1>1. Ids(table.columns) \union DOMAIN tx.cat.cols \subseteq Ids(t.columns)
  BY DEF TableFits, ColumnsFit
<1>2. Open
  BY TableIsOpen
<1>3. CASE Exists
  <2>1. PICK r \in table.columns : TRUE
    BY <1>3 DEF Exists
  <2>2. r.id \in Ids(table.columns)
    BY <2>1 DEF Ids
  <2> QED
    BY <1>1, <2>2 DEF Ids
<1>4. CASE tx.created
  <2>1. WholeOk(Draft, Loaded, tx.created, calls) /\ Draft.cat = tx.cat /\ Draft.changes = tx.changes
    BY InCall, <1>2
  <2>2. ListOk(tx.changes, tx.created) /\ ColumnsOk(tx.changes, tx.cat, Loaded)
    BY <2>1 DEF WholeOk, PartsOk
  <2>3. 1 \in DOMAIN tx.changes /\ tx.changes[1].op = "create" /\ DOMAIN tx.changes[1].val.cols # {}
    BY <1>4, <2>2 DEF ListOk
  <2>4. PICK x : x \in DOMAIN tx.changes[1].val.cols
    BY <2>3
  <2>5. AddsAt(tx.changes, x) # {}
    BY <2>3, <2>4 DEF AddsAt, NewDefs
  <2>6. x \in DOMAIN tx.cat.cols
    BY <2>2, <2>5 DEF ColumnsOk, ColumnOk
  <2> QED
    BY <1>1, <2>6 DEF Ids
<1> QED
  BY <1>2, <1>3, <1>4 DEF Open

(* The rows after a commit.                                                *)
LEMMA RowsAfterCommit ==
    ASSUME DbOk, TxOk, HasChanges, NEW s, NEW B, NEW t, Committing(s, B, t)
    PROVE  RowsOk(t, s, B.next_id)
<1>1. TableFits(t, B, tx.cat, s) /\ DataState(B, tx.changes, tx.cat, Len(tx.changes))
  BY CommitFits
<1>2. head \in Nat /\ s = head + 1 /\ next_id \in Nat /\ next_id # 0 /\ t = persist(B, s)
  BY DEF DbOk, RowsOk, Committing
<1>3. Open
  BY TableIsOpen
<1>4. WholeOk(Draft, Loaded, tx.created, calls) /\ Draft.cat = tx.cat /\ Draft.changes = tx.changes
  BY InCall, <1>3
<1>5. NullsOk(tx.changes, tx.cat) /\ IdsOk(tx.cat)
  BY <1>4 DEF WholeOk, PartsOk, NotNullOk
<1>6. t.data = table.data \union B.data
  BY <1>2 DEF persist
<1>7. DataFits(t, B.next_id)
  BY DataPersisted, <1>1, <1>5, <1>6
<1>8. B.next_id \in Nat /\ B.next_id # 0
  <2>1. B.next_id \in Nat /\ next_id <= B.next_id
    BY <1>1 DEF TableFits, PartsFit, PartsEnd
  <2> QED
    BY <1>2, <2>1
<1>9. s \in Nat
  BY <1>2
<1>10. Timed(t.columns, s) /\ Timed(t.parts, s) /\ Timed(t.sorts, s) /\ Timed(t.tags, s)
  BY <1>1 DEF TableFits, ColumnsFit, PartsFit, SortsFit, TagsFit
<1>11. Ids(t.columns) \subseteq Ids(table.columns) \union DOMAIN tx.cat.cols
  BY <1>1 DEF TableFits, ColumnsFit
<1>12. \A x \in Ids(t.columns) : x \in Nat /\ x # 0 /\ x <= NextColumnId(tx.cat)
  <2> SUFFICES ASSUME NEW x \in Ids(t.columns) PROVE x \in Nat /\ x # 0 /\ x <= NextColumnId(tx.cat)
    OBVIOUS
  <2>1. x \in Nat /\ 0 < x /\ x < NextColumnId(tx.cat) /\ NextColumnId(tx.cat) \in Nat
    BY <1>5, <1>11 DEF IdsOk
  <2> QED
    BY <2>1
<1>13. \E n \in Nat : \A x \in Ids(t.columns) : x <= n
  BY <1>5, <1>12 DEF IdsOk
<1>14. \A r \in t.columns : DOMAIN r = ColumnFields /\ r.id \in Nat /\ r.id # 0
  <2>1. \A r \in t.columns : r.id \in Ids(t.columns)
    BY DEF Ids
  <2>2. \A r \in t.columns : DOMAIN r = ColumnFields
    BY <1>1 DEF TableFits, ColumnsFit, HaveFields
  <2> QED
    BY <1>12, <2>1, <2>2
<1>15. \A r \in t.parts \union t.part_cols : r.id \in Nat /\ r.id # 0 /\ r.id < B.next_id
  BY <1>1 DEF TableFits, PartsFit, NumberedBelow
<1>16. (\A r \in t.sorts : "name" \in DOMAIN r) /\ (\A r \in t.tags : DOMAIN r = TagFields)
  BY <1>1 DEF TableFits, SortsFit, TagsFit, HaveFields, HaveNames
<1>17. \A w \in t.data : w.nulls \subseteq Ids(t.columns) /\ w.part \in Nat /\ w.part < B.next_id
  BY <1>7 DEF DataFits
<1>18. t.columns # {}
  BY TableExists, <1>1
<1> QED
  BY <1>8, <1>9, <1>10, <1>13, <1>14, <1>15, <1>16, <1>17, <1>18 DEF RowsOk

(* The writes of the transaction are in the database.                      *)
LEMMA WritesAfterCommit ==
    ASSUME DbOk, TxOk, HasChanges, NEW s, NEW B, NEW t, Committing(s, B, t)
    PROVE  acked \union StagedWrites \subseteq {w.write : w \in t.data}
<1>1. DataState(B, tx.changes, tx.cat, Len(tx.changes))
  BY CommitFits
<1>2. t.data = table.data \union B.data
  BY DEF Committing, persist
<1>3. acked \subseteq {w.write : w \in table.data}
  BY DEF DbOk, WritesArePersisted
<1>4. Open
  BY TableIsOpen
<1>5. IsSeq(tx.changes)
  BY InCall, <1>4
<1>6. DOMAIN tx.changes = 1 .. Len(tx.changes)
  BY <1>5, LenProperties DEF IsSeq
<1>7. ASSUME NEW x \in StagedWrites
      PROVE  \E w \in B.data : w.write = x
  <2>1. PICK c \in Range(tx.changes) : c.op \in WriteKinds /\ x = WriteOf(c)
    BY DEF StagedWrites, WriteOf, WriteKinds
  <2>2. PICK j \in DOMAIN tx.changes : c = tx.changes[j]
    BY <2>1 DEF Range
  <2> QED
    BY <1>1, <1>6, <2>1, <2>2 DEF DataState
<1> QED
  BY <1>2, <1>3, <1>7

(* Columns that allow no NULL hold none.                                   *)
LEMMA NullsAfterCommit ==
    ASSUME DbOk, TxOk, HasChanges, NEW s, NEW B, NEW t, Committing(s, B, t), Shows(LoadedColumns(t, s), tx.cat),
           NEW c \in DOMAIN LoadedColumns(t, s), ~ LoadedColumns(t, s)[c].nullable, NEW w \in t.data
    PROVE  c \notin w.nulls /\ c \in w.cols
<1>1. DataState(B, tx.changes, tx.cat, Len(tx.changes))
  BY CommitFits
<1>2. t.data = table.data \union B.data
  BY DEF Committing, persist
<1>3. Open
  BY TableIsOpen
<1>4. WholeOk(Draft, Loaded, tx.created, calls) /\ Draft.cat = tx.cat /\ Draft.changes = tx.changes
  BY InCall, <1>3
<1>5. NotNullOk(tx.changes, tx.cat)
  BY <1>4 DEF WholeOk, PartsOk
<1>6. c \in DOMAIN tx.cat.cols /\ ~ tx.cat.cols[c].nullable
  BY DEF Shows, Present
<1>7. NoNulls(tx.changes, c)
  BY <1>5, <1>6 DEF NotNullOk
<1>8. CASE w \in table.data
  BY <1>7, <1>8 DEF NoNulls, HoldsNull
<1>9. CASE w \in B.data
  <2>1. DataRow(w, tx.changes, tx.cat, B.part_id)
    BY <1>1, <1>9 DEF DataState
  <2>2. PICK j \in DOMAIN tx.changes : /\ tx.changes[j].op \in WriteKinds
                                        /\ w.nulls = tx.changes[j].val.nulls /\ w.cols = tx.changes[j].val.cols
    BY <2>1 DEF DataRow
  <2> QED
    BY <1>7, <2>2 DEF NoNulls
<1> QED
  BY <1>2, <1>8, <1>9

(* The commit.                                                             *)
LEMMA CommitStep ==
    ASSUME BufferInv, Commit
    PROVE  /\ DbOk' /\ TxOk' /\ \A q \in 0 .. head : Load(table', q) = Load(table, q)
<1>1. DbOk /\ TxOk
  BY DEF BufferInv
<1>2. PICK s, B, t : Committing(s, B, t)
  BY DEF Committing
<1>3. /\ Active /\ tx.changes # <<>> /\ table' = t /\ head' = s /\ next_id' = B.next_id
      /\ staged' = [shown |-> Shown(tx.cat), removed |-> tx.cat.gone] /\ acked' = acked \union StagedWrites
      /\ used' = used \union DOMAIN tx.cat.cols /\ tx' = NoTx
  BY <1>2 DEF Commit, Committing
<1>4. HasChanges
  BY <1>3 DEF HasChanges
<1>5. TableFits(t, B, tx.cat, s)
  BY CommitFits, <1>1, <1>2, <1>4
<1>6. RowsOk(t, s, B.next_id)
  BY RowsAfterCommit, <1>1, <1>2, <1>4
<1>7. CatOk(tx.cat)
  <2>1. Open
    BY TableIsOpen, <1>1, <1>4
  <2>2. WholeOk(Draft, Loaded, tx.created, calls) /\ Draft.cat = tx.cat
    BY InCall, <1>1, <2>1
  <2> QED
    BY <2>2 DEF WholeOk, PartsOk
<1>8. ShowsCat(t, s, tx.cat)
  BY <1>5 DEF TableFits, ColumnsFit, PartsFit, SortsFit, TagsFit, ShowsCat
<1>9. SnapOk(t, s) /\ Remaining(Load(t, s)) = Remaining(tx.cat) /\ Shows(LoadedColumns(t, s), tx.cat)
  BY NewSnapshotOk, <1>7, <1>8
<1>10. \A q \in 0 .. head : Load(t, q) = Load(table, q) /\ SnapOk(t, q)
  BY SnapshotsKept, <1>1, <1>2, <1>5 DEF Committing
<1>11. \A q \in 0 .. s : SnapOk(t, q)
  <2>1. head \in Nat /\ s = head + 1
    BY <1>1, <1>2 DEF DbOk, RowsOk, Committing
  <2>2. \A q \in 0 .. s : q \in 0 .. head \/ q = s
    BY <2>1
  <2> QED
    BY <1>9, <1>10, <2>2
<1>12. used' \subseteq Ids(t.columns)
  <2>1. used \subseteq Ids(table.columns)
    BY <1>1 DEF DbOk
  <2>2. Ids(table.columns) \union DOMAIN tx.cat.cols \subseteq Ids(t.columns)
    BY <1>5 DEF TableFits, ColumnsFit
  <2> QED
    BY <1>3, <2>1, <2>2
<1>13. CommittedIsStaged'
  <2>1. Shown(Load(t, s)) = Remaining(Load(t, s))
    BY <1>9, LoadedIsShown DEF SnapOk
  <2>2. Without(Shown(tx.cat), tx.cat.gone) = Remaining(tx.cat)
    BY <1>7, ShownRemains
  <2>. QED
    BY <1>3, <1>9, <2>1, <2>2 DEF CommittedIsStaged
<1>14. WritesArePersisted'
  BY WritesAfterCommit, <1>1, <1>2, <1>3, <1>4 DEF WritesArePersisted
<1>15. NotNullHolds'
  <2>1. \A c \in DOMAIN LoadedColumns(t, s) : ~ LoadedColumns(t, s)[c].nullable =>
           \A w \in t.data : c \notin w.nulls /\ c \in w.cols
    BY NullsAfterCommit, <1>1, <1>2, <1>4, <1>9
  <2> QED
    BY <1>3, <2>1 DEF NotNullHolds, HoldsNull
<1>16. FilesMatchPartitioning'
  <2>1. DataState(B, tx.changes, tx.cat, Len(tx.changes))
    BY CommitFits, <1>1, <1>2, <1>4
  <2>2. Open
    BY TableIsOpen, <1>1, <1>4
  <2>3. WholeOk(Draft, Loaded, tx.created, calls) /\ Draft.cat = tx.cat /\ Draft.changes = tx.changes
    BY InCall, <1>1, <2>2
  <2>4. NullsOk(tx.changes, tx.cat)
    BY <2>3 DEF WholeOk, PartsOk, NotNullOk
  <2>5. t.data = table.data \union B.data
    BY <1>2 DEF Committing, persist
  <2>6. DataFits(t, B.next_id)
    BY DataPersisted, <1>1, <1>5, <2>1, <2>4, <2>5
  <2> QED
    BY <1>3, <2>6 DEF FilesMatchPartitioning, DataFits, KeysOf
<1>17. DbOk'
  BY <1>3, <1>6, <1>11, <1>12, <1>13, <1>14, <1>15, <1>16 DEF DbOk
<1>18. TxOk'
  BY <1>3 DEF TxOk, Active, NoTx
<1>19. \A q \in 0 .. head : Load(table', q) = Load(table, q)
  BY <1>3, <1>10
<1> QED
  BY <1>17, <1>18, <1>19

-----------------------------------------------------------------------------
(* The invariant holds.                                                    *)

\* A catalog with columns only.
PlainCat(cols) == [cols |-> cols, gone |-> {}, part |-> NoPart, sort |-> 0, tags |-> Empty, next |-> 0]

(* Columns without keys and tags are a catalog.                            *)
LEMMA PlainCatOk ==
    ASSUME NEW cols, ColsOk(PlainCat(cols))
    PROVE  CatOk(PlainCat(cols))
BY DEF CatOk, KeysOk, PlainCat, CatFields, NoPart

(* A table with columns only shows it.                                     *)
LEMMA PlainShown ==
    ASSUME NEW cols, NEW t, NEW s, ShowsColumns(Visible(t.columns, s), PlainCat(cols)),
           t.parts = {}, t.sorts = {}, t.tags = {}
    PROVE  ShowsCat(t, s, PlainCat(cols))
<1> DEFINE cat == PlainCat(cols)
<1>1. cat.part.cols = {} /\ SortName(cat) = Unsorted /\ DOMAIN cat.tags = {}
  BY DEF PlainCat, NoPart, SortName, Empty
<1>2. Visible(t.parts, s) = {} /\ Visible(t.sorts, s) = {} /\ Visible(t.tags, s) = {}
  BY DEF Visible
<1> HIDE DEF cat
<1>3. ShowsPart({}, t.part_cols, cat) /\ ShowsSort({}, cat) /\ ShowsTags({}, cat)
  BY <1>1 DEF ShowsPart, ShowsSort, ShowsTags, AtMostOne, OneEach, Ids
<1> QED
  BY <1>2, <1>3 DEF ShowsCat, cat

(* A snapshot without columns can be loaded.                               *)
LEMMA NothingLoads ==
    ASSUME NEW t, NEW s, Visible(t.columns, s) = {}, t.parts = {}, t.sorts = {}, t.tags = {}
    PROVE  SnapOk(t, s)
<1> DEFINE cat == PlainCat(Empty)
<1>1. cat.cols = Empty /\ cat.gone = {}
  BY DEF PlainCat
<1>2. DOMAIN Empty = {}
  BY DEF Empty
<1>3. ColsOk(cat)
  BY <1>1, <1>2 DEF ColsOk
<1>4. ShowsColumns({}, cat)
  BY <1>1, <1>2 DEF ShowsColumns, OneEach, Ids, Present
<1> QED
  BY <1>3, <1>4, PlainCatOk, PlainShown, NewSnapshotOk

(* The rows of a new table show its columns.                               *)
LEMMA LayoutLoads ==
    ASSUME NEW cols \in Layouts, NEW t, t = [NoRows EXCEPT !.columns = Versions(1, cols)]
    PROVE  RowsOk(t, 1, 2) /\ \A q \in 0 .. 1 : SnapOk(t, q)
<1>0. /\ t.columns = Versions(1, cols) /\ t.parts = {} /\ t.part_cols = {} /\ t.sorts = {}
      /\ t.tags = {} /\ t.data = {}
  BY DEF NoRows
<1>1. /\ 1 \in DOMAIN cols
      /\ (DOMAIN cols = {1} \/ DOMAIN cols = {1, 2, 3})
      /\ \A x \in DOMAIN cols :
            /\ x \in Nat /\ x # 0 /\ DefOk(cols[x])
            /\ cols[x].parent # 0 => cols[x].parent \in DOMAIN cols /\ cols[cols[x].parent].parent = 0
            /\ \A y \in DOMAIN cols :
                  cols[x].parent = cols[y].parent /\ cols[x].name = cols[y].name => x = y
  BY LayoutFacts
<1>2. Versions(1, cols) = {ColumnVersion(1, x, cols[x]) : x \in DOMAIN cols}
  BY DEF Versions, ColumnVersion
<1>3. \A x \in DOMAIN cols : LET r == ColumnVersion(1, x, cols[x]) IN
          /\ DOMAIN r = ColumnFields /\ r.id = x /\ r.begin = 1 /\ r.end = NULL
          /\ r.parent = cols[x].parent /\ r.name = cols[x].name /\ r.type = cols[x].type
          /\ r.nullable = cols[x].nullable
  BY DEF ColumnVersion, ColumnFields
<1>4. \A r \in t.columns : /\ r.id \in DOMAIN cols /\ r = ColumnVersion(1, r.id, cols[r.id])
                           /\ DOMAIN r = ColumnFields /\ r.begin = 1 /\ r.end = NULL
                           /\ Column(r.parent, r.name, r.type, r.nullable) = cols[r.id]
  <2> SUFFICES ASSUME NEW x \in DOMAIN cols, NEW r, r = ColumnVersion(1, x, cols[x])
               PROVE  /\ r.id \in DOMAIN cols /\ r = ColumnVersion(1, r.id, cols[r.id])
                      /\ DOMAIN r = ColumnFields /\ r.begin = 1 /\ r.end = NULL
                      /\ Column(r.parent, r.name, r.type, r.nullable) = cols[r.id]
    BY <1>0, <1>2
  <2>1. /\ DOMAIN r = ColumnFields /\ r.id = x /\ r.begin = 1 /\ r.end = NULL
        /\ r.parent = cols[x].parent /\ r.name = cols[x].name /\ r.type = cols[x].type
        /\ r.nullable = cols[x].nullable
    BY <1>3
  <2>2. cols[x] = Column(cols[x].parent, cols[x].name, cols[x].type, cols[x].nullable)
    BY <1>1 DEF DefOk
  <2> QED
    BY <2>1, <2>2
<1>5. Ids(t.columns) = DOMAIN cols
  <2>1. \A x \in DOMAIN cols : ColumnVersion(1, x, cols[x]) \in t.columns /\ ColumnVersion(1, x, cols[x]).id = x
    BY <1>0, <1>2, <1>3
  <2>2. \A x \in DOMAIN cols : \E r \in t.columns : r.id = x
    BY <2>1
  <2> QED
    BY <1>4, <2>2 DEF Ids
<1>6. Visible(t.columns, 1) = t.columns /\ Visible(t.columns, 0) = {}
  BY <1>4 DEF Visible, VisibleAt
<1>7. SnapOk(t, 0)
  BY <1>0, <1>6, NothingLoads
<1>8. SnapOk(t, 1)
  <2> DEFINE cat == PlainCat(cols)
  <2>1. cat.cols = cols /\ cat.gone = {} /\ Present(cat) = DOMAIN cols
    BY DEF PlainCat, Present
  <2>2. ColsOk(cat)
    BY <1>1, <2>1 DEF ColsOk
  <2>3. OneEach(t.columns)
    BY <1>4 DEF OneEach
  <2> HIDE DEF cat
  <2>4. ShowsColumns(t.columns, cat)
    BY <1>4, <1>5, <2>1, <2>3 DEF ShowsColumns
  <2> QED
    BY <1>0, <1>6, <2>2, <2>4, PlainCatOk, PlainShown, NewSnapshotOk DEF cat
<1>9. RowsOk(t, 1, 2)
  <2>1. Timed(t.columns, 1)
    BY <1>4 DEF Timed, ColumnFields
  <2>2. Timed({}, 1)
    BY DEF Timed
  <2>3. \A r \in t.columns : DOMAIN r = ColumnFields /\ r.id \in Nat /\ r.id # 0
    BY <1>1, <1>4
  <2>4. \E n \in Nat : \A x \in Ids(t.columns) : x <= n
    BY <1>1, <1>5
  <2>5. t.columns # {}
    BY <1>1, <1>5 DEF Ids
  <2>6. \A r \in t.parts \union t.part_cols : r.id \in Nat /\ r.id # 0 /\ r.id < 2
    BY <1>0
  <2>7. (\A r \in t.sorts : "name" \in DOMAIN r) /\ (\A r \in t.tags : DOMAIN r = TagFields)
    BY <1>0
  <2>8. \A w \in t.data : w.nulls \subseteq Ids(t.columns) /\ w.part \in Nat /\ w.part < 2
    BY <1>0
  <2>9. Timed(t.parts, 1) /\ Timed(t.sorts, 1) /\ Timed(t.tags, 1)
    BY <1>0, <2>2
  <2>10. 1 \in Nat /\ 2 \in Nat /\ 2 # 0
    OBVIOUS
  <2> QED
    BY <2>1, <2>3, <2>4, <2>5, <2>6, <2>7, <2>8, <2>9, <2>10 DEF RowsOk
<1>10. \A q \in 0 .. 1 : q = 0 \/ q = 1
  OBVIOUS
<1> QED
  BY <1>7, <1>8, <1>9, <1>10

(* An empty database can be loaded.                                        *)
LEMMA NoRowsLoad == RowsOk(NoRows, 0, 1) /\ \A q \in 0 .. 0 : SnapOk(NoRows, q)
<1>0. /\ NoRows.columns = {} /\ NoRows.parts = {} /\ NoRows.part_cols = {} /\ NoRows.sorts = {}
      /\ NoRows.tags = {} /\ NoRows.data = {}
  BY DEF NoRows
<1>1. Timed({}, 0) /\ Ids({}) = {}
  BY DEF Timed, Ids
<1>2. RowsOk(NoRows, 0, 1)
  BY <1>0, <1>1 DEF RowsOk
<1>3. Visible(NoRows.columns, 0) = {}
  BY <1>0 DEF Visible
<1>4. SnapOk(NoRows, 0)
  BY <1>0, <1>3, NothingLoads
<1>5. \A q \in 0 .. 0 : q = 0
  OBVIOUS
<1> QED
  BY <1>2, <1>4, <1>5

(* The initial states.                                                     *)
LEMMA BufferInit ==
    ASSUME Init
    PROVE  BufferInv
<1>1. /\ calls = 0 /\ tx = NoTx /\ staged = [shown |-> Shown(Load(table, head)), removed |-> {}] /\ acked = {} /\ used = Ids(table.columns)
      /\ \/ table = NoRows /\ head = 0 /\ next_id = 1
         \/ \E cols \in Layouts : /\ table = [NoRows EXCEPT !.columns = Versions(1, cols)]
                                  /\ head = 1 /\ next_id = 2
  BY DEF Init
<1>2. RowsOk(table, head, next_id) /\ \A q \in 0 .. head : SnapOk(table, q)
  <2>1. CASE table = NoRows /\ head = 0 /\ next_id = 1
    BY <2>1, NoRowsLoad
  <2>2. ASSUME NEW cols \in Layouts, table = [NoRows EXCEPT !.columns = Versions(1, cols)], head = 1, next_id = 2
        PROVE  RowsOk(table, head, next_id) /\ \A q \in 0 .. head : SnapOk(table, q)
    BY <2>2, LayoutLoads
  <2> QED
    BY <1>1, <2>1, <2>2
<1>3. table.data = {}
  BY <1>1 DEF NoRows
<1>4. CommittedIsStaged /\ WritesArePersisted /\ NotNullHolds /\ FilesMatchPartitioning
  <2>1. CommittedIsStaged
    <3> DEFINE M == Load(table, head)
    <3>1. head \in 0 .. head
      BY <1>1
    <3>2. CatOk(M) /\ M.gone = {}
      BY <1>2, <3>1 DEF SnapOk, Load
    <3>3. Without(Shown(M), {}) = Shown(M)
      BY <3>2, ShownRemains, LoadedIsShown
    <3>. HIDE DEF M
    <3>. QED
      BY <1>1, <3>3 DEF CommittedIsStaged, M
  <2>. QED
    BY <1>1, <1>3, <2>1 DEF WritesArePersisted, NotNullHolds, HoldsNull, FilesMatchPartitioning
<1>5. TxOk
  BY <1>1 DEF TxOk, Active, NoTx
<1> QED
  BY <1>1, <1>2, <1>4, <1>5 DEF BufferInv, DbOk

(* Steps that leave the database alone.                                    *)
LEMMA QuietSteps ==
    ASSUME Careful, BufferInv, Next, ~ Commit
    PROVE  BufferInv' /\ table' = table
<1>1. UNCHANGED <<table, head, next_id, staged, acked, used>> /\ calls' \in {calls, calls + 1}
  BY DEF Next, Begin, CreateTable, AddColumn, RemoveColumn, RenameColumn, UpdateDtype, UpdateNullability,
         UpdateNullabilityPanics, UpdateStruct, UpdateSchema, UpdatePartitioning, UpdateSortInfo, EditTag,
         Write, Abandon, Stage, StageGuarded
<1>2. DbOk'
  BY <1>1, DbKept DEF BufferInv
<1>3. calls' \in Nat
  BY <1>1 DEF BufferInv
<1>4. CASE UpdateNullabilityPanics \/ Abandon
  <2>1. tx' = NoTx
    BY <1>4 DEF UpdateNullabilityPanics, Abandon
  <2>2. TxOk'
    BY <2>1 DEF TxOk, Active, NoTx
  <2> QED
    BY <1>1, <1>2, <1>3, <2>2 DEF BufferInv
<1>5. CASE ~ (UpdateNullabilityPanics \/ Abandon)
  <2>1. TxOk'
    BY <1>5, BeginStep, CreateStep, AddColumnStep, ColumnSteps, SchemaSteps, KeySteps, TagStep, WriteStep DEF Next
  <2> QED
    BY <1>1, <1>2, <1>3, <2>1 DEF BufferInv
<1> QED
  BY <1>4, <1>5

(* Nothing happens.                                                        *)
LEMMA BufferStutters ==
    ASSUME BufferInv, UNCHANGED vars
    PROVE  BufferInv'
<1>1. UNCHANGED <<table, head, next_id, staged, acked, used>> /\ calls' = calls /\ tx' = tx
  BY DEF vars
<1>2. DbOk'
  BY <1>1, DbKept DEF BufferInv
<1>3. TxOk'
  <2>1. PICK d, L, created, n : d = Draft /\ L = Loaded /\ created = tx.created /\ n = calls
    OBVIOUS
  <2>2. Draft' = Draft /\ Loaded' = Loaded /\ tx'.created = tx.created /\ Exists' = Exists /\ Active' = Active
    BY <1>1 DEF Draft, Loaded, Exists, Active
  <2>3. WholeOk(Draft, Loaded, tx.created, calls) => WholeOk(Draft, Loaded, tx.created, calls)'
    <3>1. ASSUME WholeOk(Draft, Loaded, tx.created, calls)
          PROVE  WholeOk(Draft, Loaded, tx.created, calls)'
      <4>1. WholeOk(d, L, created, n)
        BY <2>1, <3>1
      <4>2. WholeOk(d, L, created, n)'
        BY <1>1, <4>1, WholeKept
      <4>3. d = Draft' /\ L = Loaded' /\ created = tx'.created /\ n = calls'
        BY <1>1, <2>1, <2>2
      <4> QED
        BY <4>2, <4>3
    <3> QED
      BY <3>1
  <2>4. TxOk
    BY DEF BufferInv
  <2> QED
    BY <1>1, <2>2, <2>3, <2>4 DEF TxOk
<1> QED
  BY <1>1, <1>2, <1>3 DEF BufferInv

(* Commits change the table, other steps of careful callers do not.        *)
LEMMA BufferNext ==
    ASSUME Careful, BufferInv, [Next]_vars
    PROVE  BufferInv' /\ (table' = table \/ \A q \in 0 .. head : Load(table', q) = Load(table, q))
<1>1. CASE Commit
  <2>1. DbOk' /\ TxOk' /\ \A q \in 0 .. head : Load(table', q) = Load(table, q)
    BY <1>1, CommitStep
  <2>2. calls' \in Nat
    BY <1>1 DEF Commit, BufferInv
  <2> QED
    BY <2>1, <2>2 DEF BufferInv
<1>2. CASE Next /\ ~ Commit
  BY <1>2, QuietSteps
<1>3. CASE UNCHANGED vars
  BY <1>3, BufferStutters DEF vars
<1> QED
  BY <1>1, <1>2, <1>3

(* Whatever careful callers do, the private catalog is what the list of    *)
(* changes makes of the loaded catalog, and the rows in the database can   *)
(* be loaded in every snapshot and are what was staged.                    *)
THEOREM BufferInvariance ==
    ASSUME Careful
    PROVE  Spec => []BufferInv
<1>1. Init => BufferInv
  BY BufferInit
<1>2. BufferInv /\ [Next]_vars => BufferInv'
  BY BufferNext
<1> QED
  BY <1>1, <1>2, PTL DEF Spec

(* The table a caller saw when the transaction committed is the table that *)
(* the next transaction loads, less the struct fields which the caller had *)
(* removed and its schema went on listing: ChangeSet::new, the executors   *)
(* and persist lose no change, whatever the number of calls.               *)
THEOREM CommittedTablesAreStaged ==
    ASSUME Careful
    PROVE  Spec => []CommittedIsStaged
<1>1. BufferInv => CommittedIsStaged
  BY DEF BufferInv, DbOk
<1> QED
  BY <1>1, BufferInvariance, PTL

(* At most one row.                                                        *)
LEMMA OneRow ==
    ASSUME NEW rows, AtMostOne(rows)
    PROVE  Cardinality(rows) <= 1
<1>1. CASE rows = {}
  BY <1>1, FS_EmptySet
<1>2. CASE rows # {}
  <2>1. PICK r : rows = {r}
    BY <1>2 DEF AtMostOne
  <2>2. Cardinality(rows) = 1
    BY <2>1, FS_Singleton
  <2> QED
    BY <2>2
<1> QED
  BY <1>1, <1>2

\* What EverySnapshotLoads says of one snapshot.
Loads(t, s) ==
    LET rows == Visible(t.columns, s) IN
    /\ \A r, q \in rows : r.id = q.id => r = q
    /\ \A r \in rows : r.parent = 0 \/ r.parent \in Ids(rows)
    /\ \A r, q \in rows : r # q => <<r.parent, r.name>> # <<q.parent, q.name>>
    /\ Cardinality(Visible(t.parts, s)) <= 1
    /\ Cardinality(Visible(t.sorts, s)) <= 1
    /\ LoadedPart(t, s).cols \subseteq Ids(rows)
    /\ Visible(t.parts, s) # {} => LoadedPart(t, s).cols # {}
    /\ LoadedSort(t, s) # NULL

(* A snapshot that is in order can be loaded.                              *)
LEMMA SnapshotLoads ==
    ASSUME NEW t, NEW s, SnapOk(t, s)
    PROVE  Loads(t, s)
<1> DEFINE rows == Visible(t.columns, s)
           M == Load(t, s)
<1>1. OneEach(rows) /\ AtMostOne(Visible(t.parts, s)) /\ AtMostOne(Visible(t.sorts, s)) /\ CatOk(M)
  BY DEF SnapOk
<1>2. /\ M.cols = [c \in Ids(rows) |-> Column(RowOf(rows, c).parent, RowOf(rows, c).name, RowOf(rows, c).type, RowOf(rows, c).nullable)]
      /\ M.part = LoadedPart(t, s) /\ M.sort = LoadedSort(t, s)
  BY DEF Load, LoadedColumns
<1>3. Visible(t.parts, s) # {} => LoadedPart(t, s).cols # {}
  BY DEF SnapOk
<1> HIDE DEF rows, M
<1>4. ASSUME NEW r \in rows
      PROVE  r.id \in DOMAIN M.cols /\ M.cols[r.id].parent = r.parent /\ M.cols[r.id].name = r.name
  <2>1. r.id \in Ids(rows)
    BY DEF Ids
  <2>2. RowOf(rows, r.id) = r
    BY <1>1, <2>1, RowFound DEF OneEach
  <2> QED
    BY <1>2, <2>1, <2>2 DEF Column
<1>5. DOMAIN M.cols = Ids(rows)
  BY <1>2
<1>6. \A r, q \in rows : r.id = q.id => r = q
  BY <1>1 DEF OneEach
<1>7. \A r \in rows : r.parent = 0 \/ r.parent \in Ids(rows)
  BY <1>1, <1>4, <1>5 DEF CatOk, ColsOk
<1>8. ASSUME NEW r \in rows, NEW q \in rows, r.parent = q.parent, r.name = q.name
      PROVE  r = q
  <2>1. r.id = q.id
    BY <1>1, <1>4, <1>8 DEF CatOk, ColsOk
  <2> QED
    BY <1>6, <2>1
<1>9. \A r, q \in rows : r # q => <<r.parent, r.name>> # <<q.parent, q.name>>
  BY <1>8
<1>10. Cardinality(Visible(t.parts, s)) <= 1 /\ Cardinality(Visible(t.sorts, s)) <= 1
  BY <1>1, OneRow
<1>11. LoadedPart(t, s).cols \subseteq Ids(rows)
  BY <1>1, <1>2, <1>5 DEF CatOk, KeysOk, IsRoot, Present
<1>12. LoadedSort(t, s) # NULL
  <2>1. M.sort # 0 => M.sort \in Nat
    BY <1>1 DEF CatOk, KeysOk, ColsOk, IsRoot, Present
  <2> QED
    BY <1>2, <2>1 DEF NULL
<1> QED
  BY <1>3, <1>6, <1>7, <1>9, <1>10, <1>11, <1>12 DEF Loads, rows

(* Every snapshot of the table can be loaded: from_ducklake finds one      *)
(* definition of each column, the struct of each field, and the columns of *)
(* the partitioning and of the sort order.                                 *)
THEOREM SnapshotsLoad ==
    ASSUME Careful
    PROVE  Spec => []EverySnapshotLoads
<1>1. BufferInv => EverySnapshotLoads
  <2> SUFFICES ASSUME BufferInv
               PROVE  EverySnapshotLoads
    OBVIOUS
  <2>1. \A s \in 0 .. head : Loads(table, s)
    BY SnapshotLoads DEF BufferInv, DbOk
  <2> QED
    BY <2>1 DEF EverySnapshotLoads, Loads
<1> QED
  BY <1>1, BufferInvariance, PTL

(* No column gets the ID of another one that was ever committed: field IDs *)
(* in old data files never name a new column.                              *)
THEOREM FieldIdsAreNotReused ==
    ASSUME Careful
    PROVE  Spec => []FieldIdsNotReused
<1>1. BufferInv => FieldIdsNotReused
  <2> SUFFICES ASSUME BufferInv, Active, NEW x \in DOMAIN tx.cat.cols, x \in used
               PROVE  x \in DOMAIN LoadedColumns(table, head)
    BY DEF FieldIdsNotReused
  <2>1. x \in Ids(table.columns)
    BY DEF BufferInv, DbOk
  <2>2. Loaded.cols = LoadedColumns(table, head)
    BY DEF Loaded, Load
  <2>3. CASE Open
    <3>1. WholeOk(Draft, Loaded, tx.created, calls) /\ Draft.cat = tx.cat /\ Draft.changes = tx.changes
      BY <2>3, InCall DEF BufferInv
    <3>2. ColumnOk(tx.changes, tx.cat, Loaded, x)
      BY <3>1 DEF WholeOk, PartsOk, ColumnsOk
    <3> QED
      BY <2>1, <2>2, <3>2 DEF ColumnOk
  <2>4. CASE ~ Open
    <3>1. tx.cat = Loaded
      BY <2>4 DEF BufferInv, TxOk, Open
    <3> QED
      BY <2>2, <3>1
  <2> QED
    BY <2>3, <2>4
<1> QED
  BY <1>1, BufferInvariance, PTL

(* No write is lost: every file and every batch of inline rows of a        *)
(* committed transaction is in the database.                               *)
THEOREM NoWriteIsLost ==
    ASSUME Careful
    PROVE  Spec => []WritesArePersisted
<1>1. BufferInv => WritesArePersisted
  BY DEF BufferInv, DbOk
<1> QED
  BY <1>1, BufferInvariance, PTL

(* A column that allows no NULL holds none, in rows older than it neither: *)
(* when the callers look after these rows, the check against the           *)
(* statistics and the check at each write leave no other gap.              *)
THEOREM NotNullColumnsHoldNoNull ==
    ASSUME Careful
    PROVE  Spec => []NotNullHolds
<1>1. BufferInv => NotNullHolds
  BY DEF BufferInv, DbOk
<1> QED
  BY <1>1, BufferInvariance, PTL

(* The partition values of a file belong to the partitioning it is         *)
(* registered with, also when one transaction partitions and writes.       *)
THEOREM FilesFitTheirPartitioning ==
    ASSUME Careful
    PROVE  Spec => []FilesMatchPartitioning
<1>1. BufferInv => FilesMatchPartitioning
  BY DEF BufferInv, DbOk
<1> QED
  BY <1>1, BufferInvariance, PTL

(* A commit leaves all earlier snapshots of the table as they were.        *)
THEOREM HistoryStays ==
    ASSUME Careful
    PROVE  Spec => HistoryIsKept
<1>1. BufferInv /\ [Next]_vars => [\A s \in 0 .. head : Shown(Load(table', s)) = Shown(Load(table, s))]_table
  <2> SUFFICES ASSUME BufferInv, [Next]_vars, table' # table
               PROVE  \A s \in 0 .. head : Shown(Load(table', s)) = Shown(Load(table, s))
    OBVIOUS
  <2>1. \A q \in 0 .. head : Load(table', q) = Load(table, q)
    BY BufferNext
  <2> QED
    BY <2>1
<1> QED
  BY <1>1, BufferInvariance, PTL DEF Spec, HistoryIsKept

=============================================================================
